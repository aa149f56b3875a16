------------------------------ MODULE Accounts ------------------------------
(***************************************************************************)
(* The accounts of Invites, and the verification links of one of them: a   *)
(* signup that commits lets the first mail be asked for, and a deletion    *)
(* takes the links with the users row, whatever is under way on either     *)
(* side.  The account's id is its Auth user.                               *)
(***************************************************************************)
EXTENDS Invites

CONSTANTS
    Owner,          \* the address whose account Verification follows
    Others,         \* the delivery addresses it may have
    LinkIds, Clerks, Bad, MaxRetries, Allowances,
    Bounds          \* bound: a budget, and the allowance that goes with it

VARIABLES columns, links, polls, task, clerk, spare

V == INSTANCE Verification
        WITH Users <- Subs, Home <- Owner, Addresses <- Others \cup {Owner},
             account <- local[Owner]

ASSUME AccountsAssumption == Owner \in Emails /\ Owner \notin Others /\ V!ConstantsOK
                          /\ Bounds \subseteq Budgets \X Allowances

verification == <<columns, links, polls, task, clerk, spare>>

AccountsInit == Init /\ V!Init /\ <<left, spare>> \in Bounds

\* The owner's account appears or disappears with its users row.
AccountStep ==
    /\ Next
    /\ CASE local[Owner] = None /\ local'[Owner] # None -> V!Appear(local'[Owner])
         [] local[Owner] # None /\ local'[Owner] = None -> V!Remove
         [] OTHER -> UNCHANGED verification

LinkStep == UNCHANGED vars /\ V!Step

AccountsNext == AccountStep \/ LinkStep

AccountsSpec == AccountsInit /\ [][AccountsNext]_<<vars, verification>>

-----------------------------------------------------------------------------
(* Properties: those of Invites, and of Verification for the owner.        *)

\* A link that has left pending stays as it is: see Verification.
TerminalStays == V!TerminalStays

\* Verified addresses come from pending links: see Verification.
VerifiedByLink == V!VerifiedByLink

=============================================================================
