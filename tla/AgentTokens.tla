---------------------------- MODULE AgentTokens ----------------------------
(***************************************************************************)
(* The API tokens of one user: routers/api_tokens.py creates and revokes   *)
(* them, routers/api_token_revoke.py and Ops revoke all, and every request *)
(* of an agent reads one and writes when it was last used                  *)
(* (core/agent_auth.py).  A token that nobody used for sixty days lapses,  *)
(* and a lapsed token does not count against the five a user may have.     *)
(***************************************************************************)
EXTENDS Integers, FiniteSets

CONSTANTS
    Tokens,      \* api_tokens, created or not
    Callers,     \* requests that may run at once, of the browser or of agents
    TokenCap,    \* five
    Lapse,       \* sixty days
    Endless,     \* the expiry of a token without one
    LastDate     \* bound on the days

Nobody == "nobody"

ASSUME AgentTokensAssumption ==
    /\ {TokenCap, Lapse, LastDate, Endless} \subseteq Nat
    /\ LastDate < Endless
    /\ Nobody \notin Callers

VARIABLES
    date,
    token,       \* api_tokens
    rowLock,     \* the caller that holds the users row, or none of them
    caller,      \* how far each request is
    revived      \* history: lapsed tokens that a late write made usable again

tokenVars == <<date, token, rowLock, caller, revived>>

\* used: last_used_at, or created_at as long as there is none.
Token == [state : {"none", "live", "revoked"}, used : Int, until : Int]
NoToken == [state |-> "none", used |-> 0, until |-> 0]

\* A creation waits, holds the lock, has counted; an agent has read its token.
Caller == [at : {"out", "waits", "locked", "room", "read"}, token : Tokens \cup {Nobody},
           now : Int, until : Int]
NoCaller == [at |-> "out", token |-> Nobody, now |-> 0, until |-> 0]

\* token_status
Lapsed(t) == date - token[t].used > Lapse
IsActive(t) == token[t].state = "live" /\ date < token[t].until /\ ~Lapsed(t)
ActiveTokens == {t \in Tokens : IsActive(t)}

TokensInit ==
    /\ date = 0
    /\ token = [t \in Tokens |-> NoToken]
    /\ rowLock = Nobody
    /\ caller = [c \in Callers |-> NoCaller]
    /\ revived = {}

Leave(c) == caller' = [caller EXCEPT ![c] = NoCaller]

-----------------------------------------------------------------------------
(* create_token                                                            *)

\* The expiry is the end of a day after today, or none.
AskToken(c, until) ==
    /\ caller[c].at = "out"
    /\ until > date
    /\ caller' = [caller EXCEPT ![c].at = "waits", ![c].until = until]
    /\ UNCHANGED <<date, token, rowLock, revived>>

\* A mutant: SELECT without FOR UPDATE.
ReadUser(c) ==
    /\ caller[c].at = "waits"
    /\ caller' = [caller EXCEPT ![c].at = "locked"]
    /\ UNCHANGED <<date, token, rowLock, revived>>

LockUser(c) ==
    /\ caller[c].at = "waits"
    /\ rowLock = Nobody
    /\ rowLock' = c
    /\ caller' = [caller EXCEPT ![c].at = "locked"]
    /\ UNCHANGED <<date, token, revived>>

CountTokens(c) ==
    /\ caller[c].at = "locked"
    /\ IF Cardinality(ActiveTokens) >= TokenCap
          THEN Leave(c) /\ rowLock' = Nobody
          ELSE caller' = [caller EXCEPT ![c].at = "room"] /\ UNCHANGED rowLock
    /\ UNCHANGED <<date, token, revived>>

NewToken(c, t) ==
    /\ caller[c].at = "room"
    /\ token[t].state = "none"
    /\ token' = [token EXCEPT ![t] =
                    [state |-> "live", used |-> date, until |-> caller[c].until]]
    /\ Leave(c)
    /\ rowLock' = Nobody
    /\ UNCHANGED <<date, revived>>

-----------------------------------------------------------------------------
(* agent_principal: the row it read is written back in another statement.  *)

ReadToken(c, t) ==
    /\ caller[c].at = "out"
    /\ IsActive(t)
    /\ caller' = [caller EXCEPT ![c].at = "read", ![c].token = t, ![c].now = date]
    /\ UNCHANGED <<date, token, rowLock, revived>>

WriteLastUsed(c) ==
    /\ caller[c].at = "read"
    /\ LET t == caller[c].token IN
       /\ token' = [token EXCEPT ![t].used = caller[c].now]
       /\ revived' = IF Lapsed(t) THEN revived \cup {t} ELSE revived
    /\ Leave(c)
    /\ UNCHANGED <<date, rowLock>>

-----------------------------------------------------------------------------
(* Revocation, by the user, by a link, by Ops.                             *)

RevokeToken(t) ==
    /\ token[t].state = "live"
    /\ token' = [token EXCEPT ![t].state = "revoked"]
    /\ UNCHANGED <<date, rowLock, caller, revived>>

RevokeAll ==
    /\ \E t \in Tokens : token[t].state = "live"
    /\ token' = [t \in Tokens |->
                    IF token[t].state = "live" THEN [token[t] EXCEPT !.state = "revoked"]
                                               ELSE token[t]]
    /\ UNCHANGED <<date, rowLock, caller, revived>>

NextDate ==
    /\ date < LastDate
    /\ date' = date + 1
    /\ UNCHANGED <<token, rowLock, caller, revived>>

TokensNext ==
    \/ \E c \in Callers :
        \/ \E until \in {date + 1, Endless} : AskToken(c, until)
        \/ LockUser(c) \/ CountTokens(c) \/ WriteLastUsed(c)
        \/ \E t \in Tokens : NewToken(c, t) \/ ReadToken(c, t)
    \/ \E t \in Tokens : RevokeToken(t)
    \/ RevokeAll
    \/ NextDate

TokensSpec == TokensInit /\ [][TokensNext]_tokenVars

-----------------------------------------------------------------------------
TokensTypeOK ==
    /\ date \in 0 .. LastDate
    /\ token \in [Tokens -> Token]
    /\ rowLock \in Callers \cup {Nobody}
    /\ caller \in [Callers -> Caller]
    /\ revived \subseteq Tokens

\* routers/api_tokens.py:82-89: a user never has more than five active tokens,
\* however many requests create, use and revoke them at once.  Excepted is a
\* token that lapsed between the read and the write of a request that used it:
\* the write makes it usable again, and its place may be taken.
ActiveTokensCapped ==
    /\ TokensTypeOK
    /\ Cardinality(ActiveTokens \ revived) <= TokenCap

=============================================================================
