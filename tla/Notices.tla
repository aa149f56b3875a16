------------------------------ MODULE Notices ------------------------------
(***************************************************************************)
(* Mails that tell a user once a day what was done to the holdings: that   *)
(* an agent read them or wrote them (routers/agent.py), that they changed  *)
(* sharply (services/holding_change_alerts.py), and the overview that the  *)
(* user asks for and may have every fifteen minutes (routers/portfolio.py).*)
(*                                                                         *)
(* A claim in Redis stands for "told": the notices and the overview claim  *)
(* before they queue the task, the alert claims inside the task, since a   *)
(* change must first be found sharp.  A behaviour is about one kind and    *)
(* the time of one claim, which outlives the day it is for.                *)
(***************************************************************************)
EXTENDS Integers, FiniteSets

CONSTANTS
    Senders,     \* workers
    Occasions,   \* bound: how often there is something to tell
    MaxTroubles  \* bound on faults

ASSUME NoticesAssumption ==
    /\ Occasions \in Nat /\ MaxTroubles \in Nat
    /\ IsFiniteSet(Senders)

VARIABLES
    telling,     \* what kind of mail this is about
    claimed,     \* the claim is taken
    asking,      \* requests between the claim and the queue
    waiting,     \* messages of the task: how many with each pair of arguments
    sender,      \* each worker, with the message it holds
    mails,       \* what the mail service has accepted
    occasions,   \* how often there has been something to tell
    troubles,    \* what has gone wrong
    dropped,     \* history: occasions that went by without a claim
    spent,       \* history: the claim was taken for a mail that nobody will send
    repeated     \* history: a mail was accepted, and its sender does not know

noticeVars == <<telling, claimed, asking, waiting, sender, mails, occasions, troubles,
                dropped, spent, repeated>>

Kinds == {"notice", "alert", "overview"}

\* The arguments claimed and request.retries.
Message == [claimed : BOOLEAN, retries : {0, 1}]
MaxRetriesOf(kind) == IF kind = "overview" THEN 0 ELSE 1

\* judge: a change is to be found sharp; claim, send: what comes next.
Sender == [at : {"idle", "judge", "claim", "send", "failed", "done"}, message : Message]
IdleSender == [at |-> "idle", message |-> [claimed |-> FALSE, retries |-> 0]]

NoticesInit ==
    /\ telling \in Kinds
    /\ claimed = FALSE
    /\ asking = 0
    /\ waiting = [m \in Message |-> 0]
    /\ sender = [w \in Senders |-> IdleSender]
    /\ mails = 0 /\ occasions = 0 /\ troubles = 0
    /\ dropped = 0 /\ spent = FALSE /\ repeated = FALSE

Trouble == troubles < MaxTroubles /\ troubles' = troubles + 1
Dropped == dropped' = dropped + 1 /\ UNCHANGED <<spent, repeated>>
\* A claim that is given back was in the way of others meanwhile.
AllDropped == dropped' = occasions /\ UNCHANGED <<spent, repeated>>
Spent == spent' = TRUE /\ UNCHANGED <<dropped, repeated>>
Repeated == repeated' = TRUE /\ UNCHANGED <<dropped, spent>>
NoHarm == UNCHANGED <<dropped, spent, repeated>>
Queue(m) == waiting' = [waiting EXCEPT ![m] = @ + 1]
Fresh == [claimed |-> telling # "alert", retries |-> 0]

Occasion == occasions < Occasions /\ occasions' = occasions + 1

-----------------------------------------------------------------------------
(* The request: _data_notice, send_portfolio_overview.                     *)

Claim ==
    /\ telling # "alert"
    /\ Occasion
    /\ \/ claimed /\ UNCHANGED <<claimed, asking, troubles>> /\ NoHarm
       \/ ~claimed /\ claimed' = TRUE /\ asking' = asking + 1 /\ UNCHANGED troubles /\ NoHarm
       \/ Trouble /\ UNCHANGED <<claimed, asking>> /\ Dropped    \* the store fails
    /\ UNCHANGED <<telling, waiting, sender, mails>>

QueueNotice ==
    /\ asking > 0
    /\ asking' = asking - 1
    /\ Queue(Fresh)
    /\ UNCHANGED <<telling, claimed, sender, mails, occasions, troubles>> /\ NoHarm

\* delay() raises: only the overview gives the claim back, if the store takes
\* it.  The broker may have the message all the same.
NoticeFails ==
    /\ asking > 0
    /\ asking' = asking - 1
    /\ Trouble
    /\ \/ UNCHANGED claimed /\ ((UNCHANGED waiting /\ Spent) \/ (Queue(Fresh) /\ NoHarm))
       \/ /\ telling = "overview" /\ claimed' = FALSE
          /\ (UNCHANGED waiting /\ AllDropped) \/ (Queue(Fresh) /\ Repeated)
    /\ UNCHANGED <<telling, sender, mails, occasions>>

RequestDies ==
    /\ asking > 0
    /\ asking' = asking - 1
    /\ Trouble /\ Spent
    /\ UNCHANGED <<telling, claimed, waiting, sender, mails, occasions>>

\* enqueue_change_alert, after the commit: no claim, and an error is logged.
HoldingsChange ==
    /\ telling = "alert"
    /\ Occasion
    /\ \/ Queue(Fresh) /\ UNCHANGED troubles /\ NoHarm
       \/ UNCHANGED waiting /\ Trouble /\ Dropped
    /\ UNCHANGED <<telling, claimed, asking, sender, mails>>

-----------------------------------------------------------------------------
(* The task.                                                               *)

At(w, at) == sender' = [sender EXCEPT ![w].at = at]
Ends(w) == sender' = [sender EXCEPT ![w] = IdleSender]

Take(w) ==
    /\ sender[w].at = "idle"
    /\ \E m \in Message :
        /\ waiting[m] > 0
        /\ waiting' = [waiting EXCEPT ![m] = @ - 1]
        /\ sender' = [sender EXCEPT ![w] =
                        [at |-> IF telling = "alert" THEN "judge" ELSE "send", message |-> m]]
    /\ UNCHANGED <<telling, claimed, asking, mails, occasions, troubles>> /\ NoHarm

\* evaluate_change_alert up to its signals.  History that is gone or an error
\* end it without a word.
Judge(w) ==
    /\ sender[w].at = "judge"
    /\ \/ At(w, IF sender[w].message.claimed THEN "send" ELSE "claim")
          /\ UNCHANGED troubles /\ NoHarm
       \/ Ends(w) /\ Trouble /\ (IF sender[w].message.claimed THEN Spent ELSE Dropped)
    /\ UNCHANGED <<telling, claimed, asking, waiting, mails, occasions>>

ClaimAlert(w) ==
    /\ sender[w].at = "claim"
    /\ \/ ~claimed /\ claimed' = TRUE /\ At(w, "send") /\ UNCHANGED troubles /\ NoHarm
       \/ claimed /\ UNCHANGED <<claimed, troubles>> /\ Ends(w) /\ NoHarm
       \/ UNCHANGED claimed /\ Ends(w) /\ Trouble /\ Dropped    \* the store fails
    /\ UNCHANGED <<telling, asking, waiting, mails, occasions>>

\* The mail service accepts it, or refuses it, or its answer is lost.
SendMail(w) ==
    /\ sender[w].at = "send"
    /\ \/ mails' = mails + 1 /\ At(w, "done") /\ UNCHANGED troubles /\ NoHarm
       \/ UNCHANGED mails /\ At(w, "failed") /\ Trouble /\ NoHarm
       \/ mails' = mails + 1 /\ At(w, "failed") /\ Trouble /\ Repeated
    /\ UNCHANGED <<telling, claimed, asking, waiting, occasions>>

\* No verified address.
NoRecipient(w) ==
    /\ sender[w].at = "send"
    /\ Ends(w)
    /\ Trouble /\ Spent
    /\ UNCHANGED <<telling, claimed, asking, waiting, mails, occasions>>

\* Acknowledged.
EndTask(w) ==
    /\ sender[w].at = "done"
    /\ Ends(w)
    /\ NoHarm
    /\ UNCHANGED <<telling, claimed, asking, waiting, mails, occasions, troubles>>

\* A mutant: the retry claims like the first attempt.
RetryWithoutClaim(w) ==
    /\ sender[w].at = "failed"
    /\ LET m == sender[w].message IN
       \/ /\ m.retries < MaxRetriesOf(telling)
          /\ Queue([m EXCEPT !.retries = @ + 1])
          /\ NoHarm
       \/ /\ m.retries = MaxRetriesOf(telling)
          /\ UNCHANGED waiting /\ Spent
    /\ Ends(w)
    /\ UNCHANGED <<telling, claimed, asking, mails, occasions, troubles>>

RetryMail(w) ==
    /\ sender[w].at = "failed"
    /\ LET m == sender[w].message IN
       \/ /\ m.retries < MaxRetriesOf(telling)
          /\ \/ Queue([claimed |-> TRUE, retries |-> m.retries + 1])
                /\ UNCHANGED troubles /\ NoHarm
             \/ UNCHANGED waiting /\ Trouble /\ Spent    \* the broker fails
       \/ /\ m.retries = MaxRetriesOf(telling)
          /\ UNCHANGED <<waiting, troubles>> /\ Spent
    /\ Ends(w)
    /\ UNCHANGED <<telling, claimed, asking, mails, occasions>>

\* Past its claim: a message that comes again finds the claim taken.
HasClaimed(w) == sender[w].at \in {"send", "failed", "done"}

\* The message is delivered again with the arguments it had, or it is lost with
\* the process.
SenderDies(w) ==
    /\ sender[w].at # "idle"
    /\ Trouble
    /\ Ends(w)
    /\ LET m == sender[w].message IN
       \/ /\ Queue(m)
          /\ IF ~HasClaimed(w) THEN NoHarm
             ELSE IF ~m.claimed THEN Spent
             ELSE IF sender[w].at = "done" THEN Repeated ELSE NoHarm
       \/ UNCHANGED waiting /\ (IF m.claimed \/ HasClaimed(w) THEN Spent ELSE Dropped)
    /\ UNCHANGED <<telling, claimed, asking, mails, occasions>>

NoticesNext ==
    \/ Claim \/ QueueNotice \/ NoticeFails \/ RequestDies \/ HoldingsChange
    \/ \E w \in Senders :
        \/ Take(w) \/ Judge(w) \/ ClaimAlert(w) \/ SendMail(w) \/ NoRecipient(w)
        \/ EndTask(w) \/ RetryMail(w) \/ SenderDies(w)

NoticesSpec == NoticesInit /\ [][NoticesNext]_noticeVars

-----------------------------------------------------------------------------
NoticesTypeOK ==
    /\ telling \in Kinds
    /\ claimed \in BOOLEAN
    /\ asking \in 0 .. Occasions
    /\ waiting \in [Message -> Nat]
    /\ sender \in [Senders -> Sender]
    /\ mails \in Nat /\ occasions \in 0 .. Occasions /\ troubles \in 0 .. MaxTroubles
    /\ dropped \in Nat /\ spent \in BOOLEAN /\ repeated \in BOOLEAN

\* Nothing is on its way to the user.
AtRest ==
    /\ asking = 0
    /\ \A m \in Message : waiting[m] = 0
    /\ \A w \in Senders : sender[w].at = "idle"

\* One claim, one mail (core/rate_limit.py:502-556, routers/agent.py:193-209,
\* services/holding_change_alerts.py:125-131): however often there is something
\* to tell and however many workers are at it, the user gets at most one mail
\* while the claim lasts, unless the mail service took one and its sender does
\* not know; and when nothing is under way any more the user has got it, unless
\* each occasion was dropped before it could claim, or the claim was taken for
\* a mail that nobody will send.
ToldOnce ==
    /\ NoticesTypeOK
    /\ mails <= 1 \/ repeated
    /\ AtRest /\ occasions > dropped /\ ~spent => mails >= 1

=============================================================================
