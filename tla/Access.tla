------------------------------- MODULE Access -------------------------------
(***************************************************************************)
(* Accounts, and what stands between an account and its data: the session  *)
(* of a browser, the tokens of agents, the windows in which agents are     *)
(* turned away, and the mails that tell what they did.  Each has a table   *)
(* or keys of its own and only decides whether a request goes on, so no    *)
(* step of one can disturb another, and a behaviour here is about one.     *)
(***************************************************************************)
EXTENDS Accounts, Sessions, AgentTokens, QuietWindows, Notices

VARIABLE part   \* which of them this behaviour is about

accountVars == <<vars, verification>>
accessVars == <<accountVars, sessionVars, tokenVars, quietVars, noticeVars, part>>

AccessInit ==
    /\ part \in {"accounts", "session", "tokens", "quiet", "notice"}
    /\ AccountsInit /\ SessionsInit /\ TokensInit /\ QuietInit /\ NoticesInit
    /\ part # "accounts" => <<left, spare>> = CHOOSE b \in Bounds : TRUE
    /\ part # "notice" => telling = "notice"

AccountsStep ==
    /\ part = "accounts" /\ AccountsNext
    /\ UNCHANGED <<sessionVars, tokenVars, quietVars, noticeVars, part>>
SessionStep ==
    /\ part = "session" /\ SessionsNext
    /\ UNCHANGED <<accountVars, tokenVars, quietVars, noticeVars, part>>
TokenStep ==
    /\ part = "tokens" /\ TokensNext
    /\ UNCHANGED <<accountVars, sessionVars, quietVars, noticeVars, part>>
QuietStep ==
    /\ part = "quiet" /\ QuietNext
    /\ UNCHANGED <<accountVars, sessionVars, tokenVars, noticeVars, part>>
NoticeStep ==
    /\ part = "notice" /\ NoticesNext
    /\ UNCHANGED <<accountVars, sessionVars, tokenVars, quietVars, part>>

AccessSpec ==
    /\ AccessInit
    /\ [][AccountsStep \/ SessionStep \/ TokenStep \/ QuietStep \/ NoticeStep]_accessVars

=============================================================================
