---------------------------- MODULE HoldingsPage ----------------------------
(***************************************************************************)
(* The two halves of the holdings page beside each other: the upload of a  *)
(* file and the book that its rows are confirmed into.  The browser alone  *)
(* stands between them: confirm takes the rows it is sent, whether a job   *)
(* found them or not, so the halves share no state and no step of one can  *)
(* disturb the other.  A behaviour here is therefore about one of the two. *)
(***************************************************************************)
EXTENDS Holdings, Uploads

VARIABLE half   \* which half this behaviour is about

pageVars == <<vars, uploadVars, half>>

PageInit == Init /\ UploadsInit /\ half \in {"book", "upload"}

BookStep == half = "book" /\ Next /\ UNCHANGED <<uploadVars, half>>
UploadStep == half = "upload" /\ UploadsNext /\ UNCHANGED <<vars, half>>

\* Nothing of the book must ever happen; the sweeper runs.
PageSpec == /\ PageInit /\ [][BookStep \/ UploadStep]_pageVars
            /\ half = "upload" => SweepFairness

----------------------------------------------------------------------------
\* Every variable of both halves holds values of its kind.
PageTypeOK == TypeOK /\ UploadsTypeOK

=============================================================================
