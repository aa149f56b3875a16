---------------------------- MODULE MCSnapshots ----------------------------
(***************************************************************************)
(* Instances of Snapshots: one user with a holding in the base currency    *)
(* and one in another, three days.                                         *)
(***************************************************************************)
EXTENDS Snapshots

CONSTANTS u1, home, abroad

=============================================================================
