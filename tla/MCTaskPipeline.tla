--------------------------- MODULE MCTaskPipeline ---------------------------
(***************************************************************************)
(* Small instances of TaskPipeline for TLC: the constants, message ids and *)
(* bounds, are in the configurations.                                      *)
(***************************************************************************)
EXTENDS TaskPipeline

\* Bound: a fault and an edit of the ticket each meet a reset, not each other.
FaultOrEdit == faults + touches <= 1
=============================================================================
