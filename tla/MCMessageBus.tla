---------------------------- MODULE MCMessageBus ----------------------------
(***************************************************************************)
(* Small instances of MessageBus for TLC.                                  *)
(***************************************************************************)
EXTENDS MessageBus, TLC

\* Runners are interchangeable (safety runs only).
Symmetry == Permutations(Consumers)
=============================================================================
