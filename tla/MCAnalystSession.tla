-------------------------- MODULE MCAnalystSession --------------------------
(***************************************************************************)
(* Small instances of AnalystSession for TLC.                              *)
(***************************************************************************)
EXTENDS AnalystSession
=============================================================================
