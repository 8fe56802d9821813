---------------------------- MODULE MCLifecycle ----------------------------
(***************************************************************************)
(* The life of the process for TLC.  It has no parameters: the run is one  *)
(* process from its start to its exit.                                     *)
(***************************************************************************)
EXTENDS Lifecycle
=============================================================================
