------------------------------- MODULE MCLoop -------------------------------
(***************************************************************************)
(* The event loop for TLC: every delay a few ticks, the longest debounce   *)
(* shorter than the period, three steps of backoff.                        *)
(***************************************************************************)
EXTENDS Loop
=============================================================================
