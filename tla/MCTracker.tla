----------------------------- MODULE MCTracker -----------------------------
(***************************************************************************)
(* The health tracker for TLC: a history shorter than the number of        *)
(* concerns, so that eviction meets the case where every record is active. *)
(***************************************************************************)
EXTENDS Tracker
=============================================================================
