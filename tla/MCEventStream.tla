--------------------------- MODULE MCEventStream ---------------------------
(***************************************************************************)
(* One event stream for TLC: more messages than all buffers hold.          *)
(***************************************************************************)
EXTENDS EventStream
=============================================================================
