---------------------------- MODULE LoopContract ----------------------------
(***************************************************************************)
(* What Daemon.loop promises to Daemon.Run, without its timers and its     *)
(* stream: it reconciles whenever it likes, one reconciliation at a time,  *)
(* keeps the tracker's snapshot and apply concerns truthful, and returns   *)
(* only for a stop condition, saying which.  Loop implements it; Lifecycle *)
(* runs it in the place of the loop.                                       *)
(***************************************************************************)
VARIABLES
  at,        \* "idle", "busy" with a reconciliation, or "returned"
  concern,   \* the tracker holds a snapshot or an apply concern
  failed,    \* the last reconciliation returned an error
  outcome,   \* "none", then "nil" or "server": loop's error and its captured flag
  ctxDone, serverDone

vars == <<at, concern, failed, outcome, ctxDone, serverDone>>
stops == <<ctxDone, serverDone>>

\* Run calls loop after the initial reconciliation, in whatever state the
\* stop conditions are by then.
Init == /\ at = "idle" /\ outcome = "none"
        /\ failed \in BOOLEAN /\ concern = failed
        /\ ctxDone \in BOOLEAN /\ serverDone \in BOOLEAN

Begin ==
  /\ at = "idle" /\ ~ctxDone /\ ~serverDone
  /\ at' = "busy" /\ failed' = FALSE
  /\ UNCHANGED <<concern, outcome, stops>>

\* The snapshot of a reconciliation succeeds and was the only concern.
Clear ==
  /\ at = "busy" /\ concern /\ concern' = FALSE
  /\ UNCHANGED <<at, failed, outcome, stops>>

\* An error that the cancelled context caused leaves the concerns alone.
End ==
  /\ at = "busy" /\ at' = "idle"
  /\ \/ failed' = FALSE /\ concern' = FALSE
     \/ failed' = TRUE /\ concern' = TRUE
     \/ ctxDone /\ failed' = TRUE /\ concern' = concern
  /\ UNCHANGED <<outcome, stops>>

Return ==
  /\ at = "idle" /\ at' = "returned"
  /\ \/ ctxDone /\ outcome' = "nil"
     \/ serverDone /\ outcome' = "server"
  /\ UNCHANGED <<concern, failed, stops>>

Stop ==
  /\ ctxDone => ctxDone'
  /\ serverDone => serverDone'
  /\ UNCHANGED <<at, concern, failed, outcome>>

Next == Begin \/ Clear \/ End \/ Return \/ Stop

Spec == Init /\ [][Next]_vars
=============================================================================
