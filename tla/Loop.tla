-------------------------------- MODULE Loop --------------------------------
(***************************************************************************)
(* The daemon's event loop: daemon/loop.go, daemon/loop_state.go and       *)
(* Daemon.reconcile.  One goroutine waits on six timers, the Docker event  *)
(* stream, its context and the health server; it debounces events,         *)
(* reconciles, retries failures and reconnects the stream with backoff.    *)
(*                                                                         *)
(* Time is discrete: a timer is Off (nil), counts down, and is 0 once it   *)
(* has fired and its channel is ready.  Between two reads of the stream,   *)
(* Docker changes, the stream delivers, fails or closes, the context is    *)
(* cancelled and the health server stops whenever they like.               *)
(***************************************************************************)
EXTENDS Integers

CONSTANTS
  PeriodicInterval, DebounceDelay, MaxDebounceDelay,  \* daemon.Config
  InitialDelay, MaxDelay, StabilityDelay,             \* timingConfig
  MaxBuffered      \* bound: events waiting in the stream

ASSUME LoopAssumption ==
  /\ {PeriodicInterval, DebounceDelay, MaxDebounceDelay, InitialDelay, MaxDelay,
      StabilityDelay, MaxBuffered} \subseteq Nat \ {0}
  /\ DebounceDelay <= MaxDebounceDelay    \* validateConfig
  /\ InitialDelay <= MaxDelay             \* defaultTiming

Off == -1
Timer == {"periodic", "debounce", "maximum", "retry", "reconnect", "stability"}
ReconcileTimer == {"periodic", "debounce", "maximum", "retry"}

VARIABLES
  pc,         \* where the loop goroutine is
  timer,      \* timer[t]: Off, ticks left, or 0 when it has fired
  pending,    \* loopState.pending
  retryDelay, reconnectDelay,
  lastReconcileFailure, lastStreamFailure,   \* "" or what was last logged
  stream,     \* loopState.events and eventErrors
  streams,    \* how many stream contexts exist that nobody has cancelled
  streamCancel, \* loopState.streamCancel # nil
  active,     \* the tracker's active concerns
  ctxDone, serverDone,
  outcome,    \* what loop returned: "nil", "server", or "none" yet
  failed,     \* the last reconciliation has returned an error
  changed,    \* history: Docker changed after the last successful snapshot
  applied,    \* history: the last successful snapshot was applied
  calm,       \* history: from now on Docker neither changes nor fails, nor does Apply
  owed        \* history: ticks since the first event not reconciled yet, or Off

\* loopState.events and eventErrors: the Docker client's forwarder keeps this
\* contract (module EventStream).
Events == INSTANCE StreamContract
NoStream == Events!NoStream

loopVars == <<timer, pending, retryDelay, reconnectDelay, lastReconcileFailure,
              lastStreamFailure, stream, streams, streamCancel, active>>
envVars  == <<ctxDone, serverDone, calm>>
vars     == <<pc, loopVars, envVars, outcome, failed, changed, applied, owed>>

stopReadyServerOnly == serverDone
stopReady == ctxDone \/ serverDone

nextLoopBackoff(current, maximum) ==
  IF current >= maximum \/ current > maximum - current THEN maximum ELSE current * 2

\* newLoopState, after the initial reconciliation returned an error or none.
Init ==
  /\ pc = "connect"
  /\ lastReconcileFailure \in {"", "error"}
  /\ LET err == lastReconcileFailure # ""
     IN  /\ active \in IF err THEN {{"snapshot"}, {"apply"}} ELSE {{}}
         /\ timer = [t \in Timer |-> CASE t = "periodic" -> PeriodicInterval
                                       [] t = "retry" /\ err -> InitialDelay
                                       [] OTHER -> Off]
         /\ retryDelay = IF err THEN nextLoopBackoff(InitialDelay, MaxDelay)
                                ELSE InitialDelay
         /\ applied = ~err /\ failed = err
  /\ pending = FALSE /\ reconnectDelay = InitialDelay /\ lastStreamFailure = ""
  /\ stream = NoStream /\ streams = 0 /\ streamCancel = FALSE
  /\ ctxDone \in BOOLEAN /\ serverDone \in BOOLEAN /\ outcome = "none"
  /\ changed \in BOOLEAN /\ calm = FALSE /\ owed = Off

-----------------------------------------------------------------------------
(***************************************************************************)
(* The stream.                                                             *)
(***************************************************************************)
cancelStream == streamCancel' = FALSE /\ streams' = IF streamCancel THEN streams - 1 ELSE streams

Stop(ts) == [t \in Timer |-> IF t \in ts THEN Off ELSE timer[t]]

\* streamErrorReady's error as disconnectStream words it.
StreamError == IF stream.error THEN "error" ELSE "closed"

disconnectStream(message) ==
  /\ cancelStream
  /\ stream' = NoStream
  /\ IF stopReady
     THEN /\ timer' = Stop({"stability"})
          /\ UNCHANGED <<lastStreamFailure, active, reconnectDelay>>
     ELSE /\ timer' = [Stop({"stability"}) EXCEPT !["reconnect"] = reconnectDelay]
          /\ lastStreamFailure' = message
          /\ active' = active \cup {"events"}
          /\ reconnectDelay' = nextLoopBackoff(reconnectDelay, MaxDelay)

\* startStream up to the call of source.Events, which may also return nil.
StartStream ==
  /\ pc = "connect"
  /\ IF stopReady
     THEN /\ pc' = "top" /\ disconnectStream("closed")
     ELSE /\ pc' = "connecting"
          /\ streamCancel' = TRUE
          /\ streams' = (IF streamCancel THEN streams - 1 ELSE streams) + 1
          /\ stream' \in {Events!NewStream, NoStream}
          /\ UNCHANGED <<timer, lastStreamFailure, active, reconnectDelay>>
  /\ UNCHANGED <<pending, retryDelay, lastReconcileFailure, envVars, outcome, failed,
                 changed, applied, owed>>

StreamStartedUncancelled ==
  /\ pc = "connecting" /\ pc' = "top"
  /\ IF stopReady
     THEN /\ stream' = NoStream /\ streamCancel' = FALSE
          /\ UNCHANGED <<timer, streams, lastStreamFailure, active, reconnectDelay>>
     ELSE IF stream = NoStream
     THEN disconnectStream("closed")
     ELSE /\ timer' = [timer EXCEPT !["stability"] = StabilityDelay]
          /\ UNCHANGED <<stream, streams, streamCancel, lastStreamFailure, active,
                         reconnectDelay>>
  /\ UNCHANGED <<pending, retryDelay, lastReconcileFailure, envVars, outcome, failed,
                 changed, applied, owed>>

\* The rest of startStream, and its caller's check for two nil channels.
StreamStarted ==
  /\ pc = "connecting" /\ pc' = "top"
  /\ IF stopReady \/ stream = NoStream
     THEN disconnectStream("closed")
     ELSE /\ timer' = [timer EXCEPT !["stability"] = StabilityDelay]
          /\ UNCHANGED <<stream, streams, streamCancel, lastStreamFailure, active,
                         reconnectDelay>>
  /\ UNCHANGED <<pending, retryDelay, lastReconcileFailure, envVars, outcome, failed,
                 changed, applied, owed>>

\* recoverStream, with the timers ts changed to ts' by its caller.
recoverStream(newTimer) ==
  /\ reconnectDelay' = InitialDelay
  /\ timer' = [newTimer EXCEPT !["stability"] = Off]
  /\ active' = active \ {"events"}
  /\ lastStreamFailure' = ""

\* An event was read from the stream.
observeEventResetting ==
  /\ Events!Read
  /\ IF stopReady
     THEN UNCHANGED <<timer, active, lastStreamFailure, reconnectDelay, owed>>
     ELSE /\ recoverStream([timer EXCEPT !["debounce"] = DebounceDelay,
                                         !["maximum"] = MaxDebounceDelay])
          /\ owed' = IF owed = Off THEN 0 ELSE owed
  /\ UNCHANGED <<streams, streamCancel>>

observeEvent ==
  /\ Events!Read
  /\ IF stopReady
     THEN UNCHANGED <<timer, active, lastStreamFailure, reconnectDelay, owed>>
     ELSE /\ recoverStream([timer EXCEPT
               !["debounce"] = DebounceDelay,
               !["maximum"] = IF timer["debounce"] = Off THEN MaxDebounceDelay ELSE @])
          /\ owed' = IF owed = Off THEN 0 ELSE owed
  /\ UNCHANGED <<streams, streamCancel>>

-----------------------------------------------------------------------------
(***************************************************************************)
(* The top of the loop: loopStop, a pending reconciliation, or select.     *)
(***************************************************************************)
\* The deferred close().
Leave == /\ pc' = "done"
         /\ cancelStream
         /\ timer' = Stop(Timer)
         /\ UNCHANGED <<pending, retryDelay, reconnectDelay, lastReconcileFailure,
                        lastStreamFailure, stream, active, envVars, failed, changed,
                        applied, owed>>

\* loopStop asks the health server first.
LoopStop == /\ pc = "top" /\ stopReady /\ Leave
            /\ outcome' = IF serverDone THEN "server" ELSE "nil"

BeginReconcile ==
  /\ pc = "top" /\ ~stopReady /\ pending
  /\ pc' = "snapshot"
  /\ pending' = FALSE
  /\ timer' = Stop(ReconcileTimer)
  /\ failed' = FALSE /\ owed' = Off
  /\ UNCHANGED <<retryDelay, reconnectDelay, lastReconcileFailure, lastStreamFailure,
                 stream, streams, streamCancel, active, envVars, outcome, changed, applied>>

EnterSelect ==
  /\ pc = "top" /\ ~stopReady /\ ~pending
  /\ pc' = "select"
  /\ UNCHANGED <<loopVars, envVars, outcome, failed, changed, applied, owed>>

-----------------------------------------------------------------------------
(***************************************************************************)
(* Daemon.reconcile: a snapshot of Docker, then store.Apply.  An error the *)
(* cancelled context itself caused is not recorded as a failure.           *)
(***************************************************************************)
reconcileUnchanged ==
  UNCHANGED <<timer, pending, retryDelay, reconnectDelay, lastReconcileFailure,
              lastStreamFailure, stream, streams, streamCancel, envVars, outcome, owed>>

SnapshotSucceeds ==
  /\ pc = "snapshot" /\ pc' = "apply"
  /\ active' = active \ {"snapshot"}
  /\ changed' = FALSE /\ applied' = FALSE
  /\ UNCHANGED failed /\ reconcileUnchanged

ReconcileFails(step, concern) ==
  /\ pc = step /\ pc' = "after"
  /\ \/ ~calm /\ active' = active \cup {concern}
     \/ ctxDone /\ UNCHANGED active
  /\ failed' = TRUE
  /\ UNCHANGED <<changed, applied>> /\ reconcileUnchanged

SnapshotFails == ReconcileFails("snapshot", "snapshot")
ApplyFails    == ReconcileFails("apply", "apply")

ApplySucceedsSilently ==
  /\ pc = "apply" /\ pc' = "after"
  /\ applied' = TRUE
  /\ UNCHANGED <<active, failed, changed>> /\ reconcileUnchanged

ApplySucceeds ==
  /\ pc = "apply" /\ pc' = "after"
  /\ active' = active \ {"apply"}
  /\ applied' = TRUE
  /\ UNCHANGED <<failed, changed>> /\ reconcileUnchanged

AfterReconcileNoPeriodic ==
  /\ pc = "after" /\ pc' = "top"
  /\ IF stopReady
     THEN UNCHANGED <<timer, retryDelay, lastReconcileFailure>>
     ELSE IF failed
     THEN /\ timer' = [timer EXCEPT !["retry"] = retryDelay]
          /\ retryDelay' = nextLoopBackoff(retryDelay, MaxDelay)
          /\ lastReconcileFailure' = "error"
     ELSE /\ retryDelay' = InitialDelay
          /\ lastReconcileFailure' = ""
          /\ UNCHANGED timer
  /\ UNCHANGED <<pending, reconnectDelay, lastStreamFailure, stream, streams,
                 streamCancel, active, envVars, outcome, failed, changed, applied, owed>>

\* The rest of reconcilePending.
AfterReconcile ==
  /\ pc = "after" /\ pc' = "top"
  /\ IF stopReady
     THEN UNCHANGED <<timer, retryDelay, lastReconcileFailure>>
     ELSE IF failed
     THEN /\ timer' = [timer EXCEPT !["periodic"] = PeriodicInterval,
                                    !["retry"] = retryDelay]
          /\ retryDelay' = nextLoopBackoff(retryDelay, MaxDelay)
          /\ lastReconcileFailure' = "error"
     ELSE /\ timer' = [timer EXCEPT !["periodic"] = PeriodicInterval]
          /\ retryDelay' = InitialDelay
          /\ lastReconcileFailure' = ""
  /\ UNCHANGED <<pending, reconnectDelay, lastStreamFailure, stream, streams,
                 streamCancel, active, envVars, outcome, failed, changed, applied, owed>>

-----------------------------------------------------------------------------
(***************************************************************************)
(* The cases of the select.                                                *)
(***************************************************************************)
SelectStopUncaptured == /\ pc = "select" /\ stopReady /\ Leave
                        /\ outcome' = "nil"

SelectStop == /\ pc = "select" /\ Leave
              /\ \/ ctxDone /\ outcome' = "nil"
                 \/ serverDone /\ outcome' = "server"

\* What every case that reads the stream leaves alone.
streamCase ==
  /\ pc = "select" /\ pc' = "top"
  /\ UNCHANGED <<pending, retryDelay, lastReconcileFailure, envVars, outcome, failed,
                 changed, applied>>

SelectEvent == stream.events > 0 /\ observeEvent /\ streamCase

SelectEventsClosed ==
  /\ stream.events = 0 /\ stream.ended = "closed"
  /\ disconnectStream(StreamError)
  /\ streamCase /\ UNCHANGED owed

SelectStreamError ==
  /\ stream.error \/ stream.ended \in {"errorsClosed", "closed"}
  /\ disconnectStream(StreamError)
  /\ streamCase /\ UNCHANGED owed

Fired(t) == pc = "select" /\ timer[t] = 0

\* The timer cases that ask for a reconciliation, with the timers they stop.
StoppedBy(t) == CASE t = "periodic" -> {"periodic", "debounce", "maximum"}
                  [] t \in {"debounce", "maximum"} -> {"debounce", "maximum"}
                  [] t = "retry" -> {"retry"}

SelectReconcile(t) ==
  /\ Fired(t) /\ pc' = "top"
  /\ timer' = Stop(StoppedBy(t))
  /\ pending' = TRUE
  /\ UNCHANGED <<retryDelay, reconnectDelay, lastReconcileFailure, lastStreamFailure,
                 stream, streams, streamCancel, active, envVars, outcome, failed, changed,
                 applied, owed>>

SelectReconnect ==
  /\ Fired("reconnect")
  /\ timer' = Stop({"reconnect"})
  /\ pc' = IF stopReady THEN "top" ELSE "connect"
  /\ UNCHANGED <<pending, retryDelay, reconnectDelay, lastReconcileFailure,
                 lastStreamFailure, stream, streams, streamCancel, active, envVars, outcome,
                 failed, changed, applied, owed>>

SelectStabilityTrusting ==
  /\ Fired("stability")
  /\ recoverStream(timer)
  /\ UNCHANGED <<stream, streams, streamCancel, owed>>
  /\ streamCase

\* handleStability looks at the stream once more before it trusts it.
SelectStability ==
  /\ Fired("stability")
  /\ IF stopReady
     THEN /\ timer' = Stop({"stability"})
          /\ UNCHANGED <<stream, streams, streamCancel, active, lastStreamFailure,
                         reconnectDelay, owed>>
     ELSE IF stream.error \/ stream.ended \in {"errorsClosed", "closed"}
     THEN disconnectStream(StreamError) /\ UNCHANGED owed
     ELSE IF stream.events > 0
     THEN observeEvent
     ELSE /\ recoverStream(timer)
          /\ UNCHANGED <<stream, streams, streamCancel, owed>>
  /\ streamCase

-----------------------------------------------------------------------------
(***************************************************************************)
(* The environment: time, Docker, the stream's forwarder, and the two      *)
(* reasons to stop.  Time stands still while a fired timer waits in the    *)
(* select, and while source.Events only starts the forwarder: the loop is  *)
(* prompt compared with its delays.  Reconciliations do take time.         *)
(***************************************************************************)
Tick ==
  /\ \/ pc \in {"snapshot", "apply"}
     \/ pc = "select" /\ \A t \in Timer : timer[t] # 0
  /\ timer' = [t \in Timer |-> IF timer[t] > 0 THEN timer[t] - 1 ELSE timer[t]]
  /\ owed' = IF owed = Off \/ owed > MaxDebounceDelay THEN owed ELSE owed + 1
  /\ UNCHANGED <<pc, pending, retryDelay, reconnectDelay, lastReconcileFailure,
                 lastStreamFailure, stream, streams, streamCancel, active, envVars, outcome,
                 failed, changed, applied>>

streamOnly == UNCHANGED <<pc, timer, pending, retryDelay, reconnectDelay,
                          lastReconcileFailure, lastStreamFailure, streams,
                          streamCancel, active, envVars, outcome, failed, applied, owed>>

DockerChanges ==
  /\ ~calm /\ pc # "done"
  /\ changed' = TRUE
  /\ IF Events!Live /\ stream.events < MaxBuffered THEN Events!Deliver
                                                    ELSE UNCHANGED stream
  /\ streamOnly

\* The forwarder reports an error, or Docker just ends the stream; then it
\* closes the error channel and after it the event channel.
StreamFails ==
  /\ ~calm /\ Events!Fail
  /\ streamOnly /\ UNCHANGED changed

StreamCloses ==
  /\ Events!Close
  /\ streamOnly /\ UNCHANGED changed

stopOnly == UNCHANGED <<pc, loopVars, outcome, failed, changed, applied, owed>>

CancelContext == ~ctxDone /\ ctxDone' = TRUE /\ UNCHANGED <<serverDone, calm>> /\ stopOnly
ServerStops == ~serverDone /\ serverDone' = TRUE /\ UNCHANGED <<ctxDone, calm>> /\ stopOnly
CalmDown == ~calm /\ calm' = TRUE /\ UNCHANGED <<ctxDone, serverDone>> /\ stopOnly

-----------------------------------------------------------------------------
Select == \/ SelectStop \/ SelectEvent \/ SelectEventsClosed \/ SelectStreamError
          \/ \E t \in ReconcileTimer : SelectReconcile(t)
          \/ SelectReconnect \/ SelectStability

Goroutine == \/ StartStream \/ StreamStarted
             \/ LoopStop \/ BeginReconcile \/ EnterSelect
             \/ SnapshotSucceeds \/ SnapshotFails \/ ApplySucceeds \/ ApplyFails
             \/ AfterReconcile \/ Select

Environment == \/ Tick \/ DockerChanges \/ StreamFails \/ StreamCloses
               \/ CancelContext \/ ServerStops \/ CalmDown

Finished == pc = "done" /\ UNCHANGED vars

Next == Goroutine \/ Environment \/ Finished

Spec == Init /\ [][Next]_vars

(***************************************************************************)
(* Fairness: the goroutine runs, the calls it makes return (both are       *)
(* bounded by timeouts), and time passes.  Nothing is assumed of Docker,   *)
(* nor of the order in which the select picks ready cases.                 *)
(***************************************************************************)
FairSpec == /\ Spec
            /\ WF_vars(Goroutine) /\ WF_vars(Tick)

-----------------------------------------------------------------------------
Waiting == pc = "select" /\ ~stopReady

\* Types.
TypeOK ==
  /\ pc \in {"connect", "connecting", "top", "snapshot", "apply", "after", "select", "done"}
  /\ timer \in [Timer -> Nat \cup {Off}]
  /\ pending \in BOOLEAN
  /\ retryDelay \in InitialDelay..MaxDelay /\ reconnectDelay \in InitialDelay..MaxDelay
  /\ lastReconcileFailure \in {"", "error"}
  /\ lastStreamFailure \in {"", "error", "closed"}
  /\ stream \in Events!Stream /\ streams \in Nat /\ streamCancel \in BOOLEAN
  /\ active \subseteq {"snapshot", "apply", "events"}
  /\ {ctxDone, serverDone, failed, changed, applied, calm} \subseteq BOOLEAN
  /\ outcome \in {"none", "nil", "server"}
  /\ owed \in Nat \cup {Off}

(***************************************************************************)
(* Whenever the loop blocks, something will wake it: the periodic timer is *)
(* running, the stream is either connected or about to be reconnected (and *)
(* not both), a failed reconciliation has its retry scheduled, and neither *)
(* is later than the longest delay.  No stability timer of a stream that   *)
(* has gone is left to vouch for the next one.                             *)
(***************************************************************************)
NeverStranded ==
  Waiting => /\ timer["periodic"] # Off
             /\ stream.open <=> timer["reconnect"] = Off
             /\ lastReconcileFailure # "" => timer["retry"] # Off
             /\ timer["retry"] <= MaxDelay /\ timer["reconnect"] <= MaxDelay
             /\ timer["stability"] # Off => stream.open

(***************************************************************************)
(* An event read from Docker is answered by a reconciliation that starts   *)
(* at most MaxDebounceDelay later, however many events keep arriving.      *)
(***************************************************************************)
EventAnsweredInTime == pc = "select" => owed <= MaxDebounceDelay

(***************************************************************************)
(* README "Health": while the loop waits, the stream's concern is active   *)
(* exactly when its last attempt failed, and one of the reconciliation's   *)
(* two, snapshot or apply, exactly when the last reconciliation failed: no *)
(* failure is forgotten and none outlives the success that ends it.        *)
(***************************************************************************)
HealthTruthful ==
  Waiting => /\ "events" \in active <=> lastStreamFailure # ""
             /\ active \cap {"snapshot", "apply"} # {} <=> lastReconcileFailure # ""
             /\ lastReconcileFailure = "" => applied

(***************************************************************************)
(* A stream that keeps dying is not reconnected ever faster: the reconnect *)
(* delay falls only when an event, or a stable stream with no error or     *)
(* closure waiting to be read, has proved that it works.                   *)
(***************************************************************************)
BackoffKept ==
  [][reconnectDelay' < reconnectDelay =>
       stream.events > 0 \/ (~stream.error /\ stream.ended \in {"no", "failing"})]_vars

(***************************************************************************)
(* client.go "Callers must cancel all stream contexts before calling       *)
(* Close": when the loop has returned no stream context is left, and there *)
(* is never more than one.                                                 *)
(***************************************************************************)
StreamsCancelled == streams <= 1 /\ (pc = "done" => streams = 0)

(***************************************************************************)
(* The loop as Daemon.Run sees it.  It returns only for a stop condition   *)
(* and says truthfully which: Run relies on that to report the death of    *)
(* the health server exactly once.                                         *)
(***************************************************************************)
Contract == INSTANCE LoopContract WITH
  at      <- IF pc = "done" THEN "returned"
             ELSE IF pc \in {"snapshot", "apply"} THEN "busy" ELSE "idle",
  concern <- active \cap {"snapshot", "apply"} # {}

ImplementsContract == Contract!Spec

(***************************************************************************)
(* A cancelled context or a stopped health server ends the loop.           *)
(***************************************************************************)
LoopEnds == (ctxDone \/ serverDone) ~> pc = "done"

(***************************************************************************)
(* Once Docker calms down and the hosts file can be written, the file      *)
(* catches up with Docker, even if every event about the last change was   *)
(* lost with a broken stream.                                              *)
(***************************************************************************)
Converges == calm ~> (~changed /\ applied) \/ ctxDone \/ serverDone
=============================================================================
