----------------------------- MODULE LoopProofs -----------------------------
(***************************************************************************)
(* Theorems about Loop, for every choice of its delays.                    *)
(***************************************************************************)
EXTENDS Loop, TLAPS

(***************************************************************************)
(* None of the properties is inductive: each is about the moment the loop  *)
(* blocks, and the facts that make it true then were set up by a handler   *)
(* that ran several steps before.  The invariant follows them through the  *)
(* steps between.                                                          *)
(***************************************************************************)
Settled == pc \in {"connect", "connecting", "top", "select"}  \* nothing is reconciled
Active  == ~stopReady

\* A reconciliation is asked for only where it is looked at next.
PendingInv == pending => pc \in {"top", "done"}

\* The stream, its context and its stability timer.
StreamInv ==
  /\ stream.open \/ stream = NoStream
  /\ timer["stability"] # Off => stream.open
  /\ streams = IF streamCancel THEN 1 ELSE 0
  /\ pc = "done" => ~streamCancel

\* No backoff exceeds the longest delay.
DelayInv == timer["retry"] <= MaxDelay /\ timer["reconnect"] <= MaxDelay

\* Either there is a stream, or one is being opened, or it will be.
ConnectInv ==
  Active => /\ pc = "connect" => ~stream.open
            /\ pc \in {"connect", "connecting"} => timer["reconnect"] = Off
            /\ pc \notin {"connect", "connecting"} =>
                 (stream.open <=> timer["reconnect"] = Off)

\* What reconcilePending scheduled is still scheduled.
ScheduleInv ==
  Active /\ Settled /\ ~pending =>
    /\ timer["periodic"] # Off
    /\ lastReconcileFailure # "" => timer["retry"] # Off

\* The two debounce timers run exactly while an event waits for its answer.
DebounceInv ==
  /\ pc \in {"snapshot", "apply", "after"} => owed = Off /\ timer["debounce"] = Off
  /\ Settled /\ ~pending =>
       /\ owed = Off <=> timer["debounce"] = Off
       /\ owed # Off => timer["maximum"] # Off /\ owed + timer["maximum"] <= MaxDebounceDelay

\* The concerns, also in the middle of a reconciliation.
EventsConcernInv == "events" \in active <=> lastStreamFailure # ""
Concerned == active \cap {"snapshot", "apply"} # {}

ConcernInv ==
  /\ pc \in {"snapshot", "apply"} => ~failed
  /\ pc = "apply" => "snapshot" \notin active
  /\ Active /\ pc = "after" => (Concerned <=> failed) /\ (~failed => applied)
  /\ Active /\ Settled => /\ Concerned <=> lastReconcileFailure # ""
                          /\ lastReconcileFailure = "" => applied

\* The loop has returned only for a reason to stop.
StopInv == pc = "done" => stopReady

IInv == /\ TypeOK /\ PendingInv /\ StreamInv /\ DelayInv /\ ConnectInv /\ ScheduleInv
        /\ DebounceInv /\ EventsConcernInv /\ ConcernInv /\ StopInv

-----------------------------------------------------------------------------
(***************************************************************************)
(* What the operators and handlers do, point by point.                     *)
(***************************************************************************)
Delay == InitialDelay..MaxDelay
TimerType == [Timer -> Nat \cup {Off}]

\* The delays, one by one.
LEMMA Delays ==
  /\ PeriodicInterval \in Nat \ {0} /\ DebounceDelay \in Nat \ {0}
  /\ MaxDebounceDelay \in Nat \ {0} /\ StabilityDelay \in Nat \ {0}
  /\ InitialDelay \in Nat \ {0} /\ MaxDelay \in Nat \ {0} /\ MaxBuffered \in Nat \ {0}
  /\ DebounceDelay <= MaxDebounceDelay /\ InitialDelay <= MaxDelay
  /\ InitialDelay \in Delay /\ Delay \subseteq Nat \ {0} /\ \A d \in Delay : d <= MaxDelay
<1>1. /\ PeriodicInterval \in Nat \ {0} /\ DebounceDelay \in Nat \ {0}
      /\ MaxDebounceDelay \in Nat \ {0} /\ StabilityDelay \in Nat \ {0}
      /\ InitialDelay \in Nat \ {0} /\ MaxDelay \in Nat \ {0} /\ MaxBuffered \in Nat \ {0}
  BY LoopAssumption
<1>2. DebounceDelay <= MaxDebounceDelay /\ InitialDelay <= MaxDelay
  BY LoopAssumption
<1> QED
  BY <1>1, <1>2 DEF Delay

\* A timer that is off is no time.
LEMMA OffIsNoTime == Off \in Int /\ Off <= MaxDelay /\ \A n \in Nat : Off # n
BY Delays DEF Off

\* The backoff grows and stays within its bounds.
LEMMA BackoffBounds ==
  ASSUME NEW d \in Delay
  PROVE  nextLoopBackoff(d, MaxDelay) \in Delay /\ nextLoopBackoff(d, MaxDelay) >= d
BY Delays DEF nextLoopBackoff, Delay

\* The two constant streams.
LEMMA ConstantStreams ==
  /\ NoStream \in Events!Stream /\ ~NoStream.open /\ NoStream.events = 0
  /\ NoStream.ended = "no" /\ ~NoStream.error
  /\ Events!NewStream \in Events!Stream /\ Events!NewStream.open
<1>1. /\ Events!NoStream \in Events!Stream /\ Events!NoStream.open = FALSE
      /\ Events!NoStream.events = 0 /\ Events!NoStream.ended = "no"
      /\ Events!NoStream.error = FALSE
  BY LoopAssumption DEF Events!NoStream, Events!Stream
<1>2. Events!NewStream \in Events!Stream /\ Events!NewStream.open = TRUE
  BY <1>1 DEF Events!NewStream, Events!Stream
<1> QED
  BY <1>1, <1>2 DEF NoStream

\* Whatever happens on a stream happens on an open one and leaves it open.
LEMMA StreamKept ==
  ASSUME stream \in Events!Stream, stream.open \/ stream = NoStream,
         Events!Deliver \/ Events!Fail \/ Events!Close \/ Events!Read
  PROVE  stream' \in Events!Stream /\ stream.open /\ stream'.open
<1>1. stream.open
  <2>1. CASE Events!Deliver \/ Events!Fail
    BY <2>1 DEF Events!Deliver, Events!Fail, Events!Live
  <2>2. CASE Events!Close
    BY <2>2, ConstantStreams DEF Events!Close
  <2>3. CASE Events!Read
    BY <2>3, ConstantStreams DEF Events!Read
  <2> QED
    BY <2>1, <2>2, <2>3
<1>2. CASE Events!Deliver
  BY <1>1, <1>2, LoopAssumption DEF Events!Deliver, Events!Stream
<1>3. CASE Events!Fail
  BY <1>1, <1>3 DEF Events!Fail, Events!Stream
<1>4. CASE Events!Close
  BY <1>1, <1>4 DEF Events!Close, Events!Stream
<1>5. CASE Events!Read
  BY <1>1, <1>5, LoopAssumption DEF Events!Read, Events!Stream
<1> QED
  BY <1>1, <1>2, <1>3, <1>4, <1>5

\* Stopping some timers leaves the others.
LEMMA StopKeeps ==
  ASSUME timer \in TimerType, NEW ts
  PROVE  /\ Stop(ts) \in TimerType
         /\ \A t \in Timer : Stop(ts)[t] = IF t \in ts THEN Off ELSE timer[t]
BY DEF Stop, TimerType

\* What disconnectStream does.
Disconnected ==
  /\ stream' = NoStream /\ ~stream'.open /\ stream' \in Events!Stream
  /\ streamCancel' = FALSE /\ streams' = 0
  /\ timer' \in TimerType /\ timer'["stability"] = Off
  /\ \A t \in ReconcileTimer : timer'[t] = timer[t]
  /\ reconnectDelay' \in Delay /\ reconnectDelay' >= reconnectDelay
  /\ active' \subseteq {"snapshot", "apply", "events"}
  /\ active' \cap {"snapshot", "apply"} = active \cap {"snapshot", "apply"}
  /\ stopReady => timer'["reconnect"] = timer["reconnect"]
                  /\ UNCHANGED <<active, lastStreamFailure>>
  /\ Active => timer'["reconnect"] \in Delay /\ "events" \in active'
               /\ lastStreamFailure' \in {"error", "closed"}

\* disconnectStream has that effect, for an error and for a closed channel.
LEMMA DisconnectDoes ==
  ASSUME TypeOK, StreamInv, NEW message \in {"error", "closed"}, disconnectStream(message)
  PROVE  Disconnected
<1>1. /\ timer \in TimerType /\ reconnectDelay \in Delay /\ Delay \subseteq Nat \ {0}
      /\ streamCancel \in BOOLEAN /\ active \subseteq {"snapshot", "apply", "events"}
  BY Delays DEF TypeOK, TimerType, Delay
<1>2. /\ stream' = NoStream /\ ~stream'.open /\ stream' \in Events!Stream
  BY ConstantStreams DEF disconnectStream
<1>3. streamCancel' = FALSE /\ streams' = 0
  BY <1>1 DEF disconnectStream, cancelStream, StreamInv
<1> DEFINE stopped == Stop({"stability"})
<1>4. /\ stopped \in TimerType
      /\ \A t \in Timer : stopped[t] = IF t \in {"stability"} THEN Off ELSE timer[t]
  BY <1>1, StopKeeps
<1>5. reconnectDelay' \in Delay /\ reconnectDelay' >= reconnectDelay
  BY <1>1, BackoffBounds DEF disconnectStream
<1> HIDE DEF stopped
<1>6. CASE stopReady
  <2>1. timer' = stopped /\ UNCHANGED <<active, lastStreamFailure>>
    BY <1>6 DEF disconnectStream, stopped
  <2> QED
    BY <1>1, <1>2, <1>3, <1>4, <1>5, <1>6, <2>1 DEF Disconnected, Active, ReconcileTimer,
       Timer
<1>7. CASE ~stopReady
  <2>1. /\ timer' = [stopped EXCEPT !["reconnect"] = reconnectDelay]
        /\ lastStreamFailure' = message /\ active' = active \cup {"events"}
    BY <1>7 DEF disconnectStream, stopped
  <2>2. timer' \in TimerType /\ timer'["reconnect"] = reconnectDelay
        /\ timer'["stability"] = Off /\ \A t \in ReconcileTimer : timer'[t] = timer[t]
    BY <1>1, <1>4, <2>1 DEF TimerType, ReconcileTimer, Timer
  <2> QED
    BY <1>1, <1>2, <1>3, <1>5, <1>7, <2>1, <2>2 DEF Disconnected, Active
<1> QED
  BY <1>6, <1>7

\* What recoverStream does.
Recovered(newTimer) ==
  /\ timer' \in TimerType /\ timer'["stability"] = Off
  /\ \A t \in ReconcileTimer \cup {"reconnect"} : timer'[t] = newTimer[t]
  /\ reconnectDelay' \in Delay
  /\ active' \subseteq {"snapshot", "apply", "events"}
  /\ active' \cap {"snapshot", "apply"} = active \cap {"snapshot", "apply"}
  /\ "events" \notin active' /\ lastStreamFailure' = ""

\* recoverStream has that effect.
LEMMA RecoverDoes ==
  ASSUME TypeOK, NEW newTimer \in TimerType, recoverStream(newTimer)
  PROVE  Recovered(newTimer)
<1>1. timer' = [newTimer EXCEPT !["stability"] = Off]
  BY DEF recoverStream
<1>2. /\ timer' \in TimerType /\ timer'["stability"] = Off
      /\ \A t \in ReconcileTimer \cup {"reconnect"} : timer'[t] = newTimer[t]
  BY <1>1 DEF TimerType, Timer, ReconcileTimer
<1>3. reconnectDelay' \in Delay
  BY Delays DEF recoverStream
<1>4. active' = active \ {"events"} /\ lastStreamFailure' = ""
  BY DEF recoverStream
<1>5. active \subseteq {"snapshot", "apply", "events"}
  BY DEF TypeOK
<1> QED
  BY <1>2, <1>3, <1>4, <1>5 DEF Recovered

\* What observeEvent does.
Observed ==
  /\ stream' \in Events!Stream /\ stream.open /\ stream'.open
  /\ UNCHANGED <<streams, streamCancel>>
  /\ stopReady => UNCHANGED <<timer, active, lastStreamFailure, reconnectDelay, owed>>
  /\ Active => /\ Recovered(timer') /\ owed' = IF owed = Off THEN 0 ELSE owed
               /\ \A t \in {"periodic", "retry", "reconnect"} : timer'[t] = timer[t]
               /\ timer'["debounce"] = DebounceDelay
               /\ timer'["maximum"] = IF timer["debounce"] = Off THEN MaxDebounceDelay
                                                                ELSE timer["maximum"]

\* observeEvent has that effect.
LEMMA ObserveDoes ==
  ASSUME TypeOK, StreamInv, observeEvent
  PROVE  Observed
<1>1. stream' \in Events!Stream /\ stream.open /\ stream'.open
  BY StreamKept DEF TypeOK, StreamInv, observeEvent
<1>2. CASE stopReady
  BY <1>1, <1>2 DEF Observed, observeEvent, Active
<1>3. CASE ~stopReady
  <2> DEFINE set == [timer EXCEPT
               !["debounce"] = DebounceDelay,
               !["maximum"] = IF timer["debounce"] = Off THEN MaxDebounceDelay ELSE @]
  <2>1. timer \in TimerType /\ DebounceDelay \in Nat /\ MaxDebounceDelay \in Nat
    BY Delays DEF TypeOK, TimerType
  <2>2. /\ set \in TimerType
        /\ \A t \in {"periodic", "retry", "reconnect"} : set[t] = timer[t]
        /\ set["debounce"] = DebounceDelay
        /\ set["maximum"] = IF timer["debounce"] = Off THEN MaxDebounceDelay
                                                      ELSE timer["maximum"]
    BY <2>1 DEF TimerType, Timer
  <2>3. recoverStream(set) /\ owed' = (IF owed = Off THEN 0 ELSE owed)
        /\ UNCHANGED <<streams, streamCancel>>
    BY <1>3 DEF observeEvent
  <2> HIDE DEF set
  <2>4. Recovered(set)
    BY <2>2, <2>3, RecoverDoes
  <2> QED
    BY <1>1, <1>3, <2>2, <2>3, <2>4 DEF Observed, Recovered, Active, ReconcileTimer
<1> QED
  BY <1>2, <1>3

-----------------------------------------------------------------------------
(***************************************************************************)
(* The invariant holds initially and every step keeps it.                  *)
(***************************************************************************)
LEMMA InitInv == Init => IInv
<1> SUFFICES ASSUME Init PROVE IInv
  OBVIOUS
<1> DEFINE err == lastReconcileFailure # ""
<1>1. /\ timer \in TimerType /\ timer["periodic"] = PeriodicInterval
      /\ timer["retry"] = (IF err THEN InitialDelay ELSE Off)
      /\ \A t \in {"debounce", "maximum", "reconnect", "stability"} : timer[t] = Off
  BY Delays DEF Init, TimerType, Timer
<1>2. retryDelay \in Delay /\ reconnectDelay \in Delay
  BY Delays, BackoffBounds DEF Init
<1>3. /\ stream = NoStream /\ stream \in Events!Stream /\ ~stream.open
      /\ streams = 0 /\ streamCancel = FALSE /\ pending = FALSE /\ owed = Off
      /\ pc = "connect" /\ outcome = "none" /\ lastStreamFailure = ""
  BY ConstantStreams DEF Init
<1>4. /\ lastReconcileFailure \in {"", "error"} /\ applied = ~err /\ failed = err
      /\ active = {"snapshot"} \/ active = {"apply"} \/ active = {}
      /\ active = {} <=> ~err
  BY DEF Init
<1>5. ctxDone \in BOOLEAN /\ serverDone \in BOOLEAN /\ changed \in BOOLEAN /\ calm \in BOOLEAN
  BY DEF Init
<1>6. TypeOK
  BY <1>1, <1>2, <1>3, <1>4, <1>5 DEF TypeOK, TimerType, Delay
<1>7. PendingInv /\ StreamInv /\ StopInv /\ EventsConcernInv
  BY <1>1, <1>3, <1>4 DEF PendingInv, StreamInv, StopInv, EventsConcernInv
<1>8. DelayInv /\ ConnectInv /\ ScheduleInv /\ DebounceInv
  <2>1. DelayInv
    BY <1>1, Delays, OffIsNoTime DEF DelayInv
  <2>2. ConnectInv
    BY <1>1, <1>3 DEF ConnectInv
  <2>3. ScheduleInv
    BY <1>1, Delays, OffIsNoTime DEF ScheduleInv
  <2>4. DebounceInv
    BY <1>1, <1>3 DEF DebounceInv
  <2> QED
    BY <2>1, <2>2, <2>3, <2>4
<1>9. ConcernInv
  BY <1>3, <1>4 DEF ConcernInv, Concerned, Settled
<1> QED
  BY <1>6, <1>7, <1>8, <1>9 DEF IInv

\* What every handler of the stream leaves alone.
streamHandler ==
  /\ pc \in {"connect", "connecting", "select"} /\ pc' = "top"
  /\ UNCHANGED <<pending, retryDelay, lastReconcileFailure, envVars, outcome, failed,
                 changed, applied>>

\* Every way of giving a stream up.
LEMMA DisconnectInv ==
  ASSUME IInv, streamHandler, Disconnected, UNCHANGED owed
  PROVE  IInv'
<1> USE DEF streamHandler, envVars
<1>1. TypeOK'
  BY DEF IInv, TypeOK, Disconnected, TimerType, Delay, Active
<1>2. PendingInv' /\ StreamInv' /\ StopInv'
  BY DEF IInv, PendingInv, StreamInv, StopInv, Disconnected
<1>3. ConnectInv'
  BY Delays, OffIsNoTime DEF ConnectInv, Disconnected, Active, stopReady
<1>4. ScheduleInv'
  BY DEF IInv, ScheduleInv, Disconnected, ReconcileTimer, Settled, Active, stopReady
<1>5. DelayInv'
  <2>1. timer'["retry"] = timer["retry"]
    BY DEF Disconnected, ReconcileTimer
  <2>2. timer'["reconnect"] = timer["reconnect"] \/ timer'["reconnect"] \in Delay
    BY DEF Disconnected, Active
  <2> QED
    BY <2>1, <2>2, Delays DEF IInv, DelayInv
<1>6. DebounceInv'
  BY DEF IInv, DebounceInv, Disconnected, ReconcileTimer, Settled
<1>7. EventsConcernInv'
  BY DEF IInv, EventsConcernInv, Disconnected, Active
<1>8. ConcernInv'
  BY DEF IInv, ConcernInv, Concerned, Disconnected, Settled, Active, stopReady
<1> QED
  BY <1>1, <1>2, <1>3, <1>4, <1>5, <1>6, <1>7, <1>8 DEF IInv

\* Every event that is read.
LEMMA ObserveInv ==
  ASSUME IInv, streamHandler, pc = "select", Observed
  PROVE  IInv'
<1> USE DEF streamHandler, envVars
<1>1. TypeOK /\ TypeOK'
  <2>1. timer' \in TimerType /\ reconnectDelay' \in Delay
    BY DEF IInv, TypeOK, Observed, Recovered, TimerType, Delay, Active
  <2>2. active' \subseteq {"snapshot", "apply", "events"}
        /\ lastStreamFailure' \in {"", "error", "closed"}
    BY DEF IInv, TypeOK, Observed, Recovered, Active
  <2>3. owed' \in Nat \cup {Off}
    <3>1. owed' = 0 \/ owed' = owed
      BY DEF Observed, Active
    <3>2. owed \in Nat \cup {Off}
      BY DEF IInv, TypeOK
    <3> QED
      BY <3>1, <3>2
  <2> QED
    BY <2>1, <2>2, <2>3 DEF IInv, TypeOK, Observed, TimerType, Delay
<1>2. /\ \A t \in {"periodic", "retry", "reconnect"} : timer'[t] = timer[t]
      /\ timer'["stability"] # Off => stream'.open
  BY DEF Observed, Active
<1>3. PendingInv' /\ StreamInv' /\ StopInv'
  BY <1>2 DEF IInv, PendingInv, StreamInv, StopInv, Observed
<1>4. ConnectInv' /\ ScheduleInv' /\ DelayInv'
  BY <1>2 DEF IInv, ConnectInv, ScheduleInv, DelayInv, Observed, Settled, Active, stopReady
<1>5. DebounceInv'
  <2>1. CASE stopReady
    BY <2>1 DEF IInv, DebounceInv, Observed, Settled
  <2>2. CASE ~stopReady
    <3>1. ~pending /\ (owed = Off <=> timer["debounce"] = Off)
      BY DEF IInv, DebounceInv, PendingInv, Settled
    <3>2. /\ timer'["debounce"] = DebounceDelay
          /\ owed = Off => owed' = 0 /\ timer'["maximum"] = MaxDebounceDelay
          /\ owed # Off => owed' = owed /\ timer'["maximum"] = timer["maximum"]
      BY <2>2, <3>1 DEF Observed, Active
    <3>3. owed # Off => timer["maximum"] # Off /\ owed + timer["maximum"] <= MaxDebounceDelay
      BY <3>1 DEF IInv, DebounceInv, Settled
    <3>4. /\ owed' # Off /\ timer'["debounce"] # Off /\ timer'["maximum"] # Off
          /\ owed' + timer'["maximum"] <= MaxDebounceDelay
      BY <3>2, <3>3, Delays, OffIsNoTime
    <3> QED
      BY <3>4 DEF DebounceInv
  <2> QED
    BY <2>1, <2>2
<1>6. EventsConcernInv'
  BY DEF IInv, EventsConcernInv, Observed, Recovered, Active
<1>7. ConcernInv'
  BY DEF IInv, ConcernInv, Concerned, Observed, Recovered, Settled, Active, stopReady
<1> QED
  BY <1>1, <1>3, <1>4, <1>5, <1>6, <1>7 DEF IInv

\* A stream that has been stable long enough, or a stability timer that comes
\* too late.
LEMMA StableInv ==
  ASSUME IInv, streamHandler, pc = "select", UNCHANGED <<stream, streams, streamCancel, owed>>,
         \/ Recovered(timer)
         \/ timer' = Stop({"stability"}) /\ UNCHANGED <<active, lastStreamFailure, reconnectDelay>>
  PROVE  IInv'
<1> USE DEF streamHandler, envVars
<1>1. /\ timer' \in TimerType /\ timer'["stability"] = Off
      /\ \A t \in ReconcileTimer \cup {"reconnect"} : timer'[t] = timer[t]
  <2>1. timer \in TimerType
    BY DEF IInv, TypeOK, TimerType
  <2>2. CASE Recovered(timer)
    BY <2>2 DEF Recovered
  <2>3. CASE timer' = Stop({"stability"})
    <3>1. /\ timer' \in TimerType
          /\ \A t \in Timer : timer'[t] = IF t \in {"stability"} THEN Off ELSE timer[t]
      BY <2>1, <2>3, StopKeeps
    <3> QED
      BY <3>1 DEF ReconcileTimer, Timer
  <2> QED
    BY <2>2, <2>3
<1>2. /\ reconnectDelay' \in Delay /\ active' \subseteq {"snapshot", "apply", "events"}
      /\ active' \cap {"snapshot", "apply"} = active \cap {"snapshot", "apply"}
      /\ lastStreamFailure' \in {"", "error", "closed"}
  BY DEF Recovered, IInv, TypeOK, Delay
<1>3. TypeOK'
  BY <1>1, <1>2 DEF IInv, TypeOK, TimerType, Delay
<1>4. PendingInv' /\ StreamInv' /\ StopInv' /\ DelayInv'
  BY <1>1 DEF IInv, PendingInv, StreamInv, StopInv, DelayInv, ReconcileTimer
<1>5. ConnectInv' /\ ScheduleInv' /\ DebounceInv'
  BY <1>1 DEF IInv, ConnectInv, ScheduleInv, DebounceInv, ReconcileTimer, Settled, Active,
              stopReady
<1>6. EventsConcernInv'
  BY DEF IInv, EventsConcernInv, Recovered
<1>7. ConcernInv'
  BY <1>2 DEF IInv, ConcernInv, Concerned, Settled, Active, stopReady
<1> QED
  BY <1>3, <1>4, <1>5, <1>6, <1>7 DEF IInv

\* The handlers of the stream.
LEMMA StreamHandlersInv ==
  ASSUME IInv, \/ SelectEvent \/ SelectEventsClosed \/ SelectStreamError \/ SelectStability
  PROVE  IInv'
<1>1. TypeOK /\ StreamInv /\ timer \in TimerType /\ StreamError \in {"error", "closed"}
  BY DEF IInv, TypeOK, TimerType, StreamError
<1>2. streamHandler /\ pc = "select"
  BY DEF SelectEvent, SelectEventsClosed, SelectStreamError, SelectStability, streamCase,
         streamHandler
<1>3. CASE SelectEvent
  BY <1>1, <1>2, <1>3, ObserveDoes, ObserveInv DEF SelectEvent
<1>4. CASE SelectEventsClosed \/ SelectStreamError
  <2>1. disconnectStream(StreamError) /\ UNCHANGED owed
    BY <1>4 DEF SelectEventsClosed, SelectStreamError
  <2> QED
    BY <1>1, <1>2, <2>1, DisconnectDoes, DisconnectInv
<1>5. CASE SelectStability
  <2>1. \/ /\ timer' = Stop({"stability"})
           /\ UNCHANGED <<stream, streams, streamCancel, active, lastStreamFailure,
                          reconnectDelay, owed>>
        \/ disconnectStream(StreamError) /\ UNCHANGED owed
        \/ observeEvent
        \/ recoverStream(timer) /\ UNCHANGED <<stream, streams, streamCancel, owed>>
    BY <1>5 DEF SelectStability
  <2> QED
    BY <1>1, <1>2, <2>1, DisconnectDoes, DisconnectInv, ObserveDoes, ObserveInv,
       RecoverDoes, StableInv
<1> QED
  BY <1>3, <1>4, <1>5

\* Opening a stream, up to the call of source.Events.
LEMMA StartStreamInv == ASSUME IInv, StartStream PROVE IInv'
<1>1. /\ pc = "connect" /\ UNCHANGED envVars /\ TypeOK /\ StreamInv
      /\ UNCHANGED <<pending, retryDelay, lastReconcileFailure, outcome, failed, changed,
                     applied, owed>>
  BY DEF StartStream, IInv
<1>2. CASE stopReady
  <2>1. pc' = "top" /\ disconnectStream("closed")
    BY <1>2 DEF StartStream
  <2> QED
    BY <1>1, <2>1, DisconnectDoes, DisconnectInv DEF streamHandler
<1>3. CASE ~stopReady
  <2>0. streams' = (IF streamCancel THEN streams - 1 ELSE streams) + 1
    BY <1>1, <1>3 DEF StartStream
  <2>1. /\ pc' = "connecting" /\ streamCancel' = TRUE /\ streams' = 1
        /\ stream' \in {Events!NewStream, NoStream}
        /\ UNCHANGED <<timer, lastStreamFailure, active, reconnectDelay>>
    <3>1. (streamCancel => streams = 1) /\ (~streamCancel => streams = 0)
      BY <1>1 DEF StreamInv
    <3>2. streams' = 1
      BY <2>0, <3>1
    <3> QED
      BY <1>1, <1>3, <3>2 DEF StartStream
  <2>2. stream' \in Events!Stream /\ (stream'.open \/ stream' = NoStream)
    BY <2>1, ConstantStreams
  <2>3. timer["stability"] = Off
    BY <1>1, <1>3 DEF IInv, StreamInv, ConnectInv, Active
  <2>4. TypeOK'
    BY <1>1, <2>1, <2>2 DEF TypeOK, envVars
  <2>5. PendingInv' /\ StreamInv' /\ StopInv' /\ ConnectInv' /\ ScheduleInv'
    BY <1>1, <2>1, <2>2, <2>3
    DEF IInv, PendingInv, StreamInv, StopInv, ConnectInv, ScheduleInv, Settled, Active,
        stopReady, envVars
  <2>6. DelayInv' /\ DebounceInv'
    BY <1>1, <2>1 DEF IInv, DelayInv, DebounceInv, Settled
  <2>7. EventsConcernInv' /\ ConcernInv'
    BY <1>1, <2>1 DEF IInv, EventsConcernInv, ConcernInv, Concerned, Active, stopReady,
                      envVars, Settled
  <2> QED
    BY <2>4, <2>5, <2>6, <2>7 DEF IInv
<1> QED
  BY <1>2, <1>3

\* The stream is there, or it is not.
LEMMA StreamStartedInv == ASSUME IInv, StreamStarted PROVE IInv'
<1>1. /\ pc = "connecting" /\ pc' = "top" /\ TypeOK /\ StreamInv /\ UNCHANGED owed
      /\ streamHandler
  BY DEF StreamStarted, IInv, streamHandler
<1>2. CASE stopReady \/ stream = NoStream
  BY <1>1, <1>2, DisconnectDoes, DisconnectInv DEF StreamStarted
<1>3. CASE ~(stopReady \/ stream = NoStream)
  <2>1. /\ timer' = [timer EXCEPT !["stability"] = StabilityDelay] /\ stream.open
        /\ UNCHANGED <<stream, streams, streamCancel, lastStreamFailure, active, reconnectDelay>>
    BY <1>1, <1>3 DEF StreamStarted, StreamInv
  <2>2. timer' \in TimerType /\ \A t \in ReconcileTimer \cup {"reconnect"} : timer'[t] = timer[t]
    BY <1>1, <2>1, Delays DEF TypeOK, TimerType, Timer, ReconcileTimer
  <2> USE DEF streamHandler, envVars
  <2>3. TypeOK'
    BY <1>1, <2>1, <2>2 DEF TypeOK, TimerType
  <2>4. PendingInv' /\ StreamInv' /\ StopInv' /\ DelayInv'
    BY <1>1, <2>1, <2>2 DEF IInv, PendingInv, StreamInv, StopInv, DelayInv, ReconcileTimer
  <2>5. ConnectInv' /\ ScheduleInv' /\ DebounceInv'
    BY <1>1, <2>1, <2>2 DEF IInv, ConnectInv, ScheduleInv, DebounceInv, ReconcileTimer,
       Settled, Active, stopReady
  <2>6. EventsConcernInv' /\ ConcernInv'
    BY <1>1, <2>1 DEF IInv, EventsConcernInv, ConcernInv, Concerned, Settled, Active,
       stopReady
  <2> QED
    BY <2>3, <2>4, <2>5, <2>6 DEF IInv
<1> QED
  BY <1>2, <1>3

\* The loop returns: its context is cancelled and its timers are stopped.
LEMMA LeaveInv == ASSUME IInv, LoopStop \/ SelectStop PROVE IInv'
<1>1. /\ Leave /\ stopReady /\ TypeOK /\ StreamInv /\ pc' = "done" /\ UNCHANGED envVars
      /\ outcome' \in {"nil", "server"} /\ timer \in TimerType
  BY DEF LoopStop, SelectStop, Leave, stopReady, IInv, TypeOK, TimerType
<1>2. timer' \in TimerType /\ \A t \in Timer : timer'[t] = Off
  BY <1>1, StopKeeps DEF Leave
<1>3. streamCancel' = FALSE /\ streams' = 0
  BY <1>1 DEF Leave, cancelStream, StreamInv
<1>4. TypeOK'
  BY <1>1, <1>2, <1>3 DEF Leave, TypeOK, TimerType, envVars
<1>5. PendingInv' /\ StopInv' /\ StreamInv'
  BY <1>1, <1>2, <1>3 DEF Leave, PendingInv, StopInv, StreamInv, stopReady, envVars, Timer
<1>6. DelayInv'
  BY <1>2, OffIsNoTime DEF DelayInv, Timer
<1>7. ConnectInv' /\ ScheduleInv'
  BY <1>1 DEF ConnectInv, ScheduleInv, Active, stopReady, envVars
<1>8. DebounceInv'
  BY <1>1 DEF DebounceInv, Settled
<1>9. EventsConcernInv' /\ ConcernInv'
  BY <1>1 DEF Leave, IInv, EventsConcernInv, ConcernInv, Settled
<1> QED
  BY <1>4, <1>5, <1>6, <1>7, <1>8, <1>9 DEF IInv

\* From the top of the loop to a reconciliation, or to the select.
LEMMA TopInv == ASSUME IInv, BeginReconcile \/ EnterSelect PROVE IInv'
<1>1. CASE BeginReconcile
  <2>1. /\ pc = "top" /\ pc' = "snapshot" /\ pending' = FALSE /\ failed' = FALSE /\ owed' = Off
        /\ timer' = Stop(ReconcileTimer) /\ TypeOK /\ timer \in TimerType
        /\ UNCHANGED <<retryDelay, reconnectDelay, lastReconcileFailure, lastStreamFailure,
                       stream, streams, streamCancel, active, envVars, outcome, changed, applied>>
    BY <1>1 DEF BeginReconcile, IInv, TypeOK, TimerType
  <2>2. /\ timer' \in TimerType
        /\ \A t \in Timer : timer'[t] = IF t \in ReconcileTimer THEN Off ELSE timer[t]
    BY <2>1, StopKeeps
  <2>3. /\ \A t \in ReconcileTimer : timer'[t] = Off
        /\ timer'["reconnect"] = timer["reconnect"] /\ timer'["stability"] = timer["stability"]
    BY <2>2 DEF ReconcileTimer, Timer
  <2>4. TypeOK'
    BY <2>1, <2>2 DEF TypeOK, TimerType, envVars
  <2>5. PendingInv' /\ StreamInv' /\ StopInv' /\ ConnectInv' /\ ScheduleInv'
    BY <2>1, <2>3 DEF IInv, PendingInv, StreamInv, StopInv, ConnectInv, ScheduleInv,
       Settled, Active, stopReady, envVars
  <2>6. DelayInv'
    BY <2>3, OffIsNoTime DEF IInv, DelayInv, ReconcileTimer
  <2>7. DebounceInv'
    BY <2>1, <2>3 DEF DebounceInv, Settled, ReconcileTimer
  <2>8. EventsConcernInv' /\ ConcernInv'
    BY <2>1 DEF IInv, EventsConcernInv, ConcernInv, Settled
  <2> QED
    BY <2>4, <2>5, <2>6, <2>7, <2>8 DEF IInv
<1>2. CASE EnterSelect
  <2>1. /\ pc = "top" /\ pc' = "select" /\ ~pending
        /\ UNCHANGED <<loopVars, envVars, outcome, failed, changed, applied, owed>>
    BY <1>2 DEF EnterSelect
  <2> USE DEF loopVars, envVars
  <2>2. TypeOK' /\ PendingInv' /\ StreamInv' /\ StopInv' /\ DelayInv'
    BY <2>1 DEF IInv, TypeOK, PendingInv, StreamInv, StopInv, DelayInv
  <2>3. ConnectInv' /\ ScheduleInv' /\ DebounceInv'
    BY <2>1 DEF IInv, ConnectInv, ScheduleInv, DebounceInv, Settled, Active, stopReady
  <2>4. EventsConcernInv' /\ ConcernInv'
    BY <2>1 DEF IInv, EventsConcernInv, ConcernInv, Concerned, Settled, Active, stopReady
  <2> QED
    BY <2>2, <2>3, <2>4 DEF IInv
<1> QED
  BY <1>1, <1>2

\* The two halves of Daemon.reconcile.
LEMMA ReconcileInv ==
  ASSUME IInv, SnapshotSucceeds \/ SnapshotFails \/ ApplySucceeds \/ ApplyFails
  PROVE  IInv'
<1>1. /\ pc \in {"snapshot", "apply"} /\ pc' \in {"apply", "after"} /\ reconcileUnchanged
      /\ ("events" \in active' <=> "events" \in active)
      /\ active' \subseteq active \cup {"snapshot", "apply"}
  BY DEF SnapshotSucceeds, SnapshotFails, ApplySucceeds, ApplyFails, ReconcileFails
<1>2. failed' \in BOOLEAN /\ changed' \in BOOLEAN /\ applied' \in BOOLEAN
  BY DEF SnapshotSucceeds, SnapshotFails, ApplySucceeds, ApplyFails, ReconcileFails, IInv,
     TypeOK
<1> USE DEF reconcileUnchanged, envVars
<1>3. TypeOK'
  <2>1. ctxDone' \in BOOLEAN /\ serverDone' \in BOOLEAN /\ calm' \in BOOLEAN
    BY <1>1 DEF IInv, TypeOK
  <2>2. active' \subseteq {"snapshot", "apply", "events"}
    BY <1>1 DEF IInv, TypeOK
  <2>3. {ctxDone', serverDone', failed', changed', applied', calm'} \subseteq BOOLEAN
    BY <1>2, <2>1
  <2> QED
    BY <1>1, <2>2, <2>3 DEF IInv, TypeOK
<1>4. PendingInv' /\ StreamInv' /\ StopInv' /\ DelayInv'
  BY <1>1 DEF IInv, PendingInv, StreamInv, StopInv, DelayInv
<1>5. ConnectInv' /\ ScheduleInv' /\ DebounceInv'
  BY <1>1 DEF IInv, ConnectInv, ScheduleInv, DebounceInv, Settled, Active, stopReady
<1>6. EventsConcernInv'
  BY <1>1 DEF IInv, EventsConcernInv
<1>7. ConcernInv'
  <2>1. CASE SnapshotSucceeds
    BY <2>1 DEF SnapshotSucceeds, IInv, ConcernInv, Settled
  <2>2. CASE SnapshotFails \/ ApplyFails
    <3>1. pc' = "after" /\ failed' = TRUE /\ (Active' => Concerned')
      BY <2>2 DEF SnapshotFails, ApplyFails, ReconcileFails, Active, stopReady, Concerned
    <3> QED
      BY <3>1 DEF ConcernInv, Settled
  <2>3. CASE ApplySucceeds
    <3>1. pc' = "after" /\ failed' = failed /\ applied' = TRUE /\ ~failed /\ ~Concerned'
      BY <2>3 DEF ApplySucceeds, IInv, ConcernInv, Concerned
    <3> QED
      BY <3>1 DEF ConcernInv, Settled
  <2> QED
    BY <2>1, <2>2, <2>3
<1> QED
  BY <1>3, <1>4, <1>5, <1>6, <1>7 DEF IInv

\* The end of reconcilePending schedules what comes next.
LEMMA AfterInv == ASSUME IInv, AfterReconcile PROVE IInv'
<1>1. /\ pc = "after" /\ pc' = "top" /\ TypeOK /\ timer \in TimerType /\ retryDelay \in Delay
      /\ UNCHANGED <<pending, reconnectDelay, lastStreamFailure, stream, streams,
                     streamCancel, active, envVars, outcome, failed, changed, applied, owed>>
  BY DEF AfterReconcile, IInv, TypeOK, TimerType, Delay
<1>2. /\ timer' \in TimerType
      /\ \A t \in {"debounce", "maximum", "reconnect", "stability"} : timer'[t] = timer[t]
      /\ timer'["retry"] \in {timer["retry"], retryDelay}
      /\ Active => timer'["periodic"] = PeriodicInterval
                   /\ (failed => timer'["retry"] = retryDelay)
  <2>1. CASE stopReady
    BY <1>1, <2>1 DEF AfterReconcile, Active
  <2>2. CASE ~stopReady /\ failed
    BY <1>1, <2>2, Delays DEF AfterReconcile, Active, TimerType, Timer
  <2>3. CASE ~stopReady /\ ~failed
    BY <1>1, <2>3, Delays DEF AfterReconcile, Active, TimerType, Timer
  <2> QED
    BY <2>1, <2>2, <2>3
<1>3. /\ retryDelay' \in Delay /\ lastReconcileFailure' \in {"", "error"}
      /\ Active => (failed <=> lastReconcileFailure' # "")
  <2>1. retryDelay' \in {retryDelay, InitialDelay, nextLoopBackoff(retryDelay, MaxDelay)}
    BY DEF AfterReconcile
  <2>2. retryDelay' \in Delay
    BY <1>1, <2>1, Delays, BackoffBounds
  <2>3. /\ lastReconcileFailure' \in {"", "error"}
        /\ Active => (failed <=> lastReconcileFailure' # "")
    BY <1>1 DEF AfterReconcile, Active, TypeOK
  <2> QED
    BY <2>2, <2>3
<1> USE DEF envVars
<1>4. TypeOK'
  BY <1>1, <1>2, <1>3 DEF TypeOK, TimerType, Delay
<1>5. PendingInv' /\ StreamInv' /\ StopInv'
  BY <1>1, <1>2 DEF IInv, PendingInv, StreamInv, StopInv
<1>6. DelayInv'
  BY <1>1, <1>2, Delays DEF IInv, DelayInv
<1>7. ConnectInv'
  BY <1>1, <1>2 DEF IInv, ConnectInv, Active, stopReady
<1>8. ScheduleInv'
  BY <1>1, <1>2, <1>3, Delays, OffIsNoTime DEF ScheduleInv, Active, stopReady
<1>9. DebounceInv'
  BY <1>1, <1>2 DEF IInv, DebounceInv, Settled
<1>10. EventsConcernInv' /\ ConcernInv'
  BY <1>1, <1>3 DEF IInv, EventsConcernInv, ConcernInv, Concerned, Settled, Active,
     stopReady
<1> QED
  BY <1>4, <1>5, <1>6, <1>7, <1>8, <1>9, <1>10 DEF IInv

\* A timer of the select.
LEMMA TimerInv ==
  ASSUME IInv, (\E t \in ReconcileTimer : SelectReconcile(t)) \/ SelectReconnect
  PROVE  IInv'
<1>1. /\ pc = "select" /\ TypeOK /\ timer \in TimerType
      /\ UNCHANGED <<retryDelay, reconnectDelay, lastReconcileFailure, lastStreamFailure,
                     stream, streams, streamCancel, active, envVars, outcome, failed, changed,
                     applied, owed>>
  BY DEF SelectReconcile, SelectReconnect, Fired, IInv, TypeOK, TimerType
<1> USE DEF envVars
<1>2. CASE \E t \in ReconcileTimer : SelectReconcile(t)
  <2>1. PICK t \in ReconcileTimer : SelectReconcile(t)
    BY <1>2
  <2>2. pc' = "top" /\ pending' = TRUE /\ timer' = Stop(StoppedBy(t))
    BY <2>1 DEF SelectReconcile
  <2>3. /\ timer' \in TimerType
        /\ \A u \in Timer : timer'[u] = IF u \in StoppedBy(t) THEN Off ELSE timer[u]
    BY <1>1, <2>2, StopKeeps
  <2>4. StoppedBy(t) \subseteq ReconcileTimer
    BY DEF StoppedBy, ReconcileTimer
  <2>5. /\ timer'["reconnect"] = timer["reconnect"] /\ timer'["stability"] = timer["stability"]
        /\ timer'["retry"] \in {Off, timer["retry"]}
    BY <2>3, <2>4 DEF Timer, ReconcileTimer
  <2>6. TypeOK'
    BY <1>1, <2>2, <2>3 DEF TypeOK, TimerType
  <2>7. PendingInv' /\ StreamInv' /\ StopInv'
    BY <1>1, <2>2, <2>5 DEF IInv, PendingInv, StreamInv, StopInv
  <2>8. DelayInv'
    BY <2>5, OffIsNoTime DEF IInv, DelayInv
  <2>9. ConnectInv' /\ ScheduleInv' /\ DebounceInv'
    BY <1>1, <2>2, <2>5 DEF IInv, ConnectInv, ScheduleInv, DebounceInv, Active, stopReady
  <2>10. EventsConcernInv' /\ ConcernInv'
    BY <1>1, <2>2 DEF IInv, EventsConcernInv, ConcernInv, Concerned, Settled, Active,
       stopReady
  <2> QED
    BY <2>6, <2>7, <2>8, <2>9, <2>10 DEF IInv
<1>3. CASE SelectReconnect
  <2>1. /\ pc' = (IF stopReady THEN "top" ELSE "connect") /\ pending' = pending
        /\ timer' = Stop({"reconnect"}) /\ timer["reconnect"] = 0
    BY <1>3 DEF SelectReconnect, Fired
  <2>2. /\ timer' \in TimerType
        /\ \A u \in Timer : timer'[u] = IF u \in {"reconnect"} THEN Off ELSE timer[u]
    BY <1>1, <2>1, StopKeeps
  <2>3. /\ \A u \in ReconcileTimer : timer'[u] = timer[u]
        /\ timer'["stability"] = timer["stability"] /\ timer'["reconnect"] = Off
    BY <2>2 DEF Timer, ReconcileTimer
  <2>4. Active => ~stream.open
    BY <1>1, <2>1, OffIsNoTime DEF IInv, ConnectInv
  <2>5. TypeOK'
    BY <1>1, <2>1, <2>2 DEF TypeOK, TimerType
  <2>6. PendingInv' /\ StreamInv' /\ StopInv'
    BY <1>1, <2>1, <2>3 DEF IInv, PendingInv, StreamInv, StopInv
  <2>7. DelayInv'
    BY <2>3, OffIsNoTime DEF IInv, DelayInv, ReconcileTimer
  <2>8. ConnectInv'
    BY <1>1, <2>1, <2>3, <2>4 DEF ConnectInv, Active, stopReady
  <2>9. ScheduleInv' /\ DebounceInv'
    BY <1>1, <2>1, <2>3 DEF IInv, ScheduleInv, DebounceInv, ReconcileTimer, Settled, Active,
                            stopReady
  <2>10. EventsConcernInv' /\ ConcernInv'
    BY <1>1, <2>1 DEF IInv, EventsConcernInv, ConcernInv, Concerned, Settled, Active,
       stopReady
  <2> QED
    BY <2>5, <2>6, <2>7, <2>8, <2>9, <2>10 DEF IInv
<1> QED
  BY <1>2, <1>3

\* Time passes.
LEMMA TickInv == ASSUME IInv, Tick PROVE IInv'
<1>1. /\ pc' = pc /\ pc \in {"snapshot", "apply", "select"} /\ TypeOK /\ timer \in TimerType
      /\ pc = "select" => \A t \in Timer : timer[t] # 0
      /\ UNCHANGED <<pending, retryDelay, reconnectDelay, lastReconcileFailure,
                     lastStreamFailure, stream, streams, streamCancel, active, envVars, outcome,
                     failed, changed, applied>>
  BY DEF Tick, IInv, TypeOK, TimerType
<1>2. /\ timer' \in TimerType
      /\ \A t \in Timer : /\ timer[t] = Off => timer'[t] = Off
                          /\ timer[t] = 0 => timer'[t] = 0
                          /\ timer[t] > 0 => timer'[t] = timer[t] - 1
  <2>1. timer' = [t \in Timer |-> IF timer[t] > 0 THEN timer[t] - 1 ELSE timer[t]]
    BY DEF Tick
  <2>2. \A t \in Timer : timer[t] \in Nat \cup {Off} /\ ~(Off > 0)
    BY <1>1 DEF TimerType, Off
  <2>3. \A t \in Timer : timer'[t] = IF timer[t] > 0 THEN timer[t] - 1 ELSE timer[t]
    BY <2>1
  <2>4. \A t \in Timer : timer'[t] \in Nat \cup {Off}
    BY <2>2, <2>3
  <2>5. timer' \in TimerType
    BY <2>1, <2>4 DEF TimerType
  <2> QED
    BY <2>2, <2>3, <2>5
<1>3. \A t \in Timer : /\ timer'[t] <= timer[t]
                       /\ timer'[t] = Off <=> timer[t] = Off
  BY <1>1, <1>2, OffIsNoTime DEF TimerType
<1>4. owed' = IF owed = Off \/ owed > MaxDebounceDelay THEN owed ELSE owed + 1
  BY DEF Tick
<1> USE DEF envVars
<1>5. TypeOK'
  <2>1. owed' \in Nat \cup {Off}
    <3>1. owed \in Nat \cup {Off}
      BY <1>1 DEF TypeOK
    <3> QED
      BY <1>4, <3>1
  <2> QED
    BY <1>1, <1>2, <2>1 DEF TypeOK, TimerType
<1>6. PendingInv' /\ StreamInv' /\ StopInv'
  BY <1>1, <1>3 DEF IInv, PendingInv, StreamInv, StopInv, Timer
<1>7. DelayInv'
  <2>1. /\ timer'["retry"] <= timer["retry"] /\ timer'["reconnect"] <= timer["reconnect"]
        /\ timer["retry"] <= MaxDelay /\ timer["reconnect"] <= MaxDelay
    BY <1>3 DEF IInv, DelayInv, Timer
  <2>2. \A t \in {"retry", "reconnect"} : timer'[t] \in Int /\ timer[t] \in Int
    BY <1>1, <1>2, OffIsNoTime DEF TimerType, Timer
  <2> QED
    BY <2>1, <2>2, Delays DEF DelayInv
<1>8. ConnectInv' /\ ScheduleInv'
  BY <1>1, <1>3 DEF IInv, ConnectInv, ScheduleInv, Timer, Settled, Active, stopReady
<1>9. DebounceInv'
  <2>1. CASE pc \in {"snapshot", "apply"}
    BY <1>1, <1>3, <1>4, <2>1 DEF IInv, DebounceInv, Settled, Timer
  <2>2. CASE pc = "select" /\ ~pending
    <3>1. CASE owed = Off
      BY <1>1, <1>3, <1>4, <2>2, <3>1 DEF IInv, DebounceInv, Settled, Timer
    <3>2. CASE owed # Off
      <4>1. /\ timer["debounce"] # Off /\ timer["maximum"] # Off
            /\ owed + timer["maximum"] <= MaxDebounceDelay
        BY <2>2, <3>2 DEF IInv, DebounceInv, Settled
      <4>2. owed \in Nat /\ timer["maximum"] \in Nat /\ timer["maximum"] > 0
        <5>1. owed \in Nat \cup {Off} /\ timer["maximum"] \in Nat \cup {Off}
          BY <1>1 DEF TypeOK, TimerType, Timer
        <5>2. timer["maximum"] # 0
          BY <1>1, <2>2 DEF Timer
        <5> QED
          BY <3>2, <4>1, <5>1, <5>2
      <4>3. owed' = owed + 1 /\ timer'["maximum"] = timer["maximum"] - 1
        BY <1>2, <1>4, <3>2, <4>1, <4>2, Delays DEF Timer
      <4>4. owed' # Off /\ timer'["debounce"] # Off /\ timer'["maximum"] # Off
            /\ owed' + timer'["maximum"] <= MaxDebounceDelay
        BY <1>3, <4>1, <4>2, <4>3, Delays, OffIsNoTime DEF Timer
      <4> QED
        BY <1>1, <2>2, <4>4 DEF DebounceInv
    <3> QED
      BY <3>1, <3>2
  <2>3. CASE pc = "select" /\ pending
    BY <1>1, <2>3 DEF DebounceInv
  <2> QED
    BY <1>1, <2>1, <2>2, <2>3
<1>10. EventsConcernInv' /\ ConcernInv'
  BY <1>1 DEF IInv, EventsConcernInv, ConcernInv, Concerned, Settled, Active, stopReady
<1> QED
  BY <1>5, <1>6, <1>7, <1>8, <1>9, <1>10 DEF IInv

\* Docker and its stream.
LEMMA DockerInv == ASSUME IInv, DockerChanges \/ StreamFails \/ StreamCloses PROVE IInv'
<1>1. streamOnly /\ TypeOK /\ changed' \in BOOLEAN
  BY DEF DockerChanges, StreamFails, StreamCloses, IInv, TypeOK
<1>2. stream' \in Events!Stream /\ stream'.open = stream.open /\ (stream'.open \/ stream' = NoStream)
  <2>1. \/ stream' = stream
        \/ Events!Deliver \/ Events!Fail \/ Events!Close
    BY DEF DockerChanges, StreamFails, StreamCloses
  <2>2. CASE stream' = stream
    BY <2>2 DEF IInv, TypeOK, StreamInv
  <2>3. CASE Events!Deliver \/ Events!Fail \/ Events!Close
    <3>1. stream' \in Events!Stream /\ stream.open /\ stream'.open
      BY <2>3, StreamKept DEF IInv, TypeOK, StreamInv
    <3>2. stream.open \in BOOLEAN /\ stream'.open \in BOOLEAN
      BY <3>1 DEF IInv, TypeOK, Events!Stream
    <3> QED
      BY <3>1, <3>2
  <2> QED
    BY <2>1, <2>2, <2>3
<1> USE DEF streamOnly, envVars
<1>3. TypeOK'
  <2>1. /\ ctxDone' \in BOOLEAN /\ serverDone' \in BOOLEAN /\ failed' \in BOOLEAN
        /\ applied' \in BOOLEAN /\ calm' \in BOOLEAN
    BY <1>1 DEF TypeOK
  <2>2. {ctxDone', serverDone', failed', changed', applied', calm'} \subseteq BOOLEAN
    BY <1>1, <2>1
  <2> QED
    BY <1>1, <1>2, <2>2 DEF TypeOK
<1>4. PendingInv' /\ StreamInv' /\ StopInv' /\ DelayInv'
  <2>1. PendingInv' /\ StopInv' /\ DelayInv'
    BY <1>1 DEF IInv, PendingInv, StopInv, DelayInv, stopReady
  <2>2. StreamInv'
    BY <1>1, <1>2 DEF IInv, StreamInv
  <2> QED
    BY <2>1, <2>2
<1>5. ConnectInv' /\ ScheduleInv' /\ DebounceInv'
  BY <1>1, <1>2 DEF IInv, ConnectInv, ScheduleInv, DebounceInv, Settled, Active, stopReady
<1>6. EventsConcernInv' /\ ConcernInv'
  BY <1>1 DEF IInv, EventsConcernInv, ConcernInv, Concerned, Settled, Active, stopReady
<1> QED
  BY <1>3, <1>4, <1>5, <1>6 DEF IInv

\* A reason to stop makes every claim about an active loop void; it never goes away.
LEMMA StopsInv ==
  ASSUME IInv, CancelContext \/ ServerStops \/ CalmDown \/ UNCHANGED vars
  PROVE  IInv'
<1>1. /\ UNCHANGED <<pc, loopVars, outcome, failed, changed, applied, owed>>
      /\ Active' => Active
      /\ ctxDone' \in BOOLEAN /\ serverDone' \in BOOLEAN /\ calm' \in BOOLEAN
  <2>1. ctxDone \in BOOLEAN /\ serverDone \in BOOLEAN /\ calm \in BOOLEAN
    BY DEF IInv, TypeOK
  <2>2. CASE CancelContext
    BY <2>1, <2>2 DEF CancelContext, stopOnly, Active, stopReady
  <2>3. CASE ServerStops
    BY <2>1, <2>3 DEF ServerStops, stopOnly, Active, stopReady
  <2>4. CASE CalmDown
    BY <2>1, <2>4 DEF CalmDown, stopOnly, Active, stopReady
  <2>5. CASE UNCHANGED vars
    BY <2>1, <2>5 DEF vars, envVars, Active, stopReady
  <2> QED
    BY <2>2, <2>3, <2>4, <2>5
<1> USE DEF loopVars
<1>2. TypeOK' /\ PendingInv' /\ StreamInv' /\ DelayInv' /\ DebounceInv' /\ EventsConcernInv'
  <2>1. TypeOK'
    <3>1. failed \in BOOLEAN /\ changed \in BOOLEAN /\ applied \in BOOLEAN
      BY DEF IInv, TypeOK
    <3>2. {ctxDone', serverDone', failed', changed', applied', calm'} \subseteq BOOLEAN
      BY <1>1, <3>1
    <3> QED
      BY <1>1, <3>2 DEF IInv, TypeOK
  <2>2. PendingInv' /\ StreamInv' /\ DelayInv'
    BY <1>1 DEF IInv, PendingInv, StreamInv, DelayInv
  <2>3. DebounceInv' /\ EventsConcernInv'
    BY <1>1 DEF IInv, DebounceInv, EventsConcernInv, Settled
  <2> QED
    BY <2>1, <2>2, <2>3
<1>3. StopInv'
  BY <1>1 DEF IInv, StopInv, Active
<1>4. ConnectInv' /\ ScheduleInv' /\ ConcernInv'
  BY <1>1 DEF IInv, ConnectInv, ScheduleInv, ConcernInv, Concerned, Settled
<1> QED
  BY <1>2, <1>3, <1>4 DEF IInv

\* Every step keeps the invariant.
LEMMA NextInv == IInv /\ [Next]_vars => IInv'
<1> SUFFICES ASSUME IInv, [Next]_vars PROVE IInv'
  OBVIOUS
<1>1. CASE Goroutine
  BY <1>1, StartStreamInv, StreamStartedInv, LeaveInv, TopInv, ReconcileInv, AfterInv,
     TimerInv, StreamHandlersInv DEF Goroutine, Select
<1>2. CASE Environment
  BY <1>2, TickInv, DockerInv, StopsInv DEF Environment
<1>3. CASE Finished \/ UNCHANGED vars
  BY <1>3, StopsInv DEF Finished
<1> QED
  BY <1>1, <1>2, <1>3 DEF Next

\* The invariant holds of every reachable state.
THEOREM Invariance == Spec => []IInv
BY InitInv, NextInv, PTL DEF Spec

-----------------------------------------------------------------------------
(***************************************************************************)
(* The safety properties, for all delays.                                  *)
(***************************************************************************)
\* Every variable keeps its type: no delay leaves its bounds.
THEOREM TypeCorrect == Spec => []TypeOK
<1>1. IInv => TypeOK
  BY DEF IInv
<1> QED
  BY <1>1, Invariance, PTL

\* A loop that blocks has a periodic timer, a stream or its reconnection, and a
\* retry where one is due, none of them later than the longest delay.
THEOREM AlwaysWoken == Spec => []NeverStranded
<1>1. IInv => NeverStranded
  <2> SUFFICES ASSUME IInv, Waiting PROVE NeverStranded
    BY DEF NeverStranded
  <2>1. pc = "select" /\ Active /\ ~pending
    BY DEF Waiting, Active, IInv, PendingInv
  <2>2. timer["periodic"] # Off /\ (lastReconcileFailure # "" => timer["retry"] # Off)
    BY <2>1 DEF IInv, ScheduleInv, Settled
  <2>3. stream.open <=> timer["reconnect"] = Off
    BY <2>1 DEF IInv, ConnectInv
  <2>4. /\ timer["retry"] <= MaxDelay /\ timer["reconnect"] <= MaxDelay
        /\ timer["stability"] # Off => stream.open
    BY DEF IInv, DelayInv, StreamInv
  <2> QED
    BY <2>2, <2>3, <2>4 DEF NeverStranded
<1> QED
  BY <1>1, Invariance, PTL

\* However events keep arriving, debouncing never holds an answer back longer
\* than MaxDebounceDelay.
THEOREM DebounceBounded == Spec => []EventAnsweredInTime
<1>1. IInv => EventAnsweredInTime
  <2> SUFFICES ASSUME IInv, pc = "select" PROVE owed <= MaxDebounceDelay
    BY DEF EventAnsweredInTime
  <2>1. /\ ~pending /\ owed \in Nat \cup {Off} /\ timer["maximum"] \in Nat \cup {Off}
    BY DEF IInv, PendingInv, TypeOK, Timer
  <2>2. owed # Off => timer["maximum"] # Off /\ owed + timer["maximum"] <= MaxDebounceDelay
    BY <2>1 DEF IInv, DebounceInv, Settled
  <2>3. CASE owed = Off
    BY <2>3, Delays DEF Off
  <2>4. CASE owed # Off
    BY <2>1, <2>2, <2>4, Delays
  <2> QED
    BY <2>3, <2>4
<1> QED
  BY <1>1, Invariance, PTL

\* While the loop waits, the tracker's concerns are the last attempts that failed.
THEOREM HealthIsTruthful == Spec => []HealthTruthful
<1>1. IInv => HealthTruthful
  BY DEF IInv, EventsConcernInv, ConcernInv, Concerned, Settled, Active, HealthTruthful,
     Waiting
<1> QED
  BY <1>1, Invariance, PTL

\* No stream context outlives the loop, and there are never two.
THEOREM ContextsCancelled == Spec => []StreamsCancelled
<1>1. IInv => StreamsCancelled
  BY DEF IInv, StreamInv, StreamsCancelled
<1> QED
  BY <1>1, Invariance, PTL

\* The reconnect delay falls only after the stream has proved itself.
LEMMA BackoffSteps ==
  ASSUME IInv, [Next]_vars, reconnectDelay' < reconnectDelay
  PROVE  stream.events > 0 \/ (~stream.error /\ stream.ended \in {"no", "failing"})
<1>1. TypeOK /\ StreamInv /\ reconnectDelay \in Nat
  BY Delays DEF IInv, TypeOK, Delay
<1>2. reconnectDelay' # reconnectDelay
  BY <1>1
<1>3. ASSUME NEW message \in {"error", "closed"}, disconnectStream(message) PROVE FALSE
  <2>1. reconnectDelay' \in Delay /\ reconnectDelay' >= reconnectDelay
    BY <1>1, <1>3, DisconnectDoes DEF Disconnected
  <2>2. reconnectDelay' \in Nat
    BY <2>1, Delays
  <2> QED
    BY <1>1, <2>1, <2>2
<1>4. ~StartStream /\ ~StreamStarted /\ ~SelectEventsClosed /\ ~SelectStreamError
  BY <1>2, <1>3 DEF StartStream, StreamStarted, SelectEventsClosed, SelectStreamError,
     StreamError
<1>5. CASE SelectEvent
  BY <1>5 DEF SelectEvent
<1>6. CASE SelectStability
  <2>1. stream.ended \in {"no", "failing", "errorsClosed", "closed"}
    BY <1>1 DEF TypeOK, Events!Stream
  <2>2. StreamError \in {"error", "closed"}
    BY DEF StreamError
  <2> QED
    BY <1>2, <1>3, <1>6, <2>1, <2>2 DEF SelectStability
<1>7. CASE UNCHANGED reconnectDelay
  BY <1>2, <1>7
<1>8. CASE Next
  BY <1>4, <1>5, <1>6, <1>7, <1>8
  DEF Next, Goroutine, Select, Environment, Finished, vars, loopVars, LoopStop, SelectStop,
      Leave, BeginReconcile, EnterSelect, SnapshotSucceeds, SnapshotFails, ApplySucceeds,
      ApplyFails, ReconcileFails, reconcileUnchanged, AfterReconcile, SelectReconcile,
      SelectReconnect, Tick, DockerChanges, StreamFails, StreamCloses, streamOnly,
      CancelContext, ServerStops, CalmDown, stopOnly
<1> QED
  BY <1>7, <1>8 DEF vars, loopVars

(***************************************************************************)
(* The reconnect delay shrinks only after a sign of life from the stream,  *)
(* so a daemon that can connect but not stay connected keeps backing off.  *)
(***************************************************************************)
THEOREM BackoffIsKept == Spec => BackoffKept
<1>1. IInv /\ [Next]_vars
        => [reconnectDelay' < reconnectDelay =>
              stream.events > 0 \/ (~stream.error /\ stream.ended \in {"no", "failing"})]_vars
  BY BackoffSteps
<1> QED
  BY <1>1, Invariance, PTL DEF Spec, BackoffKept

-----------------------------------------------------------------------------
(***************************************************************************)
(* The refinement: Run sees only whether the loop reconciles, the concerns *)
(* of its reconciliations and how it returned.                             *)
(***************************************************************************)
At == IF pc = "done" THEN "returned" ELSE IF pc \in {"snapshot", "apply"} THEN "busy" ELSE "idle"

\* The initial reconciliation has failed exactly if it left a concern.
LEMMA InitRefines == Init => Contract!Init
<1> SUFFICES ASSUME Init PROVE Contract!Init
  OBVIOUS
<1>1. pc = "connect" /\ outcome = "none" /\ ctxDone \in BOOLEAN /\ serverDone \in BOOLEAN
  BY DEF Init
<1>2. failed = (lastReconcileFailure # "")
  BY DEF Init
<1>3. Concerned <=> failed
  BY DEF Init, Concerned
<1> QED
  BY <1>1, <1>2, <1>3 DEF Contract!Init, Concerned

\* What Run cannot see.
LEMMA Invisible ==
  ASSUME UNCHANGED <<failed, outcome, ctxDone, serverDone>>, At' = At, Concerned' = Concerned
  PROVE  UNCHANGED Contract!vars
BY DEF Contract!vars, At, Concerned

\* The handlers of the stream, opening it, and the scheduling of the next
\* reconciliation do not touch the concerns of reconciliations.
LEMMA HandlersInvisible ==
  ASSUME IInv,
         \/ StartStream \/ StreamStarted \/ EnterSelect \/ AfterReconcile
         \/ SelectEvent \/ SelectEventsClosed \/ SelectStreamError \/ SelectStability
         \/ (\E t \in ReconcileTimer : SelectReconcile(t)) \/ SelectReconnect
  PROVE  UNCHANGED Contract!vars
<1>1. /\ pc \in {"connect", "connecting", "top", "after", "select"}
      /\ pc' \in {"connect", "connecting", "top", "after", "select"}
      /\ UNCHANGED <<failed, outcome, ctxDone, serverDone>>
  BY DEF StartStream, StreamStarted, EnterSelect, AfterReconcile, SelectEvent,
     SelectEventsClosed, SelectStreamError, SelectStability, streamCase, SelectReconcile,
     SelectReconnect, Fired, envVars
<1>2. At' = At
  BY <1>1 DEF At
<1>3. ASSUME NEW message, disconnectStream(message) PROVE Concerned' = Concerned
  BY <1>3 DEF disconnectStream, Concerned
<1>4. ASSUME NEW newTimer, recoverStream(newTimer) PROVE Concerned' = Concerned
  BY <1>4 DEF recoverStream, Concerned
<1>5. ASSUME UNCHANGED active PROVE Concerned' = Concerned
  BY <1>5 DEF Concerned
<1>6. ASSUME observeEvent PROVE Concerned' = Concerned
  BY <1>4, <1>5, <1>6 DEF observeEvent
<1>7. Concerned' = Concerned
  BY <1>3, <1>4, <1>5, <1>6
  DEF StartStream, StreamStarted, EnterSelect, AfterReconcile, SelectEvent,
      SelectEventsClosed, SelectStreamError, SelectStability, SelectReconcile,
      SelectReconnect, loopVars
<1> QED
  BY <1>1, <1>2, <1>7, Invisible

\* A reconciliation begins, loses its only concern, or ends.
LEMMA ReconcileRefines ==
  ASSUME IInv, \/ BeginReconcile \/ SnapshotSucceeds \/ SnapshotFails \/ ApplySucceeds \/ ApplyFails
  PROVE  [Contract!Next]_(Contract!vars)
<1>1. CASE BeginReconcile
  <2>1. Contract!Begin
    BY <1>1 DEF BeginReconcile, Contract!Begin, Contract!stops, stopReady, envVars
  <2> QED
    BY <2>1 DEF Contract!Next
<1>2. CASE SnapshotSucceeds
  <2>1. /\ pc = "snapshot" /\ pc' = "apply" /\ active' = active \ {"snapshot"}
        /\ UNCHANGED <<failed, outcome, ctxDone, serverDone>>
    BY <1>2 DEF SnapshotSucceeds, reconcileUnchanged, envVars
  <2>2. At = "busy" /\ At' = "busy"
    BY <2>1 DEF At
  <2>3. CASE Concerned /\ ~Concerned'
    BY <2>1, <2>3 DEF Contract!Next, Contract!Clear, Contract!stops, Concerned
  <2>4. CASE Concerned' = Concerned
    BY <2>1, <2>2, <2>4, Invisible
  <2> QED
    BY <2>1, <2>3, <2>4 DEF Concerned
<1>3. CASE SnapshotFails \/ ApplyFails
  <2>1. /\ pc \in {"snapshot", "apply"} /\ pc' = "after" /\ failed' = TRUE
        /\ Concerned' \/ (ctxDone /\ Concerned' = Concerned)
        /\ UNCHANGED <<outcome, ctxDone, serverDone>>
    BY <1>3 DEF SnapshotFails, ApplyFails, ReconcileFails, reconcileUnchanged, envVars,
       Concerned
  <2>2. Contract!End
    BY <2>1 DEF Contract!End, Contract!stops, Concerned
  <2> QED
    BY <2>2 DEF Contract!Next
<1>4. CASE ApplySucceeds
  <2>1. /\ pc = "apply" /\ pc' = "after" /\ failed' = failed /\ active' = active \ {"apply"}
        /\ UNCHANGED <<outcome, ctxDone, serverDone>>
    BY <1>4 DEF ApplySucceeds, reconcileUnchanged, envVars
  <2>2. failed = FALSE /\ ~Concerned'
    BY <2>1 DEF IInv, TypeOK, ConcernInv, Concerned
  <2>3. Contract!End
    BY <2>1, <2>2 DEF Contract!End, Contract!stops, Concerned
  <2> QED
    BY <2>3 DEF Contract!Next
<1> QED
  BY <1>1, <1>2, <1>3, <1>4

\* Every step of the loop and of its environment.
LEMMA StepRefines == IInv /\ [Next]_vars => [Contract!Next]_(Contract!vars)
<1> SUFFICES ASSUME IInv, [Next]_vars PROVE [Contract!Next]_(Contract!vars)
  OBVIOUS
<1>1. CASE LoopStop \/ SelectStop
  <2>1. /\ pc \in {"top", "select"} /\ pc' = "done" /\ UNCHANGED <<active, failed, envVars>>
        /\ (ctxDone /\ outcome' = "nil") \/ (serverDone /\ outcome' = "server")
    BY <1>1 DEF LoopStop, SelectStop, Leave, stopReady
  <2>2. Contract!Return
    BY <2>1 DEF Contract!Return, Contract!stops, envVars
  <2> QED
    BY <2>2 DEF Contract!Next
<1>2. CASE BeginReconcile \/ SnapshotSucceeds \/ SnapshotFails \/ ApplySucceeds \/ ApplyFails
  BY <1>2, ReconcileRefines
<1>3. CASE \/ StartStream \/ StreamStarted \/ EnterSelect \/ AfterReconcile
           \/ SelectEvent \/ SelectEventsClosed \/ SelectStreamError \/ SelectStability
           \/ (\E t \in ReconcileTimer : SelectReconcile(t)) \/ SelectReconnect
  BY <1>3, HandlersInvisible
<1>4. CASE Tick \/ DockerChanges \/ StreamFails \/ StreamCloses \/ Finished \/ UNCHANGED vars
  <2>1. UNCHANGED <<pc, active, failed, outcome, ctxDone, serverDone>>
    BY <1>4 DEF Tick, DockerChanges, StreamFails, StreamCloses, streamOnly, Finished, vars,
                loopVars, envVars
  <2>2. At' = At /\ Concerned' = Concerned
    BY <2>1 DEF At, Concerned
  <2> QED
    BY <2>1, <2>2, Invisible
<1>5. CASE CancelContext \/ ServerStops \/ CalmDown
  <2>1. /\ UNCHANGED <<pc, active, failed, outcome>>
        /\ ctxDone => ctxDone'
        /\ serverDone => serverDone'
    BY <1>5 DEF CancelContext, ServerStops, CalmDown, stopOnly, loopVars
  <2>2. Contract!Stop
    BY <2>1 DEF Contract!Stop
  <2> QED
    BY <2>2 DEF Contract!Next
<1> QED
  BY <1>1, <1>2, <1>3, <1>4, <1>5 DEF Next, Goroutine, Select, Environment

\* The loop keeps its promise to Daemon.Run: Lifecycle may use the contract in
\* its place.
THEOREM Refinement == Spec => ImplementsContract
BY InitRefines, StepRefines, Invariance, PTL DEF Spec, ImplementsContract, Contract!Spec
=============================================================================
