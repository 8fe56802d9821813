--------------------------- MODULE LifecycleProofs ---------------------------
(***************************************************************************)
(* Theorems about Lifecycle: the whole process, from runDaemonWith to its  *)
(* exit, with every interleaving of its three goroutines.                  *)
(***************************************************************************)
EXTENDS Lifecycle, FiniteSetTheorems, TLAPS

(***************************************************************************)
(* The properties speak of the end of the process; what makes them true    *)
(* happened long before, in another goroutine.  The invariant says, for    *)
(* each part of the program, which of those things may have happened.      *)
(***************************************************************************)
Early    == {"lock", "newDocker", "newDaemon", "run", "ping", "pinged", "begin", "start"}
Unserved == Early \cup {"callFailed"}
Startup  == {"watch", "stopParent", "stopServer", "prepare", "prepareFailed", "reconcile",
             "complete", "completing", "loop"}
Draining == {"drain", "awaitDone", "wait"}
Closing  == {"closeSource", "unlock", "exited"}
Joining  == {"join", "cleanup", "shutdown"} \cup Draining \cup Closing
Ending   == {"finish"} \cup Joining

\* The serving goroutine ends with an error, or because it is shut down.
ServerInv ==
  /\ "serve" \in faults <=> ret = "error"
  /\ serving \in {"off", "serving"} => ret = ""
  /\ err = IF serving \in {"stored", "done"} THEN ret ELSE ""
  /\ serving \in {"returned", "stored", "done"} /\ ret = "" => inShutdown
  /\ inShutdown => pc \in Draining \cup Closing
  /\ pc \in Unserved => serving = "off"
  /\ pc \in Startup \cup Draining \cup {"shutdown"} => serving # "off"
  /\ pc \in Closing => serving \in {"off", "done"}

\* Before Run cancels its own context, only the watcher can have done it.
WatcherInv ==
  /\ pc \in Unserved \cup {"watch"} => watcher = "none"
  /\ pc \in Joining \ {"join"} => watcher # "waiting"
  /\ cancelled => ServerDone \/ pc \in Joining

\* A call fails of itself or because its context is cancelled.
CallInv ==
  /\ pc = "callFailed" => call \in {"ping", "start"} /\ (call \in faults \/ parentDone)
  /\ pc = "prepareFailed" => \/ call = "fault" /\ "prepare" \in faults
                             \/ call = "ctx" /\ CtxDone

\* Every error on record is one that happened, and nothing is forgotten.
ReportInv ==
  /\ \A e \in Joined : errs[e] = "" \/ errs[e] \in faults
  /\ drained = "" \/ drained \in faults
  /\ captured => ServerDone /\ err = "error" /\ errs["run"] = "serve"
  /\ ~captured => errs["run"] # "serve"
  /\ completed => ret = "error"
  /\ pc \notin Ending => ~captured /\ ~completed
  /\ pc \in Ending => errs["run"] # "" \/ parentDone \/ ret = "error"
  /\ errs["serve"] = IF pc \in Closing /\ ~captured /\ err # "" THEN "serve" ELSE ""

\* The source and the lock.
OwnedInv ==
  /\ source = "open" => pc \notin {"lock", "newDocker", "unlock", "exited"}
  /\ pc \in {"lock", "exited"} => lock = "free"

\* The initial reconciliation ran to its end and the tracker knows its result.
Attempted == attempted /\ concern = failed

StartupInv ==
  /\ pc = "start" => ~ready
  /\ serving # "off" /\ ready => attempted
  /\ pc \in {"complete", "completing"} => Attempted
  /\ pc = "stopParent" /\ next \in {"complete", "loop"} => Attempted \/ CtxDone
  /\ pc = "stopServer" /\ next \in {"complete", "loop"} => Attempted \/ cancelled
  /\ pc \notin Ending \cup {"loop"} => loopAt = "idle" /\ outcome = "none"

IInv == /\ TypeOK /\ ServerInv /\ WatcherInv /\ CallInv /\ ReportInv /\ OwnedInv
        /\ StartupInv

-----------------------------------------------------------------------------
\* The process begins in the invariant.
LEMMA Initially == Init => IInv
<1>1. ASSUME Init PROVE TypeOK
  BY <1>1 DEF Init, TypeOK, Joined, ErrorName
<1>2. ASSUME Init PROVE ServerInv /\ WatcherInv /\ CallInv /\ OwnedInv /\ StartupInv
  BY <1>2 DEF Init, ServerInv, WatcherInv, CallInv, OwnedInv, StartupInv, Ending, Joining,
     Draining, Closing, Startup, Unserved, Early, ServerDone, CtxDone
<1>3. ASSUME Init PROVE ReportInv
  BY <1>3 DEF Init, ReportInv, Ending, Joining, Draining, Closing, ServerDone, Joined
<1>4. QED
  BY <1>1, <1>2, <1>3 DEF IInv

\* The parts of TypeOK, the Boolean variables apart.
Flags == /\ parentDone \in BOOLEAN /\ cancelled \in BOOLEAN /\ inShutdown \in BOOLEAN
         /\ ready \in BOOLEAN /\ attempted \in BOOLEAN /\ concern \in BOOLEAN
         /\ failed \in BOOLEAN /\ captured \in BOOLEAN /\ completed \in BOOLEAN

AtPlace == pc \in Unserved \cup Startup \cup Ending
ControlType == /\ next \in {"prepare", "reconcile", "complete", "loop"}
               /\ call \in {"", "ping", "start", "fault", "ctx"}
ServerType ==
  /\ serving \in {"off", "serving", "returned", "stored", "done"}
  /\ ret \in {"", "error"} /\ err \in {"", "error"} /\ drained \in {"", "shutdown"}
LoopType == loopAt \in {"idle", "busy", "returned"} /\ outcome \in {"none", "nil", "server"}
OwnedType == /\ watcher \in {"none", "waiting", "ended"}
             /\ source \in {"none", "open", "closed"} /\ lock \in {"free", "held"}
Record == errs \in [Joined -> ErrorName \cup {""}] /\ faults \subseteq ErrorName

Types == Flags /\ AtPlace /\ ControlType /\ ServerType /\ LoopType /\ OwnedType /\ Record

\* TypeOK is the conjunction of its parts.
LEMMA TypesSplit == (TypeOK <=> Types) /\ (TypeOK' <=> Types')
<1> USE DEF TypeOK, Types, Flags, AtPlace, ControlType, ServerType, LoopType, OwnedType,
            Record, Unserved, Early, Startup, Ending, Joining, Draining, Closing
<1>1. TypeOK <=> Types
  OBVIOUS
<1>2. TypeOK' <=> Types'
  OBVIOUS
<1>3. QED
  BY <1>1, <1>2

\* One more error is on record, together with the fault it reports.
Recorded ==
  \E e \in Joined, f \in ErrorName \ {"serve"} :
     /\ e # "serve" /\ errs' = [errs EXCEPT ![e] = f]
     /\ faults' = faults \cup {f}

\* What the bookkeeping of errors may do to the record, whatever the step.
Honest ==
  /\ errs' \in [Joined -> ErrorName \cup {""}] /\ faults' \subseteq ErrorName
  /\ \A e \in Joined : \/ errs'[e] = errs[e]
                       \/ errs'[e] \in faults' /\ errs'[e] \notin {"", "serve"}
  /\ errs'["serve"] = errs["serve"]
  /\ faults \subseteq faults' /\ ("serve" \in faults' => "serve" \in faults)

\* An error recorded with its fault keeps the record honest.
LEMMA RecordedIsHonest ==
  ASSUME TypeOK, (errs' = errs /\ faults' = faults) \/ Recorded
  PROVE  Honest
<1>1. /\ errs \in [Joined -> ErrorName \cup {""}] /\ faults \subseteq ErrorName
      /\ "serve" \in Joined /\ "" \notin ErrorName
  BY DEF TypeOK, Joined, ErrorName
<1>2. CASE errs' = errs /\ faults' = faults
  BY <1>1, <1>2 DEF Honest
<1>3. CASE Recorded
  <2>1. PICK e \in Joined, f \in ErrorName \ {"serve"} :
           /\ e # "serve" /\ errs' = [errs EXCEPT ![e] = f]
           /\ faults' = faults \cup {f}
    BY <1>3 DEF Recorded
  <2>2. QED
    BY <1>1, <2>1 DEF Honest
<1>4. QED
  BY <1>2, <1>3

\* The steps of runDaemonWith itself.
LEMMA WiringKeeps ==
  ASSUME IInv, LockHostsFile \/ NewDocker \/ NewDaemon \/ CloseSource \/ Unlock
  PROVE  IInv'
<1>1. Honest
  <2>1. TypeOK
    BY DEF IInv
  <2>2. (errs' = errs /\ faults' = faults) \/ Recorded
    BY DEF LockHostsFile, NewDocker, NewDaemon, CloseSource, Unlock, Fault, Recorded,
       Joined, ErrorName
  <2>3. QED
    BY <2>1, <2>2, RecordedIsHonest
<1>2. /\ wiring
      /\ \/ pc = "lock" /\ pc' = "newDocker" /\ lock' = "held" /\ source' = source
         \/ pc = "lock" /\ pc' = "exited" /\ lock' = lock /\ source' = source
         \/ pc = "newDocker" /\ pc' = "newDaemon" /\ source' = "open" /\ lock' = lock
         \/ pc = "newDocker" /\ pc' = "unlock" /\ lock' = lock /\ source' = source
         \/ pc = "newDaemon" /\ pc' \in {"run", "closeSource"} /\ lock' = lock /\ source' = source
         \/ pc = "closeSource" /\ pc' = "unlock" /\ source' = "closed" /\ lock' = lock
         \/ pc = "unlock" /\ pc' = "exited" /\ lock' = "free" /\ source' = source
      /\ pc = "newDaemon" /\ pc' = "closeSource" => errs'["run"] # ""
      /\ pc \in {"lock", "newDocker"} /\ pc' \in {"exited", "unlock"} => errs'["run"] # ""
      /\ pc \in {"closeSource", "unlock"} => errs'["run"] = errs["run"]
  BY DEF LockHostsFile, NewDocker, NewDaemon, CloseSource, Unlock, Goto, IInv, TypeOK,
     Joined
<1> USE DEF wiring, contexts, server, loop, health
<1>3. TypeOK'
  <2>1. Flags'
    BY <1>2, TypesSplit DEF IInv, Types, Flags
  <2>2. AtPlace'
    BY <1>2 DEF AtPlace, Unserved, Early, Ending, Joining, Closing
  <2>3. ControlType' /\ ServerType' /\ LoopType'
    <3>1. Types
      BY TypesSplit DEF IInv
    <3>2. ControlType' /\ LoopType'
      BY <1>2, <3>1 DEF Types, ControlType, LoopType
    <3>3. ServerType'
      BY <1>2, <3>1 DEF Types, ServerType
    <3>4. QED
      BY <3>2, <3>3
  <2>4. OwnedType'
    BY <1>2, TypesSplit DEF IInv, Types, OwnedType
  <2>5. QED
    BY <1>1, <2>1, <2>2, <2>3, <2>4, TypesSplit DEF Honest, Record, Types
<1>4. ServerInv'
  BY <1>1, <1>2 DEF IInv, ServerInv, Honest, Closing, Unserved, Early, Startup, Draining
<1>5. WatcherInv' /\ CallInv' /\ OwnedInv' /\ StartupInv'
  BY <1>2 DEF IInv, WatcherInv, CallInv, OwnedInv, StartupInv, Ending, Joining, Closing,
     Unserved, Early, Startup, Draining, ServerDone, CtxDone, Attempted
<1>6. ReportInv'
  <2>1. "serve" \in Joined /\ "run" \in Joined
    BY DEF Joined
  <2>2. pc # "unlock" /\ pc # "closeSource" =>
          ~captured /\ ~completed /\ err = "" /\ serving = "off" /\ errs["serve"] = ""
    BY <1>2 DEF IInv, ReportInv, ServerInv, Ending, Joining, Draining, Closing, Unserved,
       Early
  <2>3. QED
  BY <1>1, <1>2, <2>1, <2>2 DEF IInv, ReportInv, Honest, Ending, Joining, Draining, Closing,
     ServerDone
<1>9. QED
  BY <1>3, <1>4, <1>5, <1>6 DEF IInv

-----------------------------------------------------------------------------
\* Whoever decides to finish gives the error its right name, and has a reason.
Justified(runErr, serveErrCaptured) ==
  /\ runErr = "" \/ (runErr \in faults /\ runErr \in ErrorName)
  /\ serveErrCaptured \in BOOLEAN /\ (serveErrCaptured <=> runErr = "serve")
  /\ serveErrCaptured => ServerDone /\ err = "error"
  /\ runErr # "" \/ parentDone \/ ret = "error"

\* A justified finish keeps the invariant, whichever step takes it.
LEMMA FinishKeeps ==
  ASSUME IInv, NEW runErr, NEW serveErrCaptured, Justified(runErr, serveErrCaptured),
         pc \notin Ending, finish(runErr, serveErrCaptured),
         pc \notin {"lock", "newDocker"},
         UNCHANGED <<contexts, server, concern, failed, health, owned, faults>>,
         loopAt' \in {"idle", "busy", "returned"}, outcome' \in {"none", "nil", "server"}
  PROVE  IInv'
<1> USE DEF finish, contexts, server, health, owned, Early, Startup, Ending, Joining,
            Draining, Closing, Unserved, ServerDone, CtxDone
<1>0. Types
  BY TypesSplit DEF IInv
<1>1. Flags' /\ AtPlace' /\ ControlType' /\ ServerType' /\ LoopType' /\ OwnedType'
  <2>1. Flags' /\ AtPlace'
    BY <1>0 DEF Types, Flags, AtPlace, Justified
  <2>2. ControlType' /\ ServerType'
    BY <1>0 DEF Types, ControlType, ServerType
  <2>3. LoopType' /\ OwnedType'
    BY <1>0 DEF Types, LoopType, OwnedType
  <2>4. QED
    BY <2>1, <2>2, <2>3
<1>2. Record' /\ errs'["run"] = runErr /\ \A e \in Joined \ {"run"} : errs'[e] = errs[e]
  BY <1>0 DEF Types, Record, Justified, Joined
<1>3. ServerInv' /\ WatcherInv' /\ CallInv' /\ OwnedInv' /\ StartupInv'
  BY DEF IInv, ServerInv, WatcherInv, CallInv, OwnedInv, StartupInv
<1>4. ReportInv'
  <2>1. \A e \in Joined : errs'[e] = "" \/ errs'[e] \in faults'
    <3>1. \A e \in Joined : errs[e] = "" \/ errs[e] \in faults
      BY DEF IInv, ReportInv
    <3>2. faults' = faults /\ (runErr = "" \/ runErr \in faults)
      BY DEF Justified
    <3>3. QED
      BY <1>2, <3>1, <3>2
  <2>2. errs'["serve"] = errs["serve"] /\ errs'["run"] = runErr /\ pc' = "finish"
    BY <1>2 DEF Joined
  <2>3. QED
    BY <2>1, <2>2 DEF IInv, ReportInv, Justified
<1>5. QED
  BY <1>1, <1>2, <1>3, <1>4, TypesSplit DEF IInv, Types

\* Before the cleanup a server that is done has failed.
LEMMA DoneIsFailed ==
  ASSUME IInv, ServerDone, pc \notin Ending
  PROVE  err = "error" /\ ret = "error" /\ ServeError = "serve" /\ "serve" \in faults
  BY TypesSplit DEF IInv, Types, ServerType, ServerInv, ServerDone, ServeError, Ending,
     Joining, Draining, Closing

\* Before the cleanup the context is cancelled by the caller or by the watcher.
LEMMA CancelledIsFailed ==
  ASSUME IInv, CtxDone, pc \notin Ending
  PROVE  parentDone \/ ret = "error"
<1>1. parentDone \/ ServerDone
  BY DEF IInv, WatcherInv, CtxDone, Ending
<1>2. QED
  BY <1>1, DoneIsFailed

\* Every way into finish.
Finishing ==
  /\ pc' = "finish"
  /\ \/ Enter \/ CallFailed \/ StopParent \/ StopServer \/ PrepareFailed \/ LoopReturns

\* Each way into finish is justified.
LEMMA FinishingKeeps ==
  ASSUME IInv, Finishing
  PROVE  IInv'
<1>1. SUFFICES \E runErr \in {""} \cup ErrorName, serveErrCaptured \in BOOLEAN :
                  Justified(runErr, serveErrCaptured) /\ finish(runErr, serveErrCaptured)
  <2>1. /\ pc \notin Ending \cup {"lock", "newDocker"}
        /\ UNCHANGED <<contexts, server, concern, failed, health, owned, faults>>
        /\ loopAt' \in {"idle", "busy", "returned"} /\ outcome' \in {"none", "nil", "server"}
    BY TypesSplit DEF IInv, Types, LoopType, Finishing, Enter, CallFailed, StopParent,
       StopServer, PrepareFailed, LoopReturns, L!Return, loop, Goto, Ending, Joining,
       Draining, Closing, CtxDone, ServerDone, L!stops
  <2>2. QED
    BY <2>1, FinishKeeps
<1>e. /\ "" \notin ErrorName /\ "prepare" # "serve"
      /\ {"serve", "prepare", "ping", "start"} \subseteq ErrorName
  BY DEF ErrorName
<1>2. CASE Enter
  <2>1. finish("", FALSE) /\ parentDone
    BY <1>2 DEF Enter, Finishing, Goto
  <2>2. QED
    BY <2>1, <1>e DEF Justified
<1>3. CASE CallFailed
  <2>1. call \in {"ping", "start"} /\ (call \in faults \/ parentDone)
    BY <1>3 DEF CallFailed, IInv, CallInv
  <2>2. finish(IF parentDone THEN "" ELSE call, FALSE)
    BY <1>3 DEF CallFailed
  <2>3. QED
    BY <2>1, <2>2, <1>e DEF Justified
<1>4. CASE StopParent
  <2>1. finish("", FALSE) /\ parentDone
    BY <1>4 DEF StopParent, Finishing, Goto
  <2>2. QED
    BY <2>1, <1>e DEF Justified
<1>5. CASE StopServer
  <2>1. pc = "stopServer" /\ ServerDone /\ finish(ServeError, TRUE)
    BY <1>5, TypesSplit DEF StopServer, Finishing, Goto, IInv, Types, ControlType
  <2>2. QED
    BY <2>1, <1>e, DoneIsFailed DEF Justified, Ending, Joining, Draining, Closing
<1>6. CASE PrepareFailed
  <2>1. /\ pc = "prepareFailed"
        /\ finish(IF ~parentDone /\ (~CtxDone \/ call = "fault") THEN "prepare" ELSE "", FALSE)
    BY <1>6 DEF PrepareFailed
  <2>2. \/ call = "fault" /\ "prepare" \in faults
        \/ call = "ctx" /\ CtxDone
    BY <2>1 DEF IInv, CallInv
  <2>3. CtxDone => parentDone \/ ret = "error"
    BY <2>1, CancelledIsFailed DEF Ending, Joining, Draining, Closing
  <2>4. CASE ~parentDone /\ (~CtxDone \/ call = "fault")
    BY <2>1, <2>2, <2>3, <2>4, <1>e DEF Justified
  <2>5. CASE ~(~parentDone /\ (~CtxDone \/ call = "fault"))
    BY <2>1, <2>2, <2>3, <2>5, <1>e DEF Justified
  <2>6. QED
    BY <2>4, <2>5
<1>7. CASE LoopReturns
  <2>1. pc = "loop" /\ finish(IF outcome' = "server" THEN ServeError ELSE "", outcome' = "server")
    BY <1>7 DEF LoopReturns
  <2>2. (CtxDone /\ outcome' = "nil") \/ (ServerDone /\ outcome' = "server")
    BY <1>7 DEF LoopReturns, L!Return
  <2>3. pc \notin Ending
    BY <2>1 DEF Ending, Joining, Draining, Closing
  <2>4. CASE outcome' = "server"
    <3>1. finish("serve", TRUE)
      BY <2>1, <2>2, <2>3, <2>4, DoneIsFailed
    <3>2. QED
    BY <3>1, <2>2, <2>3, <2>4, <1>e, DoneIsFailed DEF Justified
  <2>5. CASE outcome' = "nil"
    <3>1. finish("", FALSE)
      BY <2>1, <2>5
    <3>2. QED
    BY <3>1, <2>2, <2>3, <2>5, <1>e, CancelledIsFailed DEF Justified
  <2>6. QED
    BY <2>2, <2>4, <2>5
<1>8. QED
  BY <1>2, <1>3, <1>4, <1>5, <1>6, <1>7 DEF Finishing

-----------------------------------------------------------------------------
\* The startup goes on: nothing is recorded but the fault of a call.
Advancing ==
  /\ pc' # "finish"
  /\ \/ Enter \/ Ping \/ BeginInitialization \/ Start \/ Watch
     \/ StopParent \/ StopServer \/ Prepare \/ Reconcile \/ Complete
     \/ CompleteInitialization \/ LoopRuns

\* The fault of a call other than Serve.
Faulty == /\ faults' \subseteq ErrorName /\ faults \subseteq faults'
          /\ "serve" \in faults' => "serve" \in faults

\* Where such a step leads, and what it does on the way.
AdvancingEffect ==
  /\ pc \in (Early \cup Startup) \ {"lock", "newDocker", "newDaemon"}
  /\ pc' \in (Unserved \cup Startup) \ {"lock", "newDocker", "newDaemon"}
  /\ \/ serving' = serving /\ pc \in Early /\ pc' \in Unserved
     \/ serving' = serving /\ pc \in Startup /\ pc' \in Startup \ {"watch"}
     \/ serving' = "serving" /\ pc = "start" /\ pc' = "watch"
  /\ watcher' = IF pc = "watch" THEN "waiting" ELSE watcher
  /\ pc' = "callFailed" => /\ call' \in {"ping", "start"} /\ (call' \in faults' \/ CtxDone)
  /\ pc' = "prepareFailed" => \/ call' = "fault" /\ "prepare" \in faults'
                              \/ call' = "ctx" /\ CtxDone
  /\ UNCHANGED <<parentDone, cancelled, ret, err, inShutdown, captured, completed, drained,
                 errs, source, lock>>

\* A step of the startup has that effect.
LEMMA AdvancingFrame ==
  ASSUME IInv, Advancing
  PROVE  AdvancingEffect /\ Faulty
<1> USE DEF Advancing, Enter, Ping, BeginInitialization, Start, Watch, StopParent,
            StopServer, Prepare, Reconcile, Complete, CompleteInitialization, LoopRuns,
            Goto, finish, server, owned, health, control, contexts, report
<1>1. next \in {"prepare", "reconcile", "complete", "loop"} /\ faults \subseteq ErrorName
  BY TypesSplit DEF IInv, Types, ControlType, Record
<1>2. /\ pc \in (Early \cup Startup) \ {"lock", "newDocker", "newDaemon"}
      /\ pc' \in (Unserved \cup Startup) \ {"lock", "newDocker", "newDaemon"}
  BY <1>1 DEF Unserved, Early, Startup
<1>3. UNCHANGED <<parentDone, cancelled, ret, err, inShutdown, captured, completed, drained,
                  errs, source, lock>>
  OBVIOUS
<1>4. Faulty
  <2>1. faults' = faults \/ \E f \in {"ping", "start", "prepare"} : faults' = faults \cup {f}
    BY DEF Fault
  <2>2. QED
    BY <1>1, <2>1 DEF Faulty, ErrorName
<1>5. \/ serving' = serving /\ pc \in Early /\ pc' \in Unserved
      \/ serving' = serving /\ pc \in Startup /\ pc' \in Startup \ {"watch"}
      \/ serving' = "serving" /\ pc = "start" /\ pc' = "watch"
  BY <1>1 DEF Unserved, Early, Startup
<1>6. watcher' = IF pc = "watch" THEN "waiting" ELSE watcher
  OBVIOUS
<1>7. pc' = "callFailed" => call' \in {"ping", "start"} /\ (call' \in faults' \/ CtxDone)
  BY <1>1 DEF Fault
<1>8. pc' = "prepareFailed" => \/ call' = "fault" /\ "prepare" \in faults'
                               \/ call' = "ctx" /\ CtxDone
  BY <1>1 DEF Fault
<1>9. QED
  BY <1>2, <1>3, <1>4, <1>5, <1>6, <1>7, <1>8 DEF AdvancingEffect

\* So it keeps the invariant.
LEMMA AdvancingKeeps ==
  ASSUME IInv, Advancing
  PROVE  IInv'
<1>1. AdvancingEffect /\ Faulty
  BY AdvancingFrame
<1>2. Types
  BY TypesSplit DEF IInv
<1>3. ReportInv' /\ OwnedInv'
  BY <1>1 DEF IInv, AdvancingEffect, ReportInv, OwnedInv, Faulty, Unserved, Early, Startup,
     Ending, Joining, Draining, Closing, Joined, ServerDone
<1>4. ServerInv'
  BY <1>1 DEF IInv, AdvancingEffect, ServerInv, Faulty, Unserved, Early, Startup, Draining,
     Closing
<1>5. WatcherInv'
  BY <1>1 DEF IInv, AdvancingEffect, WatcherInv, ServerInv, ServerDone, Unserved, Early,
     Startup, Joining, Draining, Closing
<1>6. CallInv'
  BY <1>1 DEF IInv, AdvancingEffect, CallInv, WatcherInv, ServerInv, ServerDone, CtxDone,
     Faulty, Unserved, Early, Startup, Joining, Draining, Closing
<1> USE DEF Goto, Early, Unserved, Startup, Draining, Closing, Joining, Ending, CtxDone,
            health, loop, control
<1>7. Flags'
  <2>1. ready' \in BOOLEAN /\ attempted' \in BOOLEAN
    BY <1>2 DEF Types, Flags, Advancing, Enter, Ping, BeginInitialization, Start, Watch,
       StopParent, StopServer, Prepare, Reconcile, Complete, CompleteInitialization,
       LoopRuns
  <2>2. concern' \in BOOLEAN /\ failed' \in BOOLEAN
    BY <1>2 DEF Types, Flags, Advancing, Enter, Ping, BeginInitialization, Start, Watch,
       StopParent, StopServer, Prepare, Reconcile, Complete, CompleteInitialization,
       LoopRuns, L!Begin, L!Clear, L!End
  <2>3. QED
    BY <1>1, <1>2, <2>1, <2>2 DEF Types, Flags, AdvancingEffect
<1>8. AtPlace' /\ ServerType' /\ OwnedType' /\ Record'
  <2>1. AtPlace' /\ ServerType'
    BY <1>1, <1>2 DEF Types, AdvancingEffect, AtPlace, ServerType
  <2>2. OwnedType' /\ Record'
    BY <1>1, <1>2 DEF Types, AdvancingEffect, Faulty, OwnedType, Record
  <2>3. QED
    BY <2>1, <2>2
<1>9. ControlType' /\ LoopType'
  <2>1. ControlType'
    BY <1>2 DEF Types, ControlType, Advancing, Enter, Ping, BeginInitialization, Start,
       Watch, StopParent, StopServer, Prepare, Reconcile, Complete, CompleteInitialization,
       LoopRuns, finish
  <2>2. LoopType'
    BY <1>2 DEF Types, LoopType, Advancing, Enter, Ping, BeginInitialization, Start, Watch,
       StopParent, StopServer, Prepare, Reconcile, Complete, CompleteInitialization,
       LoopRuns, L!Begin, L!Clear, L!End
  <2>3. QED
    BY <2>1, <2>2
<1>10. StartupInv'
  <2>1. StartupInv /\ (pc \in Unserved => serving = "off")
    BY DEF IInv, ServerInv
  <2>2. ~ServerDone => ~cancelled
    BY <1>1 DEF IInv, WatcherInv, AdvancingEffect
  <2>3. CASE Enter
    BY <1>1, <2>1, <2>2, <2>3 DEF AdvancingEffect, StartupInv, Attempted, finish, Enter
  <2>4. CASE Ping
    BY <1>1, <2>1, <2>2, <2>4 DEF AdvancingEffect, StartupInv, Attempted, Ping
  <2>5. CASE BeginInitialization
    BY <1>1, <2>1, <2>2, <2>5 DEF AdvancingEffect, StartupInv, Attempted,
       BeginInitialization
  <2>6. CASE Start
    BY <1>1, <2>1, <2>2, <2>6 DEF AdvancingEffect, StartupInv, Attempted, Start
  <2>7. CASE Watch
    BY <1>1, <2>1, <2>2, <2>7 DEF AdvancingEffect, StartupInv, Attempted, Watch
  <2>8. CASE StopParent
    BY <1>1, <2>1, <2>2, <2>8 DEF AdvancingEffect, StartupInv, Attempted, finish, StopParent
  <2>9. CASE StopServer
    <3>1. /\ pc = "stopServer" /\ pc' = next /\ ~cancelled /\ loopAt = "idle" /\ outcome = "none"
          /\ UNCHANGED <<next, call, loop, health>>
      BY <1>1, <2>1, <2>2, <2>9 DEF StopServer, Advancing, finish, StartupInv
    <3>2. next \in {"prepare", "reconcile", "complete", "loop"}
      BY <1>2 DEF Types, ControlType
    <3>3. next \in {"complete", "loop"} => Attempted
      BY <2>1, <3>1 DEF StartupInv
    <3>4. QED
      BY <1>1, <2>1, <3>1, <3>2, <3>3 DEF StartupInv, AdvancingEffect, Attempted
  <2>10. CASE Prepare
    BY <1>1, <2>1, <2>2, <2>10 DEF AdvancingEffect, StartupInv, Attempted, Prepare
  <2>11. CASE Reconcile
    BY <1>1, <2>1, <2>2, <2>11 DEF AdvancingEffect, StartupInv, Attempted, Reconcile
  <2>12. CASE Complete
    BY <1>1, <2>1, <2>2, <2>12 DEF AdvancingEffect, StartupInv, Attempted, Complete
  <2>13. CASE CompleteInitialization
    BY <1>1, <2>1, <2>2, <2>13 DEF AdvancingEffect, StartupInv, Attempted,
       CompleteInitialization
  <2>14. CASE LoopRuns
    BY <1>1, <2>1, <2>2, <2>14 DEF AdvancingEffect, StartupInv, Attempted, LoopRuns,
       L!Begin, L!Clear, L!End, L!stops
  <2>15. QED
    BY <2>3, <2>4, <2>5, <2>6, <2>7, <2>8, <2>9, <2>10, <2>11, <2>12, <2>13, <2>14 DEF
       Advancing
<1>11. QED
  BY <1>3, <1>4, <1>5, <1>6, <1>7, <1>8, <1>9, <1>10, TypesSplit DEF IInv, Types

-----------------------------------------------------------------------------
\* The steps of finish and cleanup.
LEMMA EndingKeeps ==
  ASSUME IInv, Cancel \/ JoinWatcher \/ Cleanup \/ Shutdown \/ Drain \/ AwaitDone \/ Report
  PROVE  IInv'
<1> USE DEF Goto, Early, Unserved, Startup, Draining, Closing, Joining, Ending
<1>1. /\ pc \in Ending \ {"closeSource", "unlock", "exited"}
      /\ pc' \in Joining \ {"unlock", "exited"}
      /\ UNCHANGED <<next, call, parentDone, serving, ret, err, loop, health, captured, owned>>
      /\ pc \in Draining => pc' \in Draining \cup Closing
      /\ pc' \in Closing => (pc = "cleanup" /\ serving = "off") \/ (pc = "wait" /\ ServerDone)
      /\ pc' \notin Closing \cup {"join", "cleanup"} => serving # "off"
      /\ pc' \in Joining \ {"join"} => pc # "finish" /\ (pc = "join" => watcher # "waiting")
      /\ cancelled' = TRUE \/ cancelled' = cancelled
      /\ inShutdown' = inShutdown \/ (inShutdown' = TRUE /\ pc' = "drain")
  BY DEF IInv, ServerInv, Cancel, JoinWatcher, Cleanup, Shutdown, Drain, AwaitDone, Report,
     contexts, server, report
<1>2. Faulty
  <2>1. faults' = faults \/ faults' = faults \cup {"shutdown"}
    BY DEF Fault, Cancel, JoinWatcher, Cleanup, Shutdown, Drain, AwaitDone, Report
  <2>2. faults \subseteq ErrorName
    BY TypesSplit DEF IInv, Types, Record
  <2>3. QED
    BY <2>1, <2>2 DEF Faulty, ErrorName
<1>3. Types
  BY TypesSplit DEF IInv
<1>4. ServerInv' /\ WatcherInv'
  <2>1. ServerInv'
    <3>1. ServerInv /\ serving' = serving /\ ret' = ret /\ err' = err /\ (inShutdown => inShutdown')
      BY <1>1, <1>3 DEF IInv, Types, Flags
    <3>2. inShutdown' => pc' \in Draining \cup Closing
      BY <1>1, <3>1 DEF ServerInv
    <3>3. pc' \notin Unserved \cup Startup /\ (pc' \in Closing => serving \in {"off", "done"})
      BY <1>1 DEF ServerDone
    <3>4. "serve" \in faults' <=> "serve" \in faults
      BY <1>2 DEF Faulty
    <3>5. pc' \in Draining \cup {"shutdown"} => serving # "off"
      BY <1>1
    <3> HIDE DEF Draining, Closing, Unserved, Startup, Joining, Ending, Early
    <3>6. QED
      BY <3>1, <3>2, <3>3, <3>4, <3>5 DEF ServerInv
  <2>2. WatcherInv'
    BY <1>1 DEF IInv, WatcherInv, ServerDone, owned
  <2>3. QED
    BY <2>1, <2>2
<1>5. CallInv' /\ OwnedInv' /\ StartupInv'
  BY <1>1 DEF IInv, CallInv, OwnedInv, StartupInv, Attempted, loop, health, owned
<1>6. Flags' /\ ControlType' /\ LoopType' /\ OwnedType'
  <2>1. completed' \in BOOLEAN
    BY <1>3 DEF Types, Flags, Cancel, JoinWatcher, Cleanup, Shutdown, Drain, AwaitDone,
       Report, report, ServerDone
  <2>2. Flags'
    BY <1>1, <1>3, <2>1 DEF Types, Flags, loop, health, contexts
  <2>3. QED
    <3>1. ControlType' /\ LoopType'
      BY <1>1, <1>3 DEF Types, ControlType, LoopType, loop
    <3>2. OwnedType'
      BY <1>1, <1>3 DEF Types, OwnedType, owned
    <3>3. QED
      BY <2>2, <3>1, <3>2
<1>7. AtPlace' /\ ServerType' 
  <2>1. drained' \in {"", "shutdown"}
    BY <1>3 DEF Types, ServerType, Cancel, JoinWatcher, Cleanup, Shutdown, Drain, AwaitDone,
       Report, report
  <2>2. AtPlace'
    BY <1>1 DEF AtPlace
  <2>3. QED
    BY <1>1, <1>3, <2>1, <2>2 DEF Types, ServerType
<1>8. ReportInv' /\ Record'
  <2>0. /\ ReportInv /\ ServerInv /\ Record
        /\ "serve" \in Joined /\ "run" \in Joined /\ "shutdown" \in Joined
    BY <1>3 DEF IInv, Types, Joined
  <2>1. CASE Cancel \/ JoinWatcher \/ Cleanup \/ Shutdown
    <3>1. /\ UNCHANGED <<errs, drained, faults>>
          /\ completed' = completed \/ (completed' = ServerDone /\ pc = "cleanup")
      BY <2>1 DEF Cancel, JoinWatcher, Cleanup, Shutdown, report
    <3>2. pc = "cleanup" /\ ServerDone => ret = "error"
      BY <1>3, <2>0 DEF ServerInv, ServerDone, Types, ServerType
    <3>3. pc # "wait"
      BY <2>1 DEF Cancel, JoinWatcher, Cleanup, Shutdown
    <3>4. UNCHANGED <<captured, serving, ret, err, parentDone>>
      BY <1>1
    <3>5. pc \notin Closing /\ (pc' \in Closing => err = "") /\ pc \in Ending /\ pc' \in Ending
      BY <1>1, <2>0, <3>3 DEF ServerInv
    <3>6. Record'
      BY <2>0, <3>1 DEF Record
    <3> HIDE DEF Draining, Closing, Unserved, Startup, Joining, Ending, Early
    <3>7. completed' => ret = "error"
      BY <2>0, <3>1, <3>2 DEF ReportInv
    <3>8. errs' = errs /\ drained' = drained /\ faults' = faults
      BY <3>1
    <3>9. (captured' => ServerDone') /\ (captured => ServerDone)
      BY <2>0, <3>4 DEF ReportInv, ServerDone
    <3>10. QED
      BY <2>0, <3>4, <3>5, <3>6, <3>7, <3>8, <3>9 DEF ReportInv
  <2>2. CASE Drain
    <3>1. /\ UNCHANGED <<errs, completed>>
          /\ \/ drained' = drained /\ faults' = faults
             \/ drained' = "shutdown" /\ "shutdown" \in faults'
          /\ pc' \notin Closing
      BY <2>2 DEF Drain, Fault
    <3>2. QED
      BY <1>1, <1>2, <2>0, <3>1 DEF ReportInv, Record, Faulty, ServerDone
  <2>3. CASE AwaitDone
    <3>1. \/ errs' = [errs EXCEPT !["shutdown"] = drained] /\ faults' = faults
          \/ errs' = [errs EXCEPT !["shutdown"] = "shutdown"] /\ "shutdown" \in faults'
      BY <2>3 DEF AwaitDone, Fault
    <3>2. /\ Record'
          /\ \A e \in Joined : \/ errs'[e] = errs[e]
                               \/ e = "shutdown" /\ (errs'[e] = "" \/ errs'[e] \in faults')
      BY <1>2, <1>3, <2>0, <3>1 DEF ReportInv, Record, Faulty, ErrorName, Types, ServerType
    <3>3. UNCHANGED <<completed, drained>> /\ pc' = "wait"
      BY <2>3 DEF AwaitDone
    <3>4. errs'["serve"] = errs["serve"] /\ errs'["run"] = errs["run"]
      BY <2>0, <3>2
    <3>5. QED
      BY <1>1, <1>2, <2>0, <3>2, <3>3, <3>4 DEF ReportInv, Faulty, ServerDone
  <2>4. CASE Report
    <3>1. /\ errs' = [errs EXCEPT !["serve"] = IF captured THEN "" ELSE IF err # "" THEN "serve"
                                              ELSE IF completed THEN "stopped" ELSE ""]
          /\ UNCHANGED <<completed, drained, faults>>
          /\ pc = "wait" /\ ServerDone /\ pc' = "closeSource"
      BY <2>4 DEF Report
    <3>2. err = ret /\ (completed => err # "") /\ (err # "" => "serve" \in faults)
      BY <1>3, <2>0, <3>1 DEF ServerInv, ReportInv, ServerDone, Types, ServerType
    <3>3. errs' = [errs EXCEPT !["serve"] = IF captured \/ err = "" THEN "" ELSE "serve"]
      BY <3>1, <3>2
    <3>4. Record' /\ \A e \in Joined : e # "serve" => errs'[e] = errs[e]
      BY <2>0, <3>1, <3>3 DEF Record, ErrorName
    <3>5. /\ captured \/ err = "" => errs'["serve"] = ""
          /\ ~captured /\ err # "" => errs'["serve"] = "serve"
      BY <2>0, <3>3 DEF Record
    <3>6. UNCHANGED <<captured, serving, ret, err, parentDone>>
      BY <1>1
    <3>7. \A e \in Joined : errs'[e] = "" \/ errs'[e] \in faults'
      <4>1. errs'["serve"] = "" \/ errs'["serve"] \in faults
        BY <3>2, <3>5
      <4>2. (\A e \in Joined : errs[e] = "" \/ errs[e] \in faults) /\ faults' = faults
        BY <2>0, <3>1 DEF ReportInv
      <4>3. QED
        BY <3>4, <4>1, <4>2
    <3>8. errs'["run"] = errs["run"] /\ pc' \in Closing /\ pc' \in Ending /\ pc \in Ending
      BY <1>1, <2>0, <3>1, <3>4
    <3> HIDE DEF Draining, Closing, Unserved, Startup, Joining, Ending, Early
    <3>9. QED
      BY <2>0, <3>1, <3>4, <3>5, <3>6, <3>7, <3>8 DEF ReportInv, ServerDone
  <2>5. QED
    BY <2>1, <2>2, <2>3, <2>4
<1>9. QED
  BY <1>3, <1>4, <1>5, <1>6, <1>7, <1>8, TypesSplit DEF IInv, Types

-----------------------------------------------------------------------------
\* The serving goroutine.
LEMMA ServingKeeps ==
  ASSUME IInv, Serving \/ ServeFails
  PROVE  IInv'
<1>1. Types /\ ServerInv
  BY TypesSplit DEF IInv
<1>2. /\ UNCHANGED <<pc, next, call, parentDone, cancelled, inShutdown, loopAt, concern,
                     failed, outcome, ready, attempted, captured, completed, drained, errs,
                     watcher, source, lock>>
      /\ serving \notin {"off", "done"} /\ serving' # "off"
  BY DEF Serving, ServeFails, ServeEnds, StoreErr, CloseDone, serverOnly, control, contexts,
     loop, health, report, owned
<1>3. /\ ServerType' /\ Record' /\ faults \subseteq faults'
      /\ "serve" \in faults' <=> ret' = "error"
      /\ ret = "error" => ret' = "error"
      /\ serving' \in {"off", "serving"} => ret' = ""
      /\ err' = IF serving' \in {"stored", "done"} THEN ret' ELSE ""
      /\ serving' \in {"returned", "stored", "done"} /\ ret' = "" => inShutdown
  <2>1. CASE ServeFails
    BY <1>1, <1>2, <2>1 DEF Types, ServerType, Record, ServerInv, ServeFails, Fault,
       ErrorName
  <2>2. CASE Serving
    BY <1>1, <1>2, <2>2 DEF Types, ServerType, Record, ServerInv, Serving, ServeEnds,
       StoreErr, CloseDone
  <2>3. QED
    BY <2>1, <2>2
<1>4. ServerInv'
  BY <1>1, <1>2, <1>3 DEF ServerInv, Unserved
<1>5. pc \notin Closing /\ ~ServerDone
  BY <1>1, <1>2 DEF ServerInv, ServerDone
<1>6. ReportInv'
  BY <1>2, <1>3, <1>5 DEF IInv, ReportInv
<1>7. WatcherInv' /\ CallInv' /\ OwnedInv' /\ StartupInv'
  <2>1. WatcherInv' /\ OwnedInv'
    BY <1>2, <1>5 DEF IInv, WatcherInv, OwnedInv
  <2>2. CallInv'
    BY <1>2, <1>3 DEF IInv, CallInv, CtxDone
  <2>3. StartupInv'
    BY <1>2 DEF IInv, StartupInv, Attempted, CtxDone
  <2>4. QED
    BY <2>1, <2>2, <2>3
<1>8. Types'
  <2>1. Flags' /\ AtPlace' /\ ControlType'
    <3>1. Flags'
      BY <1>1, <1>2 DEF Types, Flags
    <3>2. AtPlace' /\ ControlType'
      BY <1>1, <1>2 DEF Types, AtPlace, ControlType
    <3>3. QED
      BY <3>1, <3>2
  <2>2. LoopType' /\ OwnedType'
    BY <1>1, <1>2 DEF Types, LoopType, OwnedType
  <2>3. QED
    BY <1>3, <2>1, <2>2 DEF Types
<1>9. QED
  BY <1>4, <1>6, <1>7, <1>8, TypesSplit DEF IInv

\* The watcher, and the caller.
LEMMA OutsideKeeps ==
  ASSUME IInv, Watcher \/ CancelParent
  PROVE  IInv'
<1>1. Types
  BY TypesSplit DEF IInv
<1>2. /\ UNCHANGED <<pc, next, call, serving, ret, err, inShutdown, loopAt, concern, failed, outcome,
                     ready, attempted, captured, completed, drained, errs, source, lock, faults>>
      /\ watcher' = watcher \/ (watcher = "waiting" /\ watcher' = "ended")
      /\ cancelled' = cancelled \/ (cancelled' = TRUE /\ ServerDone)
      /\ parentDone' = parentDone \/ parentDone' = TRUE
  BY DEF Watcher, WatcherSeesContext, WatcherSeesServer, CancelParent, watcherOnly, control,
     server, loop, health, report, owned
<1>3. ServerInv' /\ ReportInv' /\ OwnedInv'
  <2>1. ServerInv' /\ OwnedInv'
    BY <1>2 DEF IInv, ServerInv, OwnedInv
  <2>2. ReportInv'
    <3>1. ReportInv /\ (parentDone => parentDone')
      BY <1>2 DEF IInv
    <3>2. ServerDone' <=> ServerDone
      BY <1>2 DEF ServerDone
    <3>3. UNCHANGED <<pc, ret, err, captured, completed, drained, errs, faults>>
      BY <1>2
    <3>4. QED
      BY <3>1, <3>2, <3>3 DEF ReportInv
  <2>3. QED
    BY <2>1, <2>2
<1>4. WatcherInv' /\ CallInv' /\ StartupInv'
  BY <1>2 DEF IInv, WatcherInv, CallInv, StartupInv, Attempted, CtxDone, ServerDone,
     Unserved
<1>5. Types'
  <2>1. Flags' /\ AtPlace' /\ ControlType'
    <3>1. Flags'
      BY <1>1, <1>2 DEF Types, Flags
    <3>2. AtPlace' /\ ControlType'
      BY <1>1, <1>2 DEF Types, AtPlace, ControlType
    <3>3. QED
      BY <3>1, <3>2
  <2>2. ServerType' /\ Record'
    BY <1>1, <1>2 DEF Types, ServerType, Record
  <2>3. LoopType' /\ OwnedType'
    BY <1>1, <1>2 DEF Types, LoopType, OwnedType
  <2>4. QED
    BY <2>1, <2>2, <2>3 DEF Types
<1>6. QED
  BY <1>3, <1>4, <1>5, TypesSplit DEF IInv

\* A step that changes nothing.
LEMMA StutterKeeps ==
  ASSUME IInv, UNCHANGED vars
  PROVE  IInv'
<1> USE DEF vars, control, contexts, server, loop, health, report, owned
<1>1. TypeOK'
  <2>1. Types
    BY TypesSplit DEF IInv
  <2>2. Flags' /\ AtPlace' /\ ControlType'
    <3>1. Flags'
      BY <2>1 DEF Types, Flags
    <3>2. AtPlace' /\ ControlType'
      BY <2>1 DEF Types, AtPlace, ControlType
    <3>3. QED
      BY <3>1, <3>2
  <2>3. ServerType' /\ Record'
    BY <2>1 DEF Types, ServerType, Record
  <2>4. LoopType' /\ OwnedType'
    BY <2>1 DEF Types, LoopType, OwnedType
  <2>5. QED
    BY <2>2, <2>3, <2>4, TypesSplit DEF Types
<1>2. ServerInv' /\ WatcherInv' /\ CallInv'
  BY DEF IInv, ServerInv, WatcherInv, CallInv, ServerDone, CtxDone
<1>3. ReportInv' /\ OwnedInv' /\ StartupInv'
  <2>1. ReportInv'
    BY DEF IInv, ReportInv, ServerDone
  <2>2. OwnedInv' /\ StartupInv'
    BY DEF IInv, OwnedInv, StartupInv, Attempted, CtxDone
  <2>3. QED
    BY <2>1, <2>2
<1>4. QED
  BY <1>1, <1>2, <1>3 DEF IInv

\* The invariant holds from the first step to the exit.
THEOREM Invariance == Spec => []IInv
<1>1. ASSUME IInv, [Next]_vars PROVE IInv'
  <2>1. CASE LockHostsFile \/ NewDocker \/ NewDaemon \/ CloseSource \/ Unlock
    BY <1>1, <2>1, WiringKeeps
  <2>2. CASE Finishing
    BY <1>1, <2>2, FinishingKeeps
  <2>3. CASE Advancing
    BY <1>1, <2>3, AdvancingKeeps
  <2>4. CASE Cancel \/ JoinWatcher \/ Cleanup \/ Shutdown \/ Drain \/ AwaitDone \/ Report
    BY <1>1, <2>4, EndingKeeps
  <2>5. CASE Serving \/ ServeFails
    BY <1>1, <2>5, ServingKeeps
  <2>6. CASE Watcher \/ CancelParent
    BY <1>1, <2>6, OutsideKeeps
  <2>7. CASE Exited \/ UNCHANGED vars
    BY <1>1, <2>7, StutterKeeps DEF Exited
  <2>8. CallFailed \/ PrepareFailed \/ LoopReturns => pc' = "finish"
    BY DEF CallFailed, PrepareFailed, LoopReturns, finish
  <2>9. (Ping \/ BeginInitialization \/ Start \/ Watch \/ Prepare \/ Reconcile \/ Complete
           \/ CompleteInitialization \/ LoopRuns) => pc' # "finish"
    BY DEF Ping, BeginInitialization, Start, Watch, Prepare, Reconcile, Complete,
       CompleteInitialization, LoopRuns, Goto, control
  <2>10. CASE Main
    <3>1. \/ LockHostsFile \/ NewDocker \/ NewDaemon \/ CloseSource \/ Unlock
          \/ Cancel \/ JoinWatcher \/ Cleanup \/ Shutdown \/ Drain \/ AwaitDone \/ Report
          \/ Finishing \/ Advancing
      BY <2>8, <2>9, <2>10 DEF Main, Finishing, Advancing
    <3>2. QED
      BY <2>1, <2>2, <2>3, <2>4, <3>1
  <2>11. QED
    BY <1>1, <2>5, <2>6, <2>7, <2>10 DEF Next
<1>2. QED
  BY <1>1, Initially, PTL DEF Spec

-----------------------------------------------------------------------------
\* Types.
THEOREM TypeCorrect == Spec => []TypeOK
  BY Invariance, PTL DEF IInv

(***************************************************************************)
(* A health server that dies is reported, and once: what startupStop or    *)
(* the loop has captured cleanup leaves out, and nothing else.             *)
(***************************************************************************)
THEOREM ServerDeathIsReported == Spec => []ServerDeathReported
<1>1. ASSUME IInv PROVE ServerDeathReported
  <2>1. SUFFICES ASSUME pc = "exited", "serve" \in faults
                 PROVE  Cardinality({e \in {"run", "serve"} : errs[e] = "serve"}) = 1
    BY DEF ServerDeathReported
  <2>2. err = "error" 
    BY <1>1, <2>1, TypesSplit DEF IInv, ServerInv, Types, ServerType, Closing
  <2>3. captured => errs["run"] = "serve" /\ errs["serve"] # "serve"
    BY <1>1 DEF IInv, ReportInv
  <2>4. ~captured => errs["run"] # "serve" /\ errs["serve"] = "serve"
    BY <1>1, <2>1, <2>2 DEF IInv, ReportInv, Closing
  <2>5. \E e : {x \in {"run", "serve"} : errs[x] = "serve"} = {e}
    <3>1. CASE captured
      <4>1. {x \in {"run", "serve"} : errs[x] = "serve"} = {"run"}
        BY <2>3, <3>1
      <4>2. QED
        BY <4>1
    <3>2. CASE ~captured
      <4>1. {x \in {"run", "serve"} : errs[x] = "serve"} = {"serve"}
        BY <2>4, <3>2
      <4>2. QED
        BY <4>1
    <3>3. QED
      BY <3>1, <3>2
  <2>6. QED
    BY <2>5, FS_Singleton
<1>2. QED
  BY <1>1, Invariance, PTL

(***************************************************************************)
(* Every reported error is one that happened, and the process never gives  *)
(* up in silence.                                                          *)
(***************************************************************************)
THEOREM ResultIsTruthful == Spec => []ResultTruthful
<1>1. ASSUME IInv PROVE ResultTruthful
  <2>1. SUFFICES ASSUME pc = "exited"
                 PROVE  Result \subseteq faults /\ (Result = {} => parentDone)
    BY DEF ResultTruthful
  <2>2. Result \subseteq faults
    BY <1>1 DEF IInv, ReportInv, Result
  <2>3. ASSUME Result = {} PROVE parentDone
    <3>1. errs["run"] = "" /\ errs["serve"] = ""
      BY <2>3 DEF Result, Joined
    <3>2. err = ret /\ (captured => errs["run"] = "serve")
      BY <1>1, <2>1, TypesSplit DEF IInv, ServerInv, ReportInv, Types, ServerType, Closing
    <3>3. ret # "error"
      BY <1>1, <2>1, <3>1, <3>2 DEF IInv, ReportInv, Closing
    <3>4. QED
      BY <1>1, <2>1, <3>1, <3>3 DEF IInv, ReportInv, Ending, Joining, Closing
  <2>4. QED
    BY <2>2, <2>3
<1>2. QED
  BY <1>1, Invariance, PTL

\* The server, the watcher and the source end before the lock is given up.
THEOREM NothingIsLeaked == Spec => []NothingLeaks
<1>1. ASSUME IInv PROVE NothingLeaks
  BY <1>1 DEF IInv, ServerInv, WatcherInv, OwnedInv, NothingLeaks, Joining, Closing
<1>2. QED
  BY <1>1, Invariance, PTL

\* The endpoint answers 503 until the initial reconciliation was attempted.
THEOREM ReadyIsEarned == Spec => []ReadyAfterFirstAttempt
<1>1. ASSUME IInv PROVE ReadyAfterFirstAttempt
  BY <1>1 DEF IInv, StartupInv, ReadyAfterFirstAttempt
<1>2. QED
  BY <1>1, Invariance, PTL

(***************************************************************************)
(* The loop starts in an initial state of its contract, which with         *)
(* LoopProofs!Refinement is what entitles Lifecycle to run the contract in *)
(* the place of the loop.                                                  *)
(***************************************************************************)
THEOREM LoopStarts == Spec => LoopStartsTruthful
<1>1. ASSUME IInv, [Next]_vars, pc # "loop", pc' = "loop" PROVE L!Init'
  <2>1. StopServer
    <3>1. Main
      BY <1>1 DEF Next, Serving, ServeFails, ServeEnds, StoreErr, CloseDone, serverOnly,
         Watcher, WatcherSeesContext, WatcherSeesServer, watcherOnly, CancelParent, Exited,
         vars, control
    <3>2. ~(LockHostsFile \/ NewDocker \/ NewDaemon \/ Enter \/ Ping \/ BeginInitialization \/ Start
              \/ CallFailed \/ Watch \/ StopParent \/ Prepare \/ PrepareFailed \/ Reconcile)
      BY <1>1 DEF LockHostsFile, NewDocker, NewDaemon, Enter, Ping, BeginInitialization,
         Start, CallFailed, Watch, StopParent, Prepare, PrepareFailed, Reconcile, Goto,
         finish
    <3>3. ~(Complete \/ CompleteInitialization \/ LoopRuns \/ LoopReturns \/ Cancel \/ JoinWatcher
              \/ Cleanup \/ Shutdown \/ Drain \/ AwaitDone \/ Report \/ CloseSource \/ Unlock)
      BY <1>1 DEF Complete, CompleteInitialization, LoopRuns, LoopReturns, Cancel,
         JoinWatcher, Cleanup, Shutdown, Drain, AwaitDone, Report, CloseSource, Unlock,
         Goto, control
    <3>4. QED
      BY <3>1, <3>2, <3>3 DEF Main
  <2>2. /\ pc = "stopServer" /\ next = "loop" /\ ~ServerDone
        /\ UNCHANGED <<parentDone, cancelled, serving, loopAt, concern, failed, outcome>>
    BY <1>1, <2>1 DEF StopServer, finish, Goto, contexts, server, loop
  <2>3. ~cancelled
    BY <1>1, <2>2 DEF IInv, WatcherInv, Joining, Draining, Closing
  <2>4. Attempted /\ loopAt = "idle" /\ outcome = "none"
    BY <1>1, <2>2, <2>3 DEF IInv, StartupInv, Ending, Joining, Draining, Closing
  <2>5. failed \in BOOLEAN /\ CtxDone' \in BOOLEAN /\ ServerDone' \in BOOLEAN
    BY <1>1, TypesSplit DEF IInv, Types, Flags, CtxDone, ServerDone
  <2>6. QED
    BY <2>2, <2>4, <2>5 DEF L!Init, Attempted
<1>2. QED
  BY <1>1, Invariance, PTL DEF Spec, LoopStartsTruthful
=============================================================================
