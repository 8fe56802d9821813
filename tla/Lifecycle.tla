------------------------------ MODULE Lifecycle ------------------------------
(***************************************************************************)
(* The life of the process: runDaemonWith (cmd/sdhm/run.go), Daemon.Run    *)
(* with its watcher, startupStop and cleanup (daemon/daemon.go), and the   *)
(* health server (health/server.go).                                       *)
(*                                                                         *)
(* Three goroutines race: the one that runs the daemon, the watcher that   *)
(* cancels it when the health server dies, and the server's own.  The      *)
(* caller may cancel and the server may die between any two steps, and     *)
(* every call may fail.  In the place of Daemon.loop runs LoopContract,    *)
(* which module Loop is shown to implement.                                *)
(***************************************************************************)
EXTENDS FiniteSets

VARIABLES
  pc,          \* where the main goroutine is
  next,        \* the startup step after the startupStop under way
  call,        \* why the last call failed: "fault", or "ctx" for its context
  parentDone,  \* the caller's context is cancelled (a signal)
  cancelled,   \* Run's own cancel was called
  watcher,     \* "none", "waiting", "ended"
  serving,     \* the serving goroutine: "off", "serving", "returned", "stored", "done"
  ret,         \* what Serve returned, in the goroutine's local variable
  err,         \* Server.err
  inShutdown,  \* http.Server.Shutdown was called
  drained,     \* Server.shutdownErr
  ready,       \* the tracker's readiness
  attempted,   \* history: the initial reconciliation ran to its end
  loopAt, concern, failed, outcome,   \* LoopContract's variables
  captured, completed,                \* serveErrCaptured, completedBeforeShutdown
  errs,        \* the errors to be joined; "" is nil
  source,      \* the Docker source: "none", "open", "closed"
  lock,        \* the hosts lock: "free", "held"
  faults       \* history: the calls that failed of themselves

control == <<pc, next, call>>
contexts == <<parentDone, cancelled>>
server == <<serving, ret, err, inShutdown>>
loop   == <<loopAt, concern, failed, outcome>>
health == <<ready, attempted>>
report == <<captured, completed, drained, errs>>
owned  == <<watcher, source, lock>>
vars   == <<control, contexts, server, loop, health, report, owned, faults>>

CtxDone == parentDone \/ cancelled
ServerDone == serving = "done"

L == INSTANCE LoopContract WITH
       at <- loopAt, ctxDone <- CtxDone, serverDone <- ServerDone

\* What the joined error may consist of: runErr and cleanup's and the callers' own.
Joined == {"run", "serve", "shutdown", "close", "unlock"}

Init ==
  /\ pc = "lock" /\ next = "prepare" /\ call = ""
  /\ parentDone = FALSE /\ cancelled = FALSE
  /\ serving = "off" /\ ret = "" /\ err = "" /\ inShutdown = FALSE
  /\ ready = TRUE /\ attempted = FALSE        \* newTracker starts ready
  /\ loopAt = "idle" /\ concern = FALSE /\ failed = FALSE /\ outcome = "none"
  /\ captured = FALSE /\ completed = FALSE /\ drained = ""
  /\ errs = [e \in Joined |-> ""]
  /\ watcher = "none" /\ source = "none" /\ lock = "free"
  /\ faults = {}

Goto(from, to) == pc = from /\ pc' = to

\* A call that may fail of itself: the fault is on record.
Fault(name) == faults' = faults \cup {name}

-----------------------------------------------------------------------------
(***************************************************************************)
(* runDaemonWith: the lock, the Docker source, the daemon.                 *)
(***************************************************************************)
wiring == UNCHANGED <<next, call, contexts, server, loop, health, captured,
                      completed, drained, watcher>>

LockHostsFile ==
  /\ \/ Goto("lock", "newDocker") /\ lock' = "held" /\ UNCHANGED <<errs, faults>>
     \/ /\ Goto("lock", "exited") /\ Fault("lock")
        /\ errs' = [errs EXCEPT !["run"] = "lock"] /\ UNCHANGED lock
  /\ wiring /\ UNCHANGED source

NewDocker ==
  /\ \/ Goto("newDocker", "newDaemon") /\ source' = "open" /\ UNCHANGED <<errs, faults>>
     \/ /\ Goto("newDocker", "unlock") /\ Fault("docker")
        /\ errs' = [errs EXCEPT !["run"] = "docker"] /\ UNCHANGED source
  /\ wiring /\ UNCHANGED lock

NewDaemonLeaky ==
  /\ \/ Goto("newDaemon", "run") /\ UNCHANGED <<errs, faults>>
     \/ /\ Goto("newDaemon", "unlock") /\ Fault("construct")
        /\ errs' = [errs EXCEPT !["run"] = "construct"]
  /\ wiring /\ UNCHANGED <<source, lock>>

\* If it fails, the source is closed as cleanup would have done.
NewDaemon ==
  /\ \/ Goto("newDaemon", "run") /\ UNCHANGED <<errs, faults>>
     \/ /\ Goto("newDaemon", "closeSource") /\ Fault("construct")
        /\ errs' = [errs EXCEPT !["run"] = "construct"]
  /\ wiring /\ UNCHANGED <<source, lock>>

\* source.Close, by cleanup or after a failed construction.
CloseSource ==
  /\ Goto("closeSource", "unlock") /\ source' = "closed"
  /\ \/ UNCHANGED <<errs, faults>>
     \/ Fault("close") /\ errs' = [errs EXCEPT !["close"] = "close"]
  /\ wiring /\ UNCHANGED lock

\* The deferred joinHostsLockClose.  Even a failing close gives the lock up.
Unlock ==
  /\ Goto("unlock", "exited") /\ lock' = "free"
  /\ \/ UNCHANGED <<errs, faults>>
     \/ Fault("unlock") /\ errs' = [errs EXCEPT !["unlock"] = "unlock"]
  /\ wiring /\ UNCHANGED source

-----------------------------------------------------------------------------
(***************************************************************************)
(* Run up to the start of the health server.                               *)
(***************************************************************************)
finish(runErr, serveErrCaptured) ==
  /\ pc' = "finish"
  /\ errs' = [errs EXCEPT !["run"] = runErr]
  /\ captured' = serveErrCaptured
  /\ UNCHANGED <<next, call, completed, drained>>

\* A check of parent.Err() that ends Run with no error.
Enter ==
  /\ \/ pc = "run" /\ parentDone /\ finish("", FALSE)
     \/ pc = "pinged" /\ parentDone /\ finish("", FALSE)
     \/ ~parentDone /\ (Goto("run", "ping") \/ Goto("pinged", "begin"))
                    /\ UNCHANGED <<next, call, report>>
  /\ UNCHANGED <<contexts, server, loop, health, owned, faults>>

Ping ==
  /\ \/ Goto("ping", "pinged") /\ UNCHANGED <<call, faults>>
     \/ Goto("ping", "callFailed") /\ call' = "ping" /\ Fault("ping")
     \/ Goto("ping", "callFailed") /\ call' = "ping" /\ CtxDone /\ UNCHANGED faults
  /\ UNCHANGED <<next, contexts, server, loop, health, report, owned>>

BeginInitializationLate ==
  /\ Goto("begin", "start")
  /\ UNCHANGED <<next, call, contexts, server, loop, health, report, owned, faults>>

BeginInitialization ==
  /\ Goto("begin", "start") /\ ready' = FALSE
  /\ UNCHANGED <<next, call, contexts, server, loop, attempted, report, owned, faults>>

\* server.Start: the listener is bound or not; the goroutine serves.
Start ==
  /\ \/ Goto("start", "watch") /\ serving' = "serving" /\ UNCHANGED <<call, faults>>
     \/ /\ Goto("start", "callFailed") /\ call' = "start" /\ Fault("start")
        /\ UNCHANGED serving
  /\ UNCHANGED <<next, contexts, ret, err, inShutdown, loop, health, report, owned>>

CallFailedBlaming ==
  /\ pc = "callFailed"
  /\ finish(call, FALSE)
  /\ UNCHANGED <<contexts, server, loop, health, owned, faults>>

\* A failed ping or Start is an error unless the caller has cancelled.
CallFailed ==
  /\ pc = "callFailed"
  /\ finish(IF parentDone THEN "" ELSE call, FALSE)
  /\ UNCHANGED <<contexts, server, loop, health, owned, faults>>

Watch ==
  /\ Goto("watch", "stopParent") /\ next' = "prepare"
  /\ watcher' = "waiting"
  /\ UNCHANGED <<call, contexts, server, loop, health, report, source, lock, faults>>

-----------------------------------------------------------------------------
(***************************************************************************)
(* Run from the start of the health server to the loop.  Between any two   *)
(* steps startupStop looks at the caller's context, then at the server.    *)
(***************************************************************************)
ServeError == IF err = "" THEN "stopped" ELSE "serve"

StopParent ==
  /\ \/ pc = "stopParent" /\ parentDone /\ finish("", FALSE)
     \/ Goto("stopParent", "stopServer") /\ ~parentDone /\ UNCHANGED <<next, call, report>>
  /\ UNCHANGED <<contexts, server, loop, health, owned, faults>>

StopServerBlind ==
  /\ Goto("stopServer", next) /\ UNCHANGED <<next, call, report>>
  /\ UNCHANGED <<contexts, server, loop, health, owned, faults>>

StopServer ==
  /\ \/ pc = "stopServer" /\ ServerDone /\ finish(ServeError, TRUE)
     \/ Goto("stopServer", next) /\ ~ServerDone /\ UNCHANGED <<next, call, report>>
  /\ UNCHANGED <<contexts, server, loop, health, owned, faults>>

Prepare ==
  /\ \/ Goto("prepare", "stopParent") /\ next' = "reconcile" /\ UNCHANGED <<call, faults>>
     \/ /\ Goto("prepare", "prepareFailed") /\ call' = "fault" /\ Fault("prepare")
        /\ UNCHANGED next
     \/ /\ Goto("prepare", "prepareFailed") /\ call' = "ctx" /\ CtxDone
        /\ UNCHANGED <<next, faults>>
  /\ UNCHANGED <<contexts, server, loop, health, report, owned>>

\* The recovery concern recorded here changes no answer: the tracker is not
\* ready, nor will it be.
PrepareFailed ==
  /\ pc = "prepareFailed"
  /\ finish(IF ~parentDone /\ (~CtxDone \/ call = "fault") THEN "prepare" ELSE "", FALSE)
  /\ UNCHANGED <<contexts, server, loop, health, owned, faults>>

\* The initial d.reconcile(ctx); a failure of its own is a concern.
Reconcile ==
  /\ Goto("reconcile", "stopParent") /\ next' = "complete"
  /\ \/ failed' \in BOOLEAN /\ concern' = failed' /\ attempted' = TRUE
     \/ CtxDone /\ failed' = TRUE /\ UNCHANGED <<concern, attempted>>
  /\ UNCHANGED <<call, contexts, server, loopAt, outcome, ready, report, owned, faults>>

\* The check of both contexts, and CompleteInitialization as a step of its own.
Complete ==
  /\ next' = "loop"
  /\ IF parentDone \/ CtxDone THEN Goto("complete", "stopParent")
                              ELSE Goto("complete", "completing")
  /\ UNCHANGED <<call, contexts, server, loop, health, report, owned, faults>>

CompleteInitialization ==
  /\ Goto("completing", "stopParent") /\ ready' = TRUE
  /\ UNCHANGED <<next, call, contexts, server, loop, attempted, report, owned, faults>>

LoopRuns ==
  /\ pc = "loop" /\ UNCHANGED <<control, contexts, server, health, report, owned, faults>>
  /\ L!Begin \/ L!Clear \/ L!End

LoopReturns ==
  /\ pc = "loop" /\ UNCHANGED <<contexts, server, health, owned, faults>>
  /\ L!Return
  /\ finish(IF outcome' = "server" THEN ServeError ELSE "", outcome' = "server")

-----------------------------------------------------------------------------
(***************************************************************************)
(* finish: cancel, wait for the watcher, cleanup.                          *)
(***************************************************************************)
Cancel ==
  /\ Goto("finish", "join") /\ cancelled' = TRUE
  /\ UNCHANGED <<next, call, parentDone, server, loop, health, report, owned, faults>>

JoinWatcher ==
  /\ Goto("join", "cleanup") /\ watcher # "waiting"
  /\ UNCHANGED <<next, call, contexts, server, loop, health, report, owned, faults>>

\* completedBeforeShutdown.
Cleanup ==
  /\ IF serving = "off" THEN Goto("cleanup", "closeSource") /\ UNCHANGED completed
                        ELSE Goto("cleanup", "shutdown") /\ completed' = ServerDone
  /\ UNCHANGED <<next, call, contexts, server, loop, health, captured, drained, errs,
                 owned, faults>>

\* Server.Shutdown, and in it http.Server.Shutdown: it closes the listener ...
Shutdown ==
  /\ Goto("shutdown", "drain") /\ inShutdown' = TRUE
  /\ UNCHANGED <<next, call, contexts, serving, ret, err, loop, health, report, owned,
                 faults>>

\* ... and waits for the connections until its five seconds are over.
Drain ==
  /\ Goto("drain", "awaitDone")
  /\ \/ UNCHANGED <<drained, faults>>
     \/ drained' = "shutdown" /\ Fault("shutdown")
  /\ UNCHANGED <<next, call, contexts, server, loop, health, captured, completed, errs,
                 owned>>

\* The end of Server.Shutdown: the serving goroutine is done, or the time is up.
AwaitDone ==
  /\ pc = "awaitDone" /\ pc' = "wait"
  /\ \/ ServerDone /\ errs' = [errs EXCEPT !["shutdown"] = drained] /\ UNCHANGED faults
     \/ ~ServerDone /\ errs' = [errs EXCEPT !["shutdown"] = "shutdown"] /\ Fault("shutdown")
  /\ UNCHANGED <<next, call, contexts, server, loop, health, captured, completed, drained,
                 owned>>

ReportTwice ==
  /\ Goto("wait", "closeSource") /\ ServerDone
  /\ errs' = [errs EXCEPT !["serve"] = IF err # "" THEN "serve"
                                    ELSE IF completed THEN "stopped" ELSE ""]
  /\ UNCHANGED <<next, call, contexts, server, loop, health, captured, completed, drained,
                 owned, faults>>

\* cleanup after its <-d.server.Done().
Report ==
  /\ Goto("wait", "closeSource") /\ ServerDone
  /\ errs' = [errs EXCEPT !["serve"] = IF captured THEN ""
                                    ELSE IF err # "" THEN "serve"
                                    ELSE IF completed THEN "stopped" ELSE ""]
  /\ UNCHANGED <<next, call, contexts, server, loop, health, captured, completed, drained,
                 owned, faults>>

-----------------------------------------------------------------------------
(***************************************************************************)
(* The serving goroutine, the watcher and the caller.                      *)
(***************************************************************************)
serverOnly == UNCHANGED <<control, contexts, inShutdown, loop, health, report, owned>>

\* Accept fails for good: an error unless the server is being shut down.
ServeFails ==
  /\ serving = "serving" /\ ~inShutdown
  /\ serving' = "returned" /\ ret' = "error" /\ Fault("serve")
  /\ UNCHANGED err /\ serverOnly

ServeEnds ==
  /\ serving = "serving" /\ inShutdown
  /\ serving' = "returned"      \* http.ErrServerClosed, which becomes nil
  /\ UNCHANGED <<ret, err, faults>> /\ serverOnly

StoreErr ==
  /\ serving = "returned" /\ serving' = "stored" /\ err' = ret
  /\ UNCHANGED <<ret, faults>> /\ serverOnly

CloseDone ==
  /\ serving = "stored" /\ serving' = "done"
  /\ UNCHANGED <<ret, err, faults>> /\ serverOnly

watcherOnly == UNCHANGED <<control, parentDone, server, loop, health, report, source,
                           lock, faults>>

WatcherSeesContext ==
  /\ watcher = "waiting" /\ CtxDone /\ watcher' = "ended"
  /\ UNCHANGED cancelled /\ watcherOnly

WatcherSeesServerOnly ==
  /\ watcher = "waiting" /\ ServerDone /\ watcher' = "ended"
  /\ UNCHANGED cancelled /\ watcherOnly

WatcherSeesServer ==
  /\ watcher = "waiting" /\ ServerDone /\ watcher' = "ended"
  /\ cancelled' = TRUE /\ watcherOnly

CancelParent ==
  /\ ~parentDone /\ parentDone' = TRUE
  /\ UNCHANGED <<control, cancelled, server, loop, health, report, owned, faults>>

-----------------------------------------------------------------------------
Main == \/ LockHostsFile \/ NewDocker \/ NewDaemon
        \/ Enter \/ Ping \/ BeginInitialization \/ Start \/ CallFailed \/ Watch
        \/ StopParent \/ StopServer \/ Prepare \/ PrepareFailed \/ Reconcile
        \/ Complete \/ CompleteInitialization \/ LoopRuns \/ LoopReturns
        \/ Cancel \/ JoinWatcher \/ Cleanup \/ Shutdown \/ Drain \/ AwaitDone \/ Report
        \/ CloseSource \/ Unlock

Serving == ServeEnds \/ StoreErr \/ CloseDone
Watcher == WatcherSeesContext \/ WatcherSeesServer

Exited == pc = "exited" /\ UNCHANGED vars

Next == Main \/ Serving \/ ServeFails \/ Watcher \/ CancelParent \/ Exited

Spec == Init /\ [][Next]_vars

\* A call of the store, or of Docker inside a reconciliation, is under way.
InCall == pc \in {"prepare", "reconcile"} \/ (pc = "loop" /\ loopAt = "busy")

(***************************************************************************)
(* Fairness: the three goroutines run.  A call of the store or of Docker   *)
(* may block for ever as long as its context lives; once the context is    *)
(* cancelled it returns.                                                   *)
(***************************************************************************)
FairSpec == /\ Spec
            /\ WF_vars(Main /\ (InCall => CtxDone))
            /\ WF_vars(Serving) /\ WF_vars(Watcher)

-----------------------------------------------------------------------------
Result == {errs[e] : e \in Joined} \ {""}

ErrorName == {"lock", "docker", "construct", "ping", "start", "prepare", "serve",
              "stopped", "shutdown", "close", "unlock"}

\* Types.
TypeOK ==
  /\ pc \in {"lock", "newDocker", "newDaemon", "run", "ping", "pinged", "begin", "start",
             "callFailed", "watch", "stopParent", "stopServer", "prepare",
             "prepareFailed", "reconcile", "complete", "completing", "loop", "finish",
             "join", "cleanup", "shutdown", "drain", "awaitDone", "wait", "closeSource",
             "unlock", "exited"}
  /\ next \in {"prepare", "reconcile", "complete", "loop"}
  /\ call \in {"", "ping", "start", "fault", "ctx"}
  /\ {parentDone, cancelled, inShutdown, ready, attempted, concern, failed, captured,
      completed} \subseteq BOOLEAN
  /\ watcher \in {"none", "waiting", "ended"}
  /\ serving \in {"off", "serving", "returned", "stored", "done"}
  /\ ret \in {"", "error"} /\ err \in {"", "error"} /\ drained \in {"", "shutdown"}
  /\ loopAt \in {"idle", "busy", "returned"} /\ outcome \in {"none", "nil", "server"}
  /\ errs \in [Joined -> ErrorName \cup {""}]
  /\ source \in {"none", "open", "closed"} /\ lock \in {"free", "held"}
  /\ faults \subseteq ErrorName

(***************************************************************************)
(* A health server that dies of an error is reported exactly once,         *)
(* whenever it dies and whoever notices: startupStop, the loop, a call     *)
(* that the watcher interrupted, or only cleanup.                          *)
(***************************************************************************)
ServerDeathReported ==
  pc = "exited" /\ "serve" \in faults =>
    Cardinality({e \in {"run", "serve"} : errs[e] = "serve"}) = 1

(***************************************************************************)
(* An error is reported only for a call that failed of itself: neither the *)
(* caller's cancellation nor the interruption of a call by the watcher     *)
(* shows up as an error, and an orderly shutdown is never mistaken for a   *)
(* server that stopped unexpectedly.  And the daemon never gives up        *)
(* silently: without an error it ends only if its caller has cancelled.    *)
(***************************************************************************)
ResultTruthful ==
  pc = "exited" => Result \subseteq faults /\ (Result = {} => parentDone)

(***************************************************************************)
(* Whatever was started has ended before the lock is given up and the      *)
(* process exits, on every path: the listener, the watcher, the source.    *)
(***************************************************************************)
NothingLeaks ==
  pc \in {"unlock", "exited"} =>
    /\ serving \in {"off", "done"}
    /\ watcher # "waiting"
    /\ source # "open"
    /\ pc = "exited" => lock = "free"

(***************************************************************************)
(* README "Health": from the moment the listener starts the endpoint is    *)
(* 503 until the first reconciliation has been attempted.  One that the    *)
(* end of the daemon interrupted does not count.                           *)
(***************************************************************************)
ReadyAfterFirstAttempt == serving # "off" /\ ready => attempted

(***************************************************************************)
(* The loop starts in an initial state of its contract: the tracker holds  *)
(* a concern exactly if the initial reconciliation failed.  A failure that *)
(* a stop caused, which leaves no concern, never gets this far.            *)
(***************************************************************************)
LoopStartsTruthful ==
  [][pc # "loop" /\ pc' = "loop" => L!Init']_vars

(***************************************************************************)
(* The caller's cancellation, or the death of the health server, ends the  *)
(* process: also while a call is blocked that only its context can end.    *)
(***************************************************************************)
ProcessEnds == (parentDone \/ ret = "error") ~> pc = "exited"
=============================================================================
