------------------------------ MODULE Tracker ------------------------------
(***************************************************************************)
(* health/tracker.go and health/handler.go: the health tracker that the    *)
(* daemon writes and HTTP handlers read.  Fail appends a record and evicts *)
(* old ones in a loop while it holds the write lock; a handler copies the  *)
(* state under the read lock and renders the copy afterwards, while the    *)
(* daemon goes on.  A record's text is its id: the n-th failure says n.    *)
(***************************************************************************)
EXTENDS Integers, Sequences, FiniteSets

CONSTANTS
  Concern,    \* the operations tracked
  Handler,    \* concurrent requests of the health endpoint
  MaxHistory, \* Tracker.max
  MaxFails    \* bound: failures explored

ASSUME TrackerAssumption ==
  /\ IsFiniteSet(Concern)
  /\ MaxHistory \in Nat \ {0} /\ MaxFails \in Nat

NoID == 0      \* ids start at 1
Record == [id : Nat, concern : Concern]

NoSnapshot == [ready |-> FALSE, active |-> [c \in Concern |-> NoID], history |-> <<>>]

VARIABLES
  lock,      \* "free", or "evicting": Fail holds the write lock
  ready,     \* CompleteInitialization came after the last BeginInitialization
  active,    \* active[c]: the id of c's active record, or NoID
  history,   \* the retained records, oldest first
  nextID,    \* the id of the last record
  request    \* request[h]: what handler h copied and answered

vars == <<lock, ready, active, history, nextID, request>>

NoResponse == [healthy |-> FALSE, count |-> 0, unknown |-> {}, reason |-> NoID]
Idle == [state |-> "idle", snapshot |-> NoSnapshot, response |-> NoResponse]

ActiveIDs(act) == {act[c] : c \in Concern} \ {NoID}

Init ==
  /\ lock = "free" /\ ready = TRUE
  /\ active = [c \in Concern |-> NoID]
  /\ history = <<>> /\ nextID = 0
  /\ request = [h \in Handler |-> Idle]

-----------------------------------------------------------------------------
BeginInitialization ==
  /\ lock = "free"
  /\ ready' = FALSE
  /\ UNCHANGED <<lock, active, history, nextID, request>>

CompleteInitialization ==
  /\ lock = "free"
  /\ ready' = TRUE
  /\ UNCHANGED <<lock, active, history, nextID, request>>

Fail(c) ==
  /\ lock = "free" /\ nextID < MaxFails
  /\ nextID' = nextID + 1
  /\ history' = Append(history, [id |-> nextID', concern |-> c])
  /\ active' = [active EXCEPT ![c] = nextID']
  /\ lock' = "evicting"
  /\ UNCHANGED <<ready, request>>

isActive(id) == \E c \in Concern : active[c] = id

\* The first record that is not active.
Evictable(i) ==
  /\ i \in DOMAIN history /\ ~isActive(history[i].id)
  /\ \A j \in 1..(i - 1) : isActive(history[j].id)

EvictOldest ==
  /\ lock = "evicting" /\ Len(history) > MaxHistory
  /\ history' = Tail(history)
  /\ UNCHANGED <<lock, ready, active, nextID, request>>

EvictRecord ==
  /\ lock = "evicting" /\ Len(history) > MaxHistory
  /\ \E i \in DOMAIN history :
       /\ Evictable(i)
       /\ history' = SubSeq(history, 1, i - 1) \o SubSeq(history, i + 1, Len(history))
  /\ UNCHANGED <<lock, ready, active, nextID, request>>

FailReturnsUnevicted ==
  /\ lock = "evicting"
  /\ lock' = "free"
  /\ UNCHANGED <<ready, active, history, nextID, request>>

FailReturnsUnlessFull ==
  /\ lock = "evicting"
  /\ Len(history) <= MaxHistory \/ ~\E i \in DOMAIN history : Evictable(i)
  /\ lock' = IF Len(history) <= MaxHistory THEN "free" ELSE lock
  /\ UNCHANGED <<ready, active, history, nextID, request>>

\* The loop ends when the history fits, or when every record is active.
FailReturns ==
  /\ lock = "evicting"
  /\ Len(history) <= MaxHistory \/ ~\E i \in DOMAIN history : Evictable(i)
  /\ lock' = "free"
  /\ UNCHANGED <<ready, active, history, nextID, request>>

Recover(c) ==
  /\ lock = "free"
  /\ active' = [active EXCEPT ![c] = NoID]
  /\ UNCHANGED <<lock, ready, history, nextID, request>>

-----------------------------------------------------------------------------
\* NewHandler's first half: the copy, under the read lock.
Snapshot(h) ==
  /\ lock = "free" /\ request[h].state = "idle"
  /\ request' = [request EXCEPT ![h].state = "copied",
       ![h].snapshot = [ready |-> ready, active |-> active, history |-> history]]
  /\ UNCHANGED <<lock, ready, active, history, nextID>>

firstActive(s) ==
  LET ids == {s.history[i].id : i \in DOMAIN s.history} \cap ActiveIDs(s.active)
  IN  IF ids = {} THEN NoID ELSE CHOOSE id \in ids : \A other \in ids : id <= other

\* The newest record of the copy that is active in it; NoID is Go's nil.
newestActive(s) ==
  LET ids == {s.history[i].id : i \in DOMAIN s.history} \cap ActiveIDs(s.active)
  IN  IF ids = {} THEN NoID ELSE CHOOSE id \in ids : \A other \in ids : other <= id

renderSnapshot(s) ==
  LET healthy == s.ready /\ ActiveIDs(s.active) = {}
  IN  [healthy |-> healthy,
       count   |-> Cardinality(ActiveIDs(s.active)),
       unknown |-> {i \in DOMAIN s.history : s.history[i].id \in ActiveIDs(s.active)},
       reason  |-> IF s.ready /\ ~healthy THEN newestActive(s) ELSE NoID]

Respond(h) ==
  /\ request[h].state = "copied"
  /\ request' = [request EXCEPT ![h].state = "answered",
                                ![h].response = renderSnapshot(request[h].snapshot)]
  /\ UNCHANGED <<lock, ready, active, history, nextID>>

\* The connection is ready for the next request.
Done(h) ==
  /\ request[h].state = "answered"
  /\ request' = [request EXCEPT ![h] = Idle]
  /\ UNCHANGED <<lock, ready, active, history, nextID>>

-----------------------------------------------------------------------------
Next ==
  \/ BeginInitialization \/ CompleteInitialization
  \/ \E c \in Concern : Fail(c) \/ Recover(c)
  \/ EvictRecord \/ FailReturns
  \/ \E h \in Handler : Snapshot(h) \/ Respond(h) \/ Done(h)

Spec == Init /\ [][Next]_vars

\* An eviction always gets on: Fail holds the lock until it ends.
FairSpec == Spec /\ WF_vars(EvictRecord \/ FailReturns)

-----------------------------------------------------------------------------
\* Types.
SnapshotType == [ready : BOOLEAN, active : [Concern -> Nat], history : Seq(Record)]

TypeOK ==
  /\ lock \in {"free", "evicting"} /\ ready \in BOOLEAN
  /\ active \in [Concern -> Nat] /\ history \in Seq(Record) /\ nextID \in Nat
  /\ \A h \in Handler : /\ request[h].state \in {"idle", "copied", "answered"}
                        /\ request[h].snapshot \in SnapshotType

(***************************************************************************)
(* Eviction never drops the record of an active concern, however many      *)
(* failures follow it: every active id is the id of a retained record of   *)
(* the same concern.                                                       *)
(***************************************************************************)
Retained(act, hist) ==
  \A c \in Concern : act[c] # NoID =>
    \E i \in DOMAIN hist : hist[i].id = act[c] /\ hist[i].concern = c

ActiveRetained == Retained(active, history)

(***************************************************************************)
(* "Up to ten historical records": whenever the lock is free the history   *)
(* is within its limit, which only the active records themselves may push  *)
(* up (four concerns against a limit of ten, so never in production).      *)
(***************************************************************************)
HistoryBounded ==
  lock = "free" => \/ Len(history) <= MaxHistory
                   \/ Len(history) <= Cardinality(Concern)

(***************************************************************************)
(* A degraded answer always finds the record it takes its reason from,     *)
(* though the tracker went on after the copy: renderSnapshot dereferences  *)
(* newestActive without a nil check.  The reason is the latest failure of  *)
(* all active concerns.                                                    *)
(***************************************************************************)
ReasonFound ==
  \A h \in Handler :
    LET s == request[h].snapshot   r == request[h].response
    IN  (request[h].state = "answered" /\ s.ready /\ ~r.healthy) =>
          /\ r.reason # NoID
          /\ \A c \in Concern : s.active[c] <= r.reason

(***************************************************************************)
(* Fail's eviction loop ends, so the lock it holds is released and neither *)
(* the daemon nor the health endpoint hangs.                               *)
(***************************************************************************)
LockReleased == lock = "evicting" ~> lock = "free"
=============================================================================
