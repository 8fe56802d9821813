--------------------------- MODULE TrackerProofs ---------------------------
(***************************************************************************)
(* The health tracker keeps what its answers need, for any number of       *)
(* concerns and requests and for any limit on the history.                 *)
(***************************************************************************)
EXTENDS Tracker, SequenceTheorems, FiniteSetTheorems, WellFoundedInduction, TLAPS

\* A nonempty bounded set of naturals has a largest member.
LEMMA LargestExists ==
  ASSUME NEW S, S \subseteq Nat, S # {}, NEW n \in Nat, \A x \in S : x <= n
  PROVE  \E m \in S : \A x \in S : x <= m
<1> DEFINE Bounds == {b \in Nat : \A x \in S : x <= b}
<1>1. PICK b \in Bounds : \A y \in Bounds : ~(<<y, b>> \in OpToRel(<, Nat))
  <2>1. Bounds \subseteq Nat /\ Bounds # {}
    OBVIOUS
  <2> QED
    BY <2>1, WFMin, NatLessThanWellFounded
<1>2. \A y \in Bounds : ~(y < b)
  BY <1>1 DEF OpToRel
<1>3. b \in S
  <2> SUFFICES ASSUME b \notin S PROVE FALSE
    OBVIOUS
  <2>1. \A x \in S : x <= b - 1
    OBVIOUS
  <2>2. PICK x \in S : x \in Nat /\ x <= b - 1
    BY <2>1
  <2>3. b - 1 \in Bounds
    BY <2>1, <2>2
  <2> QED
    BY <2>3, <1>2
<1> QED
  BY <1>3

\* The ids of records are naturals.
LEMMA IdsNatural ==
  ASSUME NEW hist \in Seq(Record)
  PROVE  \A i \in DOMAIN hist : hist[i].id \in Nat
<1>1. \A i \in DOMAIN hist : hist[i] \in Record
  BY LenProperties
<1> QED
  BY <1>1 DEF Record

\* What evicting record i leaves.
Without(hist, i) == SubSeq(hist, 1, i - 1) \o SubSeq(hist, i + 1, Len(hist))

\* Its records: those before i, then those after it, one place down.
LEMMA WithoutElements ==
  ASSUME NEW hist \in Seq(Record), NEW i \in DOMAIN hist
  PROVE  /\ Without(hist, i) \in Seq(Record)
         /\ Len(Without(hist, i)) = Len(hist) - 1
         /\ \A k \in 1..(Len(hist) - 1) :
              Without(hist, i)[k] = IF k < i THEN hist[k] ELSE hist[k + 1]
<1> DEFINE front == SubSeq(hist, 1, i - 1)
           back  == SubSeq(hist, i + 1, Len(hist))
<1>1. /\ Len(hist) \in Nat /\ DOMAIN hist = 1..Len(hist) /\ i \in 1..Len(hist)
      /\ \A j \in 1..Len(hist) : hist[j] \in Record
  BY LenProperties
<1>2. /\ front \in Seq(Record) /\ Len(front) = i - 1
      /\ \A k \in 1..(i - 1) : front[k] = hist[k]
  <2>1. \A j \in 1..(i - 1) : hist[j] \in Record
    BY <1>1
  <2> QED
    BY <1>1, <2>1, SubSeqProperties
<1>3. /\ back \in Seq(Record) /\ Len(back) = Len(hist) - i
      /\ \A k \in 1..(Len(hist) - i) : back[k] = hist[i + k]
  <2>1. \A j \in (i + 1)..Len(hist) : hist[j] \in Record
    BY <1>1
  <2> QED
    BY <1>1, <2>1, SubSeqProperties
<1>4. Without(hist, i) = front \o back
  BY DEF Without
<1> HIDE DEF front, back
<1>5. /\ front \o back \in Seq(Record) /\ Len(front \o back) = Len(front) + Len(back)
      /\ \A k \in 1..(Len(front) + Len(back)) :
           (front \o back)[k] = IF k <= Len(front) THEN front[k] ELSE back[k - Len(front)]
  BY <1>2, <1>3, ConcatProperties
<1>6. ASSUME NEW k \in 1..(Len(hist) - 1)
      PROVE  Without(hist, i)[k] = IF k < i THEN hist[k] ELSE hist[k + 1]
  <2>1. CASE k < i
    BY <1>1, <1>2, <1>3, <1>4, <1>5, <2>1
  <2>2. CASE k >= i
    <3>1. k - Len(front) \in 1..(Len(hist) - i) /\ i + (k - Len(front)) = k + 1
      BY <1>1, <1>2, <2>2
    <3>2. k \in 1..(Len(front) + Len(back)) /\ ~(k <= Len(front))
      BY <1>1, <1>2, <1>3, <2>2
    <3>3. Without(hist, i)[k] = back[k - Len(front)]
      BY <1>4, <1>5, <3>2
    <3> QED
      BY <1>1, <1>3, <2>2, <3>1, <3>3
  <2> QED
    BY <1>1, <2>1, <2>2
<1> QED
  BY <1>1, <1>2, <1>3, <1>4, <1>5, <1>6

\* Every other record stays, possibly moved down by one, and none appears.
LEMMA EvictKeepsOthers ==
  ASSUME NEW hist \in Seq(Record), NEW i \in DOMAIN hist, NEW new, new = Without(hist, i)
  PROVE  /\ new \in Seq(Record)
         /\ \A j \in DOMAIN hist : j # i => \E k \in DOMAIN new : new[k] = hist[j]
         /\ \A k \in DOMAIN new : \E j \in DOMAIN hist : new[k] = hist[j]
<1>1. /\ Len(hist) \in Nat /\ DOMAIN hist = 1..Len(hist) /\ i \in 1..Len(hist)
  BY LenProperties
<1>5. /\ new \in Seq(Record) /\ DOMAIN new = 1..(Len(hist) - 1)
      /\ \A k \in 1..(Len(hist) - 1) : new[k] = IF k < i THEN hist[k] ELSE hist[k + 1]
  BY <1>1, WithoutElements, LenProperties
<1>6. ASSUME NEW j \in DOMAIN hist, j # i
      PROVE  \E k \in DOMAIN new : new[k] = hist[j]
  <2>1. CASE j < i
    BY <1>1, <1>5, <1>6, <2>1
  <2>2. CASE j > i
    <3>1. j - 1 \in DOMAIN new /\ new[j - 1] = hist[j]
      BY <1>1, <1>5, <1>6, <2>2
    <3> QED
      BY <3>1
  <2> QED
    BY <1>1, <1>6, <2>1, <2>2
<1>7. ASSUME NEW k \in DOMAIN new
      PROVE  \E j \in DOMAIN hist : new[k] = hist[j]
  <2>1. k \in DOMAIN hist /\ k + 1 \in DOMAIN hist
    BY <1>1, <1>5, <1>7
  <2> QED
    BY <1>5, <1>7, <2>1
<1> QED
  BY <1>5, <1>6, <1>7

-----------------------------------------------------------------------------
(***************************************************************************)
(* The inductive invariant.  A copy outlives the state it was taken from,  *)
(* so what is proved of the tracker is proved of every copy too, and an    *)
(* answer is what renderSnapshot makes of its copy.  Ids are bounded by    *)
(* nextID, without which "the newest" of them need not exist.              *)
(***************************************************************************)
IdsBounded(hist) == \A i \in DOMAIN hist : hist[i].id <= nextID

RequestShape ==
  \E R : request \in [Handler -> [state : {"idle", "copied", "answered"},
                                  snapshot : SnapshotType, response : R]]

CopyInv ==
  \A h \in Handler :
    /\ Retained(request[h].snapshot.active, request[h].snapshot.history)
    /\ IdsBounded(request[h].snapshot.history)
    /\ request[h].state = "answered" =>
         request[h].response = renderSnapshot(request[h].snapshot)

IInv == TypeOK /\ RequestShape /\ ActiveRetained /\ IdsBounded(history) /\ CopyInv

\* The invariant holds of a new tracker.
LEMMA InitInv == Init => IInv
<1> SUFFICES ASSUME Init PROVE IInv
  OBVIOUS
<1>1. NoSnapshot \in SnapshotType /\ Retained(NoSnapshot.active, NoSnapshot.history)
      /\ DOMAIN NoSnapshot.history = {}
  BY DEF NoSnapshot, SnapshotType, NoID, Retained
<1>2. TypeOK
  BY <1>1 DEF Init, TypeOK, Idle, NoID
<1>3. RequestShape
  <2>1. request \in [Handler -> [state : {"idle", "copied", "answered"},
                                 snapshot : SnapshotType, response : {NoResponse}]]
    BY <1>1 DEF Init, Idle
  <2> QED
    BY <2>1 DEF RequestShape
<1>4. ActiveRetained /\ IdsBounded(history)
  BY DEF Init, ActiveRetained, Retained, IdsBounded, NoID
<1>5. CopyInv
  BY <1>1 DEF Init, CopyInv, Idle, IdsBounded
<1> QED
  BY <1>2, <1>3, <1>4, <1>5 DEF IInv

\* The daemon's steps: the requests and their copies are left alone.
LEMMA CopiesKept ==
  ASSUME IInv, UNCHANGED request, nextID' \in Nat, nextID <= nextID'
  PROVE  RequestShape' /\ CopyInv'
         /\ \A h \in Handler : /\ request'[h].state \in {"idle", "copied", "answered"}
                               /\ request'[h].snapshot \in SnapshotType
<1>1. RequestShape'
  BY DEF IInv, RequestShape
<1>2. ASSUME NEW h \in Handler
      PROVE  IdsBounded(request[h].snapshot.history)'
  <2>1. request[h].snapshot.history \in Seq(Record) /\ nextID \in Nat
    BY DEF IInv, TypeOK, SnapshotType
  <2>2. \A i \in DOMAIN request[h].snapshot.history :
          request[h].snapshot.history[i].id \in Nat
    BY <2>1, IdsNatural
  <2> QED
    BY <2>1, <2>2 DEF IInv, CopyInv, IdsBounded
<1>3. CopyInv'
  BY <1>2 DEF IInv, CopyInv, Retained
<1> QED
  BY <1>1, <1>3 DEF IInv, TypeOK

\* Fail, up to the eviction: the new record is the one its concern refers to.
LEMMA FailInv ==
  ASSUME IInv, NEW c \in Concern, Fail(c)
  PROVE  IInv'
<1> DEFINE record == [id |-> nextID + 1, concern |-> c]
<1>1. nextID \in Nat /\ nextID' = nextID + 1 /\ record \in Record /\ history \in Seq(Record)
      /\ active \in [Concern -> Nat]
  BY DEF IInv, TypeOK, Fail, Record
<1>2. history' = Append(history, record) /\ active' = [active EXCEPT ![c] = nextID + 1]
  BY <1>1 DEF Fail
<1> HIDE DEF record
<1>3. /\ history' \in Seq(Record) /\ Len(history) \in Nat
      /\ DOMAIN history = 1..Len(history) /\ DOMAIN history' = 1..(Len(history) + 1)
      /\ \A i \in DOMAIN history : history'[i] = history[i] /\ history[i] \in Record
      /\ history'[Len(history) + 1] = record
  BY <1>1, <1>2, AppendProperties, LenProperties
<1>4. RequestShape' /\ CopyInv'
      /\ \A h \in Handler : /\ request'[h].state \in {"idle", "copied", "answered"}
                            /\ request'[h].snapshot \in SnapshotType
  BY <1>1, CopiesKept DEF Fail
<1>5. TypeOK'
  BY <1>1, <1>2, <1>3, <1>4 DEF TypeOK, IInv, Fail
<1>6. ActiveRetained'
  <2> SUFFICES ASSUME NEW d \in Concern, active'[d] # NoID
               PROVE  \E i \in DOMAIN history' :
                        history'[i].id = active'[d] /\ history'[i].concern = d
    BY DEF ActiveRetained, Retained
  <2>1. CASE d = c
    <3>1. history'[Len(history) + 1].id = nextID + 1 /\ history'[Len(history) + 1].concern = c
      BY <1>3 DEF record
    <3>2. active'[d] = nextID + 1
      BY <1>1, <1>2, <2>1
    <3>3. Len(history) + 1 \in DOMAIN history'
      BY <1>3
    <3> QED
      BY <2>1, <3>1, <3>2, <3>3
  <2>2. CASE d # c
    <3>1. active[d] = active'[d]
      BY <1>1, <1>2, <2>2
    <3>2. PICK i \in DOMAIN history : history[i].id = active[d] /\ history[i].concern = d
      BY <3>1 DEF IInv, ActiveRetained, Retained
    <3> QED
      BY <1>3, <3>1, <3>2
  <2> QED
    BY <2>1, <2>2
<1>7. IdsBounded(history)'
  <2>1. \A i \in DOMAIN history : history[i].id \in Nat /\ history[i].id <= nextID
    BY <1>3 DEF IInv, IdsBounded, Record
  <2>2. record.id = nextID + 1
    BY DEF record
  <2> QED
    BY <1>1, <1>3, <2>1, <2>2 DEF IdsBounded
<1> QED
  BY <1>4, <1>5, <1>6, <1>7 DEF IInv

\* One iteration of evictHistory: the record that goes is nobody's active one.
LEMMA EvictInv ==
  ASSUME IInv, EvictRecord
  PROVE  IInv'
<1>0. nextID \in Nat /\ history \in Seq(Record)
  BY DEF IInv, TypeOK
<1>1. PICK i \in DOMAIN history : Evictable(i) /\ history' = Without(history, i)
  BY DEF EvictRecord, Without
<1>2. /\ history' \in Seq(Record)
      /\ \A j \in DOMAIN history : j # i => \E k \in DOMAIN history' : history'[k] = history[j]
      /\ \A k \in DOMAIN history' : \E j \in DOMAIN history : history'[k] = history[j]
  BY <1>0, <1>1, EvictKeepsOthers
<1>3. RequestShape' /\ CopyInv'
      /\ \A h \in Handler : /\ request'[h].state \in {"idle", "copied", "answered"}
                            /\ request'[h].snapshot \in SnapshotType
  BY <1>0, CopiesKept DEF EvictRecord
<1>4. TypeOK'
  BY <1>2, <1>3 DEF IInv, TypeOK, EvictRecord
<1>5. ActiveRetained'
  <2> SUFFICES ASSUME NEW d \in Concern, active[d] # NoID
               PROVE  \E k \in DOMAIN history' :
                        history'[k].id = active[d] /\ history'[k].concern = d
    BY DEF ActiveRetained, Retained, EvictRecord
  <2>1. PICK j \in DOMAIN history : history[j].id = active[d] /\ history[j].concern = d
    BY DEF IInv, ActiveRetained, Retained
  <2>2. j # i
    BY <1>1, <2>1 DEF Evictable, isActive
  <2> QED
    BY <1>2, <2>1, <2>2
<1>6. IdsBounded(history)'
  BY <1>2 DEF IInv, IdsBounded, EvictRecord
<1> QED
  BY <1>3, <1>4, <1>5, <1>6 DEF IInv

\* The steps that change neither the history nor what a request holds.
LEMMA QuietInv ==
  ASSUME IInv,
         \/ BeginInitialization \/ CompleteInitialization \/ FailReturns
         \/ \E c \in Concern : Recover(c)
         \/ UNCHANGED vars
  PROVE  IInv'
<1>1. /\ UNCHANGED <<history, nextID, request>>
      /\ active' = active \/ \E c \in Concern : active' = [active EXCEPT ![c] = NoID]
      /\ lock' \in {"free", "evicting"} /\ ready' \in BOOLEAN
  BY DEF IInv, TypeOK, BeginInitialization, CompleteInitialization, FailReturns, Recover, vars
<1>2. nextID \in Nat /\ active \in [Concern -> Nat]
  BY DEF IInv, TypeOK
<1>3. active' \in [Concern -> Nat] /\ \A c \in Concern : active'[c] \in {active[c], NoID}
  BY <1>1, <1>2 DEF NoID
<1>4. RequestShape' /\ CopyInv'
      /\ \A h \in Handler : /\ request'[h].state \in {"idle", "copied", "answered"}
                            /\ request'[h].snapshot \in SnapshotType
  BY <1>1, <1>2, CopiesKept
<1>5. TypeOK'
  BY <1>1, <1>3, <1>4 DEF IInv, TypeOK
<1>6. ActiveRetained'
  BY <1>1, <1>3 DEF IInv, ActiveRetained, Retained
<1>7. IdsBounded(history)'
  BY <1>1 DEF IInv, IdsBounded
<1> QED
  BY <1>4, <1>5, <1>6, <1>7 DEF IInv

\* The steps of a request: the tracker is left alone.
LEMMA RequestInv ==
  ASSUME IInv, NEW h \in Handler, Snapshot(h) \/ Respond(h) \/ Done(h)
  PROVE  IInv'
<1> DEFINE copy == [ready |-> ready, active |-> active, history |-> history]
<1>1. UNCHANGED <<lock, ready, active, history, nextID>>
  BY DEF Snapshot, Respond, Done
<1>2. PICK R : request \in [Handler -> [state : {"idle", "copied", "answered"},
                                       snapshot : SnapshotType, response : R]]
  BY DEF IInv, RequestShape
<1>3. /\ copy \in SnapshotType /\ Retained(copy.active, copy.history)
      /\ IdsBounded(copy.history)
  BY DEF IInv, TypeOK, SnapshotType, ActiveRetained
<1>4. /\ NoSnapshot \in SnapshotType /\ Retained(NoSnapshot.active, NoSnapshot.history)
      /\ IdsBounded(NoSnapshot.history)
  BY DEF NoSnapshot, SnapshotType, NoID, Retained, IdsBounded
<1> HIDE DEF copy
<1>5. /\ \A g \in Handler : g # h => request'[g] = request[g]
      /\ request'[h].state \in {"idle", "copied", "answered"}
      /\ request'[h].snapshot \in SnapshotType
      /\ Retained(request'[h].snapshot.active, request'[h].snapshot.history)
      /\ IdsBounded(request'[h].snapshot.history)
      /\ request'[h].state = "answered" =>
           request'[h].response = renderSnapshot(request'[h].snapshot)
  <2>1. CASE Snapshot(h)
    <3>1. /\ request'[h].state = "copied" /\ request'[h].snapshot = copy
          /\ \A g \in Handler : g # h => request'[g] = request[g]
      BY <1>2, <2>1 DEF Snapshot, copy
    <3> QED
      BY <1>3, <3>1
  <2>2. CASE Respond(h)
    <3>1. /\ request'[h].state = "answered"
          /\ request'[h].snapshot = request[h].snapshot
          /\ request'[h].response = renderSnapshot(request[h].snapshot)
          /\ \A g \in Handler : g # h => request'[g] = request[g]
      BY <1>2, <2>2 DEF Respond
    <3>2. request[h].snapshot \in SnapshotType
      BY <1>2
    <3> QED
      BY <3>1, <3>2 DEF IInv, CopyInv
  <2>3. CASE Done(h)
    <3>1. /\ request'[h].state = "idle" /\ request'[h].snapshot = NoSnapshot
          /\ \A g \in Handler : g # h => request'[g] = request[g]
      BY <1>2, <2>3 DEF Done, Idle
    <3> QED
      BY <1>4, <3>1
  <2> QED
    BY <2>1, <2>2, <2>3
<1>6. RequestShape'
  <2> DEFINE R2 == R \cup {renderSnapshot(request[h].snapshot), NoResponse}
             Shape == [state : {"idle", "copied", "answered"},
                       snapshot : SnapshotType, response : R2]
  <2>1. request \in [Handler -> Shape]
    BY <1>2
  <2>2. request' \in [Handler -> Shape]
    <3>1. CASE Snapshot(h)
      BY <1>3, <2>1, <3>1 DEF Snapshot, copy
    <3>2. CASE Respond(h)
      BY <2>1, <3>2 DEF Respond
    <3>3. CASE Done(h)
      BY <1>4, <2>1, <3>3 DEF Done, Idle
    <3> QED
      BY <3>1, <3>2, <3>3
  <2> QED
    BY <2>2 DEF RequestShape
<1>7. TypeOK'
  BY <1>1, <1>5 DEF IInv, TypeOK
<1>8. CopyInv'
  BY <1>1, <1>5 DEF IInv, CopyInv, IdsBounded, Retained
<1>9. ActiveRetained' /\ IdsBounded(history)'
  BY <1>1 DEF IInv, ActiveRetained, Retained, IdsBounded
<1> QED
  BY <1>6, <1>7, <1>8, <1>9 DEF IInv

\* Every step preserves the invariant.
LEMMA NextInv == IInv /\ [Next]_vars => IInv'
<1> SUFFICES ASSUME IInv, [Next]_vars PROVE IInv'
  OBVIOUS
<1>1. CASE \E c \in Concern : Fail(c)
  BY <1>1, FailInv
<1>2. CASE EvictRecord
  BY <1>2, EvictInv
<1>3. CASE \E h \in Handler : Snapshot(h) \/ Respond(h) \/ Done(h)
  BY <1>3, RequestInv
<1>4. CASE \/ BeginInitialization \/ CompleteInitialization \/ FailReturns
           \/ \E c \in Concern : Recover(c)
           \/ UNCHANGED vars
  BY <1>4, QuietInv
<1> QED
  BY <1>1, <1>2, <1>3, <1>4 DEF Next

\* So it always holds.
LEMMA Invariance == Spec => []IInv
<1>1. Init => IInv
  BY InitInv
<1>2. IInv /\ [Next]_vars => IInv'
  BY NextInv
<1> QED
  BY <1>1, <1>2, PTL DEF Spec

-----------------------------------------------------------------------------
(***************************************************************************)
(* The tracker and every copy of it have their types.                      *)
(***************************************************************************)
THEOREM TrackerTypes == Spec => []TypeOK
<1>1. IInv => TypeOK
  BY DEF IInv
<1> QED
  BY <1>1, Invariance, PTL

(***************************************************************************)
(* evictHistory never drops the record of an active concern, for any limit *)
(* and any number of failures.                                             *)
(***************************************************************************)
THEOREM ActiveNeverEvicted == Spec => []ActiveRetained
<1>1. IInv => ActiveRetained
  BY DEF IInv
<1> QED
  BY <1>1, Invariance, PTL

\* In a copy that retains its active records the newest one is the newest of all.
LEMMA NewestFound ==
  ASSUME NEW s \in SnapshotType, Retained(s.active, s.history), NEW n \in Nat,
         \A i \in DOMAIN s.history : s.history[i].id <= n,
         ActiveIDs(s.active) # {}
  PROVE  /\ newestActive(s) # NoID
         /\ \A c \in Concern : s.active[c] <= newestActive(s)
<1> DEFINE ids == {s.history[i].id : i \in DOMAIN s.history} \cap ActiveIDs(s.active)
<1>1. s.history \in Seq(Record) /\ s.active \in [Concern -> Nat]
  BY DEF SnapshotType
<1>2. \A c \in Concern : s.active[c] # NoID => s.active[c] \in ids
  BY DEF Retained, ActiveIDs
<1>3. ids # {}
  BY <1>2 DEF ActiveIDs
<1>4. ids \subseteq Nat /\ \A x \in ids : x <= n /\ x # NoID
  BY <1>1, IdsNatural DEF ActiveIDs
<1>5. newestActive(s) = CHOOSE id \in ids : \A other \in ids : other <= id
  BY <1>3 DEF newestActive
<1> HIDE DEF ids
<1>6. \E m \in ids : \A x \in ids : x <= m
  BY <1>3, <1>4, LargestExists
<1>7. newestActive(s) \in ids /\ \A x \in ids : x <= newestActive(s)
  BY <1>5, <1>6
<1>8. newestActive(s) \in Nat /\ newestActive(s) # NoID
  BY <1>4, <1>7
<1>9. ASSUME NEW c \in Concern PROVE s.active[c] <= newestActive(s)
  <2>1. CASE s.active[c] = NoID
    BY <1>8, <2>1 DEF NoID
  <2>2. CASE s.active[c] # NoID
    BY <1>2, <1>7, <2>2
  <2> QED
    BY <2>1, <2>2
<1> QED
  BY <1>8, <1>9

(***************************************************************************)
(* A degraded answer always finds its reason: renderSnapshot's dereference *)
(* of newestActive is safe in every copy a request can hold.               *)
(***************************************************************************)
THEOREM AnswersFindTheirReason == Spec => []ReasonFound
<1>1. IInv => ReasonFound
  <2> SUFFICES ASSUME IInv, NEW h \in Handler, request[h].state = "answered",
                      request[h].snapshot.ready, ~request[h].response.healthy
               PROVE  /\ request[h].response.reason # NoID
                      /\ \A c \in Concern :
                           request[h].snapshot.active[c] <= request[h].response.reason
    BY DEF ReasonFound
  <2> DEFINE s == request[h].snapshot
  <2>1. /\ s \in SnapshotType /\ Retained(s.active, s.history)
        /\ \A i \in DOMAIN s.history : s.history[i].id <= nextID
        /\ nextID \in Nat
        /\ request[h].response = renderSnapshot(s)
    BY DEF IInv, TypeOK, CopyInv, IdsBounded
  <2>2. ActiveIDs(s.active) # {} /\ request[h].response.reason = newestActive(s)
    <3>1. renderSnapshot(s).healthy = (s.ready /\ ActiveIDs(s.active) = {})
      BY DEF renderSnapshot
    <3>2. ~(s.ready /\ ActiveIDs(s.active) = {}) /\ s.ready
      BY <2>1, <3>1
    <3>3. renderSnapshot(s).reason = newestActive(s)
      BY <3>2 DEF renderSnapshot
    <3> QED
      BY <2>1, <3>2, <3>3
  <2> HIDE DEF s
  <2>3. /\ newestActive(s) # NoID
        /\ \A c \in Concern : s.active[c] <= newestActive(s)
    BY <2>1, <2>2, NewestFound
  <2> QED
    BY <2>2, <2>3 DEF s
<1> QED
  BY <1>1, Invariance, PTL
-----------------------------------------------------------------------------
(***************************************************************************)
(* The limit on the history.  Ids grow along the history, so no two        *)
(* records share one and at most one record per concern is active.  When   *)
(* the loop of evictHistory gives up above the limit every record is       *)
(* active, which bounds the history by the number of concerns; a Recover   *)
(* after that changes active and not the history.                          *)
(***************************************************************************)
Increasing(hist) == \A i, j \in DOMAIN hist : i < j => hist[i].id < hist[j].id

\* A sequence that holds one active record per concern at most is no longer than them.
LEMMA ActivesAreFew ==
  ASSUME IInv, Increasing(history), \A i \in DOMAIN history : isActive(history[i].id)
  PROVE  Len(history) <= Cardinality(Concern)
<1> DEFINE owner == [i \in 1..Len(history) |->
                       CHOOSE c \in Concern : active[c] = history[i].id]
<1>1. history \in Seq(Record) /\ Len(history) \in Nat /\ DOMAIN history = 1..Len(history)
  BY LenProperties DEF IInv, TypeOK
<1>2. \A i \in 1..Len(history) : owner[i] \in Concern /\ active[owner[i]] = history[i].id
  BY <1>1 DEF isActive
<1>3. \A i, j \in 1..Len(history) : i # j => history[i].id # history[j].id
  <2>1. \A i \in 1..Len(history) : history[i].id \in Nat
    BY <1>1, IdsNatural
  <2> QED
    BY <1>1, <2>1 DEF Increasing
<1>4. owner \in [1..Len(history) -> Concern]
  BY <1>2
<1>5. \A i, j \in 1..Len(history) : owner[i] = owner[j] => i = j
  BY <1>2, <1>3
<1> HIDE DEF owner
<1>6. owner \in Injection(1..Len(history), Concern)
  BY <1>4, <1>5 DEF Injection, IsInjective
<1>7. Cardinality(1..Len(history)) <= Cardinality(Concern)
  BY <1>6, FS_Injection, TrackerAssumption
<1>8. Cardinality(1..Len(history)) = IF 1 > Len(history) THEN 0 ELSE Len(history) - 1 + 1
  BY <1>1, FS_Interval
<1>9. Cardinality(1..Len(history)) = Len(history)
  BY <1>1, <1>8
<1> QED
  BY <1>7, <1>9

\* evictHistory finds a record to evict whenever some record is not active.
LEMMA FirstInactive ==
  ASSUME IInv, \A i \in DOMAIN history : ~Evictable(i)
  PROVE  \A i \in DOMAIN history : isActive(history[i].id)
<1> DEFINE Inactive == {i \in DOMAIN history : ~isActive(history[i].id)}
<1>1. Len(history) \in Nat /\ DOMAIN history = 1..Len(history)
  BY LenProperties DEF IInv, TypeOK
<1> SUFFICES ASSUME Inactive # {} PROVE FALSE
  OBVIOUS
<1>2. Inactive \subseteq Nat
  BY <1>1
<1> HIDE DEF Inactive
<1>3. PICK i \in Inactive : \A j \in Inactive : ~(<<j, i>> \in OpToRel(<, Nat))
  BY <1>2, WFMin, NatLessThanWellFounded
<1>4. \A j \in Inactive : ~(j < i)
  BY <1>2, <1>3 DEF OpToRel
<1>5. i \in DOMAIN history /\ ~isActive(history[i].id)
  BY DEF Inactive
<1>6. \A j \in 1..(i - 1) : j \in DOMAIN history /\ j < i
  BY <1>1, <1>5
<1>7. \A j \in 1..(i - 1) : isActive(history[j].id)
  BY <1>4, <1>6 DEF Inactive
<1> QED
  BY <1>5, <1>7 DEF Evictable

BoundInv == Increasing(history) /\ HistoryBounded

\* Each step keeps the ids increasing, and the limit whenever the lock is free.
LEMMA BoundStep ==
  ASSUME IInv, BoundInv, [Next]_vars
  PROVE  BoundInv'
<1>1. /\ history \in Seq(Record) /\ Len(history) \in Nat /\ nextID \in Nat
      /\ DOMAIN history = 1..Len(history)
      /\ \A i \in DOMAIN history : history[i].id \in Nat /\ history[i].id <= nextID
  BY LenProperties, IdsNatural DEF IInv, TypeOK, IdsBounded
<1>2. CASE \E c \in Concern : Fail(c)
  <2>1. PICK c \in Concern : Fail(c)
    BY <1>2
  <2> DEFINE record == [id |-> nextID + 1, concern |-> c]
  <2>2. /\ lock' = "evicting" /\ history' = Append(history, record)
        /\ record \in Record /\ record.id = nextID + 1
    BY <1>1, <2>1 DEF Fail, Record
  <2> HIDE DEF record
  <2>3. /\ DOMAIN history' = 1..(Len(history) + 1)
        /\ \A i \in DOMAIN history : history'[i] = history[i]
        /\ history'[Len(history) + 1] = record
    BY <1>1, <2>2, AppendProperties, LenProperties
  <2>4. ASSUME NEW i \in DOMAIN history', NEW j \in DOMAIN history', i < j
        PROVE  history'[i].id < history'[j].id
    <3>1. i \in DOMAIN history /\ history'[i] = history[i]
      BY <1>1, <2>3, <2>4
    <3>2. CASE j \in DOMAIN history
      BY <2>3, <2>4, <3>1, <3>2 DEF BoundInv, Increasing
    <3>3. CASE j = Len(history) + 1
      BY <1>1, <2>2, <2>3, <3>1, <3>3
    <3> QED
      BY <1>1, <2>3, <3>2, <3>3
  <2> QED
    BY <2>2, <2>4 DEF BoundInv, Increasing, HistoryBounded
<1>3. CASE EvictRecord
  <2>1. PICK i \in DOMAIN history : history' = Without(history, i)
    BY <1>3 DEF EvictRecord, Without
  <2>2. /\ lock' = "evicting"
        /\ DOMAIN history' = 1..(Len(history) - 1)
        /\ \A k \in 1..(Len(history) - 1) :
             history'[k] = IF k < i THEN history[k] ELSE history[k + 1]
    <3>1. /\ Without(history, i) \in Seq(Record)
          /\ Len(Without(history, i)) = Len(history) - 1
          /\ \A k \in 1..(Len(history) - 1) :
               Without(history, i)[k] = IF k < i THEN history[k] ELSE history[k + 1]
      BY <1>1, WithoutElements
    <3>2. DOMAIN history' = 1..(Len(history) - 1)
      BY <2>1, <3>1, LenProperties
    <3> QED
      BY <1>3, <2>1, <3>1, <3>2 DEF EvictRecord
  <2>3. ASSUME NEW k \in DOMAIN history', NEW l \in DOMAIN history', k < l
        PROVE  history'[k].id < history'[l].id
    <3> DEFINE from(m) == IF m < i THEN m ELSE m + 1
    <3>1. /\ from(k) \in DOMAIN history /\ from(l) \in DOMAIN history /\ from(k) < from(l)
      BY <1>1, <2>2, <2>3
    <3>2. history'[k] = history[from(k)] /\ history'[l] = history[from(l)]
      BY <2>2
    <3> HIDE DEF from
    <3> QED
      BY <3>1, <3>2 DEF BoundInv, Increasing
  <2> QED
    BY <2>2, <2>3 DEF BoundInv, Increasing, HistoryBounded
<1>4. CASE FailReturns
  <2>1. UNCHANGED history /\ (Len(history) <= MaxHistory \/ \A i \in DOMAIN history : ~Evictable(i))
    BY <1>4 DEF FailReturns
  <2>2. Len(history) <= MaxHistory \/ Len(history) <= Cardinality(Concern)
    BY <2>1, FirstInactive, ActivesAreFew DEF BoundInv
  <2> QED
    BY <2>1, <2>2 DEF BoundInv, Increasing, HistoryBounded
<1>5. CASE \/ BeginInitialization \/ CompleteInitialization
           \/ \E c \in Concern : Recover(c)
           \/ \E h \in Handler : Snapshot(h) \/ Respond(h) \/ Done(h)
           \/ UNCHANGED vars
  <2>1. UNCHANGED <<history, lock>>
    BY <1>5 DEF BeginInitialization, CompleteInitialization, Recover, Snapshot, Respond, Done,
                vars
  <2> QED
    BY <2>1 DEF BoundInv, Increasing, HistoryBounded
<1> QED
  BY <1>2, <1>3, <1>4, <1>5 DEF Next

(***************************************************************************)
(* evictHistory keeps the history within its limit, or within the number   *)
(* of concerns when those alone exceed it, whenever the lock is free.      *)
(***************************************************************************)
THEOREM HistoryIsBounded == Spec => []HistoryBounded
<1>1. Init => BoundInv
  BY TrackerAssumption DEF Init, BoundInv, Increasing, HistoryBounded
<1>2. IInv /\ BoundInv /\ [Next]_vars => BoundInv'
  BY BoundStep
<1>3. BoundInv => HistoryBounded
  BY DEF BoundInv
<1> QED
  BY <1>1, <1>2, <1>3, Invariance, PTL DEF Spec
============================================================================
