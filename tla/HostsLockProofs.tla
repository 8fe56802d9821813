--------------------------- MODULE HostsLockProofs ---------------------------
(***************************************************************************)
(* Proofs about HostsLock, for any number of processes, directories and    *)
(* links and all Straight paths: at most one process at a time works on a  *)
(* hosts file, and no process overwrites what another wrote after it had   *)
(* read.                                                                   *)
(***************************************************************************)
EXTENDS HostsLock, WellFoundedInduction, TLAPS

-----------------------------------------------------------------------------
(***************************************************************************)
(* Paths.  Way is a CHOOSE: there is a way over every sequence of names,   *)
(* and only one.                                                           *)
(***************************************************************************)
Component == Name \cup {Up}

\* A nonempty set of naturals has a least member.
LEMMA LeastOf ==
  ASSUME NEW S, S \subseteq Nat, S # {}
  PROVE  \E m \in S : \A x \in S : m <= x
<1>1. PICK m \in S : \A x \in S : ~(<<x, m>> \in OpToRel(<, Nat))
  BY WFMin, NatLessThanWellFounded
<1>2. \A x \in S : ~(x < m)
  BY <1>1 DEF OpToRel
<1> QED
  BY <1>2

\* The kernel gets somewhere over any names: else there would be a shortest
\* beginning of them over which it does not, and it gets over all but its last.
LEMMA WayExists ==
  ASSUME NEW d \in Dir, NEW s \in Seq(Component)
  PROVE  \E w \in [0..Len(s) -> Dir] : IsWay(w, d, s)
<1> DEFINE Upto(m, w) == /\ w \in [0..m -> Dir] /\ w[0] = d
                         /\ \A i \in 1..m : w[i] = Enter[<<w[i - 1], s[i]>>]
           Bad == {m \in 0..Len(s) : ~\E w : Upto(m, w)}
<1>1. Len(s) \in Nat
  OBVIOUS
<1>2. CASE Bad = {}
  <2>1. PICK w : Upto(Len(s), w)
    BY <1>1, <1>2
  <2> QED
    BY <2>1 DEF IsWay
<1>3. CASE Bad # {}
  <2>1. PICK m \in Bad : \A x \in Bad : m <= x
    <3>1. Bad \subseteq Nat
      BY <1>1
    <3> HIDE DEF Bad
    <3> QED
      BY <1>3, <3>1, LeastOf
  <2>2. m \in Nat /\ m <= Len(s) /\ ~\E w : Upto(m, w)
    <3> HIDE DEF Upto
    <3> QED
      BY <1>1, <2>1
  <2>3. m # 0
    <3>1. Upto(0, [i \in 0..0 |-> d])
      OBVIOUS
    <3> QED
      BY <2>2, <3>1
  <2>4. m - 1 \in 0..Len(s) /\ m - 1 \notin Bad
    BY <1>1, <2>1, <2>2, <2>3
  <2>5. PICK w : Upto(m - 1, w)
    BY <2>4
  <2> DEFINE e == Enter[<<w[m - 1], s[m]>>]
             v == [i \in 0..m |-> IF i = m THEN e ELSE w[i]]
  <2>6. e \in Dir
    <3>1. w[m - 1] \in Dir /\ s[m] \in Component
      BY <2>2, <2>3, <2>5
    <3> QED
      BY <3>1, HostsLockAssumption DEF Component
  <2> HIDE DEF e
  <2>7. v \in [0..m -> Dir] /\ v[0] = d
    BY <2>2, <2>3, <2>5, <2>6
  <2>8. ASSUME NEW i \in 1..m PROVE v[i] = Enter[<<v[i - 1], s[i]>>]
    <3>1. CASE i = m
      <4>1. v[m] = e /\ v[m - 1] = w[m - 1]
        BY <2>2, <2>3
      <4> HIDE DEF v
      <4> QED
        BY <3>1, <4>1 DEF e
    <3>2. CASE i # m
      BY <2>2, <2>3, <2>5, <3>2
    <3> QED
      BY <3>1, <3>2
  <2> QED
    BY <2>2, <2>7, <2>8
<1> QED
  BY <1>2, <1>3

\* It is deterministic: two ways would part at a first place.
LEMMA WayUnique ==
  ASSUME NEW d \in Dir, NEW s \in Seq(Component),
         NEW v \in [0..Len(s) -> Dir], IsWay(v, d, s),
         NEW w \in [0..Len(s) -> Dir], IsWay(w, d, s)
  PROVE  v = w
<1> DEFINE Apart == {i \in 0..Len(s) : v[i] # w[i]}
<1>1. Len(s) \in Nat
  OBVIOUS
<1>2. SUFFICES ASSUME Apart # {} PROVE FALSE
  BY <1>1
<1>3. PICK i \in Apart : \A x \in Apart : i <= x
  <2>1. Apart \subseteq Nat
    BY <1>1
  <2> HIDE DEF Apart
  <2> QED
    BY <1>2, <2>1, LeastOf
<1>4. i # 0
  BY <1>3 DEF IsWay
<1>5. i \in 1..Len(s) /\ i - 1 \in 0..Len(s) /\ i - 1 \notin Apart
  BY <1>1, <1>3, <1>4
<1>6. v[i - 1] = w[i - 1]
  BY <1>5
<1>7. v[i] = w[i]
  BY <1>5, <1>6 DEF IsWay
<1> QED
  BY <1>3, <1>7

LEMMA WayWorks ==
  ASSUME NEW d \in Dir, NEW s \in Seq(Component)
  PROVE  /\ Way(d, s) \in [0..Len(s) -> Dir] /\ IsWay(Way(d, s), d, s)
         /\ Walk(d, s) \in Dir
<1>1. Way(d, s) \in [0..Len(s) -> Dir] /\ IsWay(Way(d, s), d, s)
  BY WayExists, Zenon DEF Way
<1>2. Len(s) \in Nat /\ Len(s) \in 0..Len(s)
  OBVIOUS
<1> QED
  BY <1>1, <1>2 DEF Walk

\* To walk over two sequences is to walk over one after the other.
LEMMA WalkOn ==
  ASSUME NEW d \in Dir, NEW s \in Seq(Component), NEW t \in Seq(Component)
  PROVE  Walk(d, s \o t) = Walk(Walk(d, s), t)
<1> DEFINE m == Len(s)
           n == Len(t)
           v == Way(d, s)
           w == Way(Walk(d, s), t)
           u == [i \in 0..(m + n) |-> IF i <= m THEN v[i] ELSE w[i - m]]
<1>1. /\ m \in Nat /\ n \in Nat /\ s \o t \in Seq(Component) /\ Len(s \o t) = m + n
      /\ \A i \in 1..(m + n) : (s \o t)[i] = IF i <= m THEN s[i] ELSE t[i - m]
  OBVIOUS
<1>2. v \in [0..m -> Dir] /\ IsWay(v, d, s) /\ v[m] = Walk(d, s) /\ v[m] \in Dir
  BY WayWorks DEF Walk
<1>3. w \in [0..n -> Dir] /\ IsWay(w, v[m], t) /\ w[n] = Walk(Walk(d, s), t)
  BY <1>2, WayWorks DEF Walk
<1> HIDE DEF m, n, v, w
<1>4. u \in [0..(m + n) -> Dir]
  BY <1>1, <1>2, <1>3
<1>5. u[0] = d
  BY <1>1, <1>2 DEF IsWay
<1>6. ASSUME NEW i \in 1..(m + n) PROVE u[i] = Enter[<<u[i - 1], (s \o t)[i]>>]
  <2>1. CASE i <= m
    <3>1. i \in 1..m /\ u[i] = v[i] /\ u[i - 1] = v[i - 1] /\ (s \o t)[i] = s[i]
      BY <1>1, <2>1
    <3> QED
      BY <1>2, <3>1 DEF IsWay, m
  <2>2. CASE ~(i <= m)
    <3>1. i - m \in 1..n /\ u[i] = w[i - m] /\ (s \o t)[i] = t[i - m]
      BY <1>1, <2>2
    <3>2. u[i - 1] = w[(i - m) - 1]
      <4>1. CASE i = m + 1
        BY <1>1, <1>3, <4>1 DEF IsWay
      <4>2. CASE i # m + 1
        BY <1>1, <2>2, <4>2
      <4> QED
        BY <4>1, <4>2
    <3> QED
      BY <1>3, <3>1, <3>2 DEF IsWay, n
  <2> QED
    BY <2>1, <2>2
<1> HIDE DEF u
<1>7. IsWay(u, d, s \o t)
  BY <1>1, <1>5, <1>6 DEF IsWay
<1>8. u = Way(d, s \o t)
  BY <1>1, <1>4, <1>7, WayUnique, WayWorks
<1>9. u[m + n] = w[n]
  <2>1. CASE n = 0
    BY <1>1, <1>3, <2>1 DEF u, IsWay
  <2>2. CASE n # 0
    BY <1>1, <2>2 DEF u
  <2> QED
    BY <2>1, <2>2
<1> QED
  BY <1>1, <1>3, <1>8, <1>9 DEF Walk

\* Climbing undoes what was entered, as far as the path is Straight; there is
\* nothing above the root.
LEMMA ClimbBack ==
  ASSUME NEW q \in Path, Straight(q)
  PROVE  Walk(Walk(Root, q.pwd), [i \in 1..q.up |-> Up]) =
         Walk(Root, SubSeq(q.pwd, 1, Len(q.pwd) - q.up))
<1> DEFINE n    == Len(q.pwd)
           k    == q.up
           w    == Way(Root, q.pwd)
           ups  == [i \in 1..k |-> Up]
           rest == SubSeq(q.pwd, 1, n - k)
           At(j) == IF j <= n THEN n - j ELSE 0
           v    == [j \in 0..k |-> w[At(j)]]
           u    == [j \in 0..At(k) |-> w[j]]
<1>1. q.pwd \in Seq(Name) /\ k \in Nat /\ n \in Nat
  BY HostsLockAssumption
<1>2. q.pwd \in Seq(Component) /\ Root \in Dir /\ Enter[<<Root, Up>>] = Root
  BY <1>1, HostsLockAssumption DEF Component
<1>3. w \in [0..n -> Dir] /\ IsWay(w, Root, q.pwd) /\ Walk(Root, q.pwd) = w[n]
  BY <1>2, WayWorks DEF Walk
<1>4. \A i \in 1..n : i > n - k => Enter[<<w[i], Up>>] = w[i - 1]
  BY DEF Straight
<1>5. ups \in Seq(Component) /\ Len(ups) = k
  BY <1>1 DEF Component
<1>6. /\ rest \in Seq(Component) /\ Len(rest) = At(k)
      /\ \A i \in 1..At(k) : rest[i] = q.pwd[i]
  BY <1>1, <1>2
<1>7. w[0] = Root /\ \A i \in 1..n : w[i] = Enter[<<w[i - 1], q.pwd[i]>>]
  BY <1>3 DEF IsWay
<1> HIDE DEF n, k, w, rest, ups
<1>8. \A j \in 0..k : At(j) \in 0..n
  BY <1>1
<1>9. v \in [0..k -> Dir] /\ v[0] = w[n]
  BY <1>1, <1>3, <1>8
<1>10. ASSUME NEW j \in 1..k PROVE v[j] = Enter[<<v[j - 1], Up>>]
  <2>1. v[j] = w[At(j)] /\ v[j - 1] = w[At(j - 1)]
    BY <1>1
  <2>2. CASE j <= n
    <3>1. n - (j - 1) \in 1..n /\ n - (j - 1) > n - k /\ (n - (j - 1)) - 1 = n - j
      BY <1>1, <2>2
    <3>2. Enter[<<w[n - (j - 1)], Up>>] = w[(n - (j - 1)) - 1]
      BY <1>4, <3>1
    <3>3. At(j) = n - j /\ At(j - 1) = n - (j - 1)
      BY <1>1, <2>2
    <3> HIDE DEF At, v
    <3> QED
      BY <2>1, <3>1, <3>2, <3>3
  <2>3. CASE ~(j <= n)
    <3>1. At(j) = 0 /\ At(j - 1) = 0
      BY <1>1, <2>3
    <3> HIDE DEF At, v
    <3> QED
      BY <1>2, <1>7, <2>1, <3>1
  <2> QED
    BY <2>2, <2>3
<1>11. IsWay(v, w[n], ups)
  <2>1. \A i \in 1..k : ups[i] = Up
    BY DEF ups
  <2> HIDE DEF v
  <2> QED
    BY <1>5, <1>9, <1>10, <2>1 DEF IsWay
<1>12. v[k] = Walk(w[n], ups)
  <2>1. w[n] \in Dir
    BY <1>1, <1>3
  <2>2. v = Way(w[n], ups)
    <3> HIDE DEF v
    <3> QED
      BY <1>5, <1>9, <1>11, <2>1, WayUnique, WayWorks
  <2> HIDE DEF v
  <2> QED
    BY <1>5, <2>2 DEF Walk
<1>13. u \in [0..At(k) -> Dir] /\ u[0] = Root
  BY <1>1, <1>3, <1>7, <1>8
<1>14. IsWay(u, Root, rest)
  <2>1. \A i \in 1..At(k) : /\ i \in 1..n /\ u[i] = w[i] /\ u[i - 1] = w[i - 1]
                            /\ rest[i] = q.pwd[i]
    BY <1>1, <1>6
  <2> HIDE DEF u, At
  <2> QED
    BY <1>6, <1>7, <1>13, <2>1 DEF IsWay
<1>15. u[At(k)] = Walk(Root, rest)
  <2>1. u = Way(Root, rest)
    <3> HIDE DEF u, At
    <3> QED
      BY <1>2, <1>6, <1>13, <1>14, WayUnique, WayWorks
  <2> HIDE DEF u, At
  <2> QED
    BY <1>6, <2>1 DEF Walk
<1>16. u[At(k)] = v[k]
  BY <1>1, <1>8
<1> QED
  BY <1>3, <1>12, <1>15, <1>16 DEF k, ups, rest, n

\* The lock of a Straight path lies beside the file that the store opens.
LEMMA LockBesideFile ==
  ASSUME NEW q \in Path, Straight(q)
  PROVE  Locked[q] = Opened[q]
<1> DEFINE ups  == [i \in 1..q.up |-> Up]
           rest == SubSeq(q.pwd, 1, Len(q.pwd) - q.up)
<1>1. /\ q.pwd \in Seq(Name) /\ q.dirs \in Seq(Name) /\ q.up \in Nat
      /\ q.absolute \in BOOLEAN /\ q.absolute => q.up = 0
  BY HostsLockAssumption
<1>2. /\ q.pwd \in Seq(Component) /\ q.dirs \in Seq(Component) /\ Root \in Dir
      /\ ups \in Seq(Component) /\ rest \in Seq(Component)
  BY <1>1, HostsLockAssumption DEF Component
<1>3. CASE q.absolute
  <2>1. ups \o q.dirs = q.dirs
    BY <1>1, <1>2, <1>3
  <2> QED
    BY <1>3, <2>1 DEF Locked, Opened, Abs
<1>4. CASE ~q.absolute
  <2>1. Walk(Root, q.pwd) \in Dir
    BY <1>2, WayWorks
  <2>2. /\ Locked[q] = <<Walk(Root, rest \o q.dirs), q.file>>
        /\ Opened[q] = <<Walk(Walk(Root, q.pwd), ups \o q.dirs), q.file>>
    BY <1>4 DEF Locked, Opened, Abs
  <2>3. Walk(Walk(Root, q.pwd), ups) = Walk(Root, rest)
    BY ClimbBack
  <2> HIDE DEF ups, rest
  <2> QED
    BY <1>2, <2>1, <2>2, <2>3, WalkOn
<1> QED
  BY <1>3, <1>4

\* Most paths are Straight: absolute ones, ones without "..", and all if no
\* component of $PWD is a symbolic link.
LEMMA OrdinaryPathsStraight ==
  ASSUME NEW q \in Path,
         \/ q.absolute
         \/ q.up = 0
         \/ \A i \in 1..Len(q.pwd) :
              Enter[<<Way(Root, q.pwd)[i], Up>>] = Way(Root, q.pwd)[i - 1]
  PROVE  Straight(q)
<1>1. q.pwd \in Seq(Name) /\ Len(q.pwd) \in Nat /\ (q.absolute => q.up = 0)
  BY HostsLockAssumption
<1> QED
  BY <1>1 DEF Straight

\* Lock and file are entries.
LEMMA Entries == Locked \in [Path -> Entry] /\ Opened \in [Path -> Entry]
<1> SUFFICES ASSUME NEW q \in Path PROVE Locked[q] \in Entry /\ Opened[q] \in Entry
  BY DEF Locked, Opened
<1>1. /\ q.pwd \in Seq(Name) /\ q.dirs \in Seq(Name) /\ q.up \in Nat
      /\ q.absolute \in BOOLEAN /\ q.file \in File
  BY HostsLockAssumption
<1> DEFINE ups  == [i \in 1..q.up |-> Up]
           rest == SubSeq(q.pwd, 1, Len(q.pwd) - q.up)
<1>2. /\ q.pwd \in Seq(Component) /\ q.dirs \in Seq(Component) /\ Root \in Dir
      /\ ups \o q.dirs \in Seq(Component) /\ rest \o q.dirs \in Seq(Component)
  <2>1. /\ q.pwd \in Seq(Component) /\ q.dirs \in Seq(Component) /\ Root \in Dir
        /\ ups \in Seq(Component) /\ rest \in Seq(Component)
    BY <1>1, HostsLockAssumption DEF Component
  <2> HIDE DEF ups, rest
  <2> QED
    BY <2>1
<1>3. Walk(Root, Abs(q)) \in Dir
  BY <1>1, <1>2, WayWorks DEF Abs
<1>4. Walk(Root, q.pwd) \in Dir
  BY <1>2, WayWorks
<1>5. Opened[q][1] \in Dir
  BY <1>2, <1>4, WayWorks DEF Opened
<1> QED
  BY <1>1, <1>3, <1>5 DEF Locked, Opened, Entry

-----------------------------------------------------------------------------
\* A process past Flock holds the lock beside its path, and nobody else does.
HolderInv ==
  /\ \A e \in Entry : \A p, q \in holder[e] : p = q
  /\ \A p \in Process : pc[p] \in {"held", "update"} => p \in holder[LockOf(p)]

\* A process works on the entry that its path leads to, never through a link.
PlaceInv == \A p \in Process : pc[p] = "update" => Target(p) = Opened[path[p]]

\* The file that a process works on is still as it has read it.
BaseInv == \A p \in Process : pc[p] = "update" => base[p] = content[Target(p)]

\* Whatever the paths are, and if all of them are Straight.
IInv == TypeOK /\ HolderInv /\ PlaceInv

AllStraight == \A q \in Path : Straight(q)

-----------------------------------------------------------------------------
\* The invariants hold when every process is still idle.
LEMMA InitEstablishes == Init => IInv /\ BaseInv
<1> SUFFICES ASSUME Init PROVE IInv /\ BaseInv
  OBVIOUS
<1> USE DEF Init
<1>1. TypeOK
  BY HostsLockAssumption DEF TypeOK
<1>2. HolderInv
  BY DEF HolderInv
<1>3. PlaceInv /\ BaseInv
  BY DEF PlaceInv, BaseInv
<1> QED
  BY <1>1, <1>2, <1>3 DEF IInv

\* Where the lock and the file of a process are.
LEMMA Places ==
  ASSUME TypeOK, NEW p \in Process
  PROVE  LockOf(p) \in Entry /\ Target(p) \in Entry /\ path[p] \in Path
<1>1. path[p] \in Path /\ LinkTo \in [Entry -> Entry]
  BY HostsLockAssumption DEF TypeOK
<1>2. Locked[path[p]] \in Entry /\ Opened[path[p]] \in Entry
  BY <1>1, Entries
<1> QED
  BY <1>1, <1>2 DEF LockOf, Target

\* Every step of every process keeps the types of the variables.
LEMMA TypeStep == TypeOK /\ [Next]_vars => TypeOK'
<1> SUFFICES ASSUME TypeOK, [Next]_vars PROVE TypeOK'
  OBVIOUS
<1> USE DEF TypeOK
<1>1. ASSUME NEW p \in Process, Begin(p) PROVE TypeOK'
  BY <1>1 DEF Begin, Step
<1>2. ASSUME NEW p \in Process, Open(p) PROVE TypeOK'
  BY <1>2 DEF Open, Step
<1>3. ASSUME NEW p \in Process, Stat(p) PROVE TypeOK'
  BY <1>3 DEF Stat, Step
<1>4. ASSUME NEW p \in Process, Flock(p) PROVE TypeOK'
  BY <1>4 DEF Flock, Step
<1>5. ASSUME NEW p \in Process, Read(p) PROVE TypeOK'
  <2>1. content[Target(p)] \in Nat
    BY Places
  <2> QED
    BY <1>5, <2>1 DEF Read, Step
<1>6. ASSUME NEW p \in Process, Update(p) PROVE TypeOK'
  <2>1. content[Target(p)] + 1 \in Nat
    BY Places
  <2>2. content' \in [Entry -> Nat]
    BY <1>6, <2>1 DEF Update
  <2> QED
    BY <1>6, <2>2 DEF Update, Step
<1>7. ASSUME NEW p \in Process, GiveUp(p) PROVE TypeOK'
  BY <1>7 DEF GiveUp, Step
<1>8. ASSUME NEW p \in Process, Close(p) PROVE TypeOK'
  BY <1>8 DEF Close, Step
<1>9. ASSUME NEW p \in Process, Crash(p) PROVE TypeOK'
  BY <1>9 DEF Crash
<1>10. CASE UNCHANGED vars
  BY <1>10 DEF vars
<1> QED
  BY <1>1, <1>2, <1>3, <1>4, <1>5, <1>6, <1>7, <1>8, <1>9, <1>10 DEF Next

\* Giving up one lock leaves the others as they were.
LEMMA Released ==
  ASSUME NEW H \in [Entry -> SUBSET Process], NEW e, NEW p
  PROVE  \A f \in Entry : [H EXCEPT ![e] = @ \ {p}][f] = IF f = e THEN H[f] \ {p} ELSE H[f]
OBVIOUS

\* Only Flock adds a holder, and only where there is none; only a process that
\* gives up its lock, or starts, leaves the part where it must hold one.
LEMMA HolderStep == IInv /\ [Next]_vars => HolderInv'
<1> SUFFICES ASSUME IInv, [Next]_vars PROVE HolderInv'
  OBVIOUS
<1> USE Entries DEF IInv, TypeOK, HolderInv, LockOf
<1>1. ASSUME NEW p \in Process, Begin(p) PROVE HolderInv'
  BY <1>1 DEF Begin, Step
<1>2. ASSUME NEW p \in Process, Open(p) \/ Stat(p) PROVE HolderInv'
  BY <1>2 DEF Open, Stat, Step
<1>3. ASSUME NEW p \in Process, Flock(p) PROVE HolderInv'
  BY <1>3 DEF Flock, Step
<1>4. ASSUME NEW p \in Process, Read(p) \/ Update(p) \/ GiveUp(p) PROVE HolderInv'
  BY <1>4 DEF Read, Update, GiveUp, Step
<1>5. ASSUME NEW p \in Process, Close(p) \/ Crash(p) PROVE HolderInv'
  <2> DEFINE e == Locked[path[p]]
  <2>1. /\ holder' = [holder EXCEPT ![e] = @ \ {p}] /\ path' = path
        /\ pc' = [pc EXCEPT ![p] = "idle"]
    BY <1>5 DEF Close, Crash, Step
  <2>2. \A f \in Entry : holder'[f] = IF f = e THEN holder[f] \ {p} ELSE holder[f]
    <3>1. holder \in [Entry -> SUBSET Process]
      OBVIOUS
    <3> HIDE DEF e, IInv, TypeOK, HolderInv, LockOf
    <3> QED
      BY <2>1, <3>1, Released, Zenon
  <2> QED
    BY <2>1, <2>2
<1>6. CASE UNCHANGED vars
  BY <1>6 DEF vars
<1> QED
  BY <1>1, <1>2, <1>3, <1>4, <1>5, <1>6 DEF Next

\* Only Read begins to work on a file, and it refuses a link.
LEMMA PlaceStep == IInv /\ [Next]_vars => PlaceInv'
<1> SUFFICES ASSUME IInv, [Next]_vars PROVE PlaceInv'
  OBVIOUS
<1> USE DEF IInv, TypeOK, PlaceInv, Target
<1>1. ASSUME NEW p \in Process, Begin(p) PROVE PlaceInv'
  BY <1>1 DEF Begin, Step
<1>2. ASSUME NEW p \in Process, Open(p) \/ Stat(p) \/ Flock(p) PROVE PlaceInv'
  BY <1>2 DEF Open, Stat, Flock, Step
<1>3. ASSUME NEW p \in Process, Read(p) \/ Update(p) \/ GiveUp(p) PROVE PlaceInv'
  BY <1>3 DEF Read, Update, GiveUp, Step
<1>4. ASSUME NEW p \in Process, Close(p) \/ Crash(p) PROVE PlaceInv'
  BY <1>4 DEF Close, Crash, Step
<1>5. CASE UNCHANGED vars
  BY <1>5 DEF vars
<1> QED
  BY <1>1, <1>2, <1>3, <1>4, <1>5 DEF Next

\* Two processes with Straight paths do not work on one file: both would hold
\* the lock beside it.
LEMMA StraightExclude ==
  ASSUME IInv, NEW p \in Process, NEW q \in Process, pc[p] = "update", pc[q] = "update",
         Straight(path[p]), Straight(path[q]), Target(p) = Target(q)
  PROVE  p = q
<1>1. path[p] \in Path /\ path[q] \in Path /\ LockOf(p) \in Entry
  BY Places DEF IInv
<1>2. LockOf(p) = Target(p) /\ LockOf(q) = Target(q)
  BY <1>1, LockBesideFile DEF IInv, PlaceInv, LockOf
<1>3. p \in holder[LockOf(p)] /\ q \in holder[LockOf(q)]
  BY DEF IInv, HolderInv
<1> QED
  BY <1>1, <1>2, <1>3 DEF IInv, HolderInv

\* An update by one process is not to the file another works on.
LEMMA BaseStep ==
  ASSUME AllStraight
  PROVE  IInv /\ BaseInv /\ [Next]_vars => BaseInv'
<1> SUFFICES ASSUME IInv, BaseInv, [Next]_vars PROVE BaseInv'
  OBVIOUS
<1> USE DEF IInv, TypeOK, BaseInv, Target
<1>1. ASSUME NEW p \in Process, Begin(p) PROVE BaseInv'
  BY <1>1 DEF Begin, Step
<1>2. ASSUME NEW p \in Process, Open(p) \/ Stat(p) \/ Flock(p) PROVE BaseInv'
  BY <1>2 DEF Open, Stat, Flock, Step
<1>3. ASSUME NEW p \in Process, Read(p) PROVE BaseInv'
  BY <1>3 DEF Read, Step
<1>4. ASSUME NEW p \in Process, Update(p) PROVE BaseInv'
  <2> SUFFICES ASSUME NEW q \in Process, pc'[q] = "update"
               PROVE  (base[q] = content[Target(q)])'
    OBVIOUS
  <2>1. q # p /\ pc[q] = "update" /\ pc[p] = "update" /\ path' = path /\ base' = base
    BY <1>4 DEF Update, Step
  <2>2. Target(q) # Target(p)
    <3>1. Straight(path[p]) /\ Straight(path[q])
      BY DEF AllStraight
    <3> HIDE DEF IInv, TypeOK, BaseInv, Target
    <3> QED
      BY <2>1, <3>1, StraightExclude
  <2> QED
    BY <1>4, <2>1, <2>2 DEF Update
<1>5. ASSUME NEW p \in Process, GiveUp(p) PROVE BaseInv'
  BY <1>5 DEF GiveUp, Step
<1>6. ASSUME NEW p \in Process, Close(p) \/ Crash(p) PROVE BaseInv'
  BY <1>6 DEF Close, Crash, Step
<1>7. CASE UNCHANGED vars
  BY <1>7 DEF vars
<1> QED
  BY <1>1, <1>2, <1>3, <1>4, <1>5, <1>6, <1>7 DEF Next

\* The inductive invariant.
LEMMA Invariance == Spec => []IInv
<1>1. IInv /\ [Next]_vars => IInv'
  BY TypeStep, HolderStep, PlaceStep DEF IInv
<1> QED
  BY InitEstablishes, <1>1, PTL DEF Spec

\* Types, whatever the paths are.
THEOREM TypeCorrect == Spec => []TypeOK
<1>1. IInv => TypeOK
  BY DEF IInv
<1> QED
  BY Invariance, <1>1, PTL

\* src/README.md "Single-Writer Safety": no two live processes work on one hosts
\* file, if no ".." of a path takes a symbolic link off $PWD.
THEOREM SingleWriter ==
  ASSUME AllStraight
  PROVE  Spec => []OneWriterPerFile
<1>1. IInv => OneWriterPerFile
  <2> SUFFICES ASSUME IInv, NEW p \in Process, NEW q \in Process,
                      pc[p] = "update", pc[q] = "update", Target(p) = Target(q)
               PROVE  p = q
    BY DEF OneWriterPerFile
  <2>1. Straight(path[p]) /\ Straight(path[q])
    BY Places DEF IInv, AllStraight
  <2> QED
    BY <2>1, StraightExclude
<1> QED
  BY Invariance, <1>1, PTL

\* An operation of the store replaces the version that it has read, if no ".." of
\* a path takes a symbolic link off $PWD.
THEOREM UpdatesSerial ==
  ASSUME AllStraight
  PROVE  Spec => SerialUpdates
<1>1. IInv /\ BaseInv /\ [Next]_vars =>
        [\A p \in Process : Update(p) => content[Target(p)] = base[p]]_vars
  BY DEF BaseInv, Update, Step
<1>2. IInv /\ BaseInv /\ [Next]_vars => (IInv /\ BaseInv)'
  BY TypeStep, HolderStep, PlaceStep, BaseStep DEF IInv
<1> QED
  BY InitEstablishes, <1>1, <1>2, PTL DEF Spec, SerialUpdates
=============================================================================
