-------------------------- MODULE HostsStoreProofs --------------------------
(***************************************************************************)
(* Theorems about HostsStore, and about the marker scan that it relies on, *)
(* for every choice of their constants.                                    *)
(***************************************************************************)
EXTENDS HostsStore, MarkerScan, SequenceTheorems, TLAPS

(***************************************************************************)
(* What the operators of Markers and HostsStore return.                    *)
(***************************************************************************)

\* In a file with valid markers both marker positions are positions of it.
LEMMA SectionPositions ==
  ASSUME NEW data \in Content, locateMarkers(data) = "valid"
  PROVE  /\ beginLine(data) \in 1..Len(data)
         /\ endLine(data) \in 1..Len(data)
<1>1. PICK b \in DOMAIN data, e \in DOMAIN data : HasSection(data, b, e)
  BY DEF locateMarkers
<1>2. data[b] \in BeginLines /\ data[e] \in EndLines
  BY <1>1 DEF HasSection, Begins, Ends
<1>3. beginLine(data) \in DOMAIN data /\ endLine(data) \in DOMAIN data
  BY <1>2 DEF beginLine, endLine
<1> QED
  BY <1>3 DEF Content

\* Replacing the managed section of a valid file gives a file.
LEMMA ReplaceType ==
  ASSUME NEW data \in Content, NEW body \in Content, locateMarkers(data) = "valid"
  PROVE  replaceManagedSection(data, body) \in Content
<1>1. /\ beginLine(data) \in 1..Len(data) /\ endLine(data) \in 1..Len(data)
      /\ Len(data) \in Nat
  BY SectionPositions DEF Content
<1>2. SubSeq(data, 1, beginLine(data)) \in Seq(Line)
  BY <1>1, SubSeqProperties DEF Content
<1>3. SubSeq(data, endLine(data), Len(data)) \in Seq(Line)
  BY <1>1, SubSeqProperties DEF Content
<1> QED
  BY <1>2, <1>3, ConcatProperties DEF replaceManagedSection, Content

\* Appending an empty section to a file gives a file.
LEMMA AppendType ==
  ASSUME NEW data \in Content
  PROVE  appendEmptySection(data) \in Content
<1>1. Terminated(data) \in Seq(Line)
  BY MarkerAssumption DEF Terminated, Content
<1>2. <<BeginMarker, EndMarker>> \in Seq(Line)
  BY MarkerAssumption
<1> QED
  BY <1>1, <1>2, ConcatProperties DEF appendEmptySection, Content

\* The regenerated file is a file.
LEMMA FreshType == freshHostsFile \in Content
<1>1. Baseline \in Seq(Line)
  BY MarkerAssumption DEF PlainLine
<1>2. <<BeginMarker, EndMarker>> \in Seq(Line)
  BY MarkerAssumption
<1> QED
  BY <1>1, <1>2, ConcatProperties DEF freshHostsFile, Content

\* In a valid file each marker occurs at one position, the first before the second.
LEMMA SectionUnique ==
  ASSUME NEW data \in Content, locateMarkers(data) = "valid"
  PROVE  /\ beginLine(data) \in 1..Len(data) /\ endLine(data) \in 1..Len(data)
         /\ beginLine(data) < endLine(data)
         /\ \A i \in 1..Len(data) : /\ data[i] \in BeginLines <=> i = beginLine(data)
                                    /\ data[i] \in EndLines <=> i = endLine(data)
<1>0. DOMAIN data = 1..Len(data)
  BY DEF Content
<1>1. PICK b \in DOMAIN data, e \in DOMAIN data : HasSection(data, b, e)
  BY DEF locateMarkers
<1>2. \A i \in DOMAIN data : /\ data[i] \in BeginLines <=> i = b
                             /\ data[i] \in EndLines <=> i = e
  BY <1>1 DEF HasSection, Begins, Ends
<1>3. beginLine(data) = b /\ endLine(data) = e
  BY <1>2 DEF beginLine, endLine
<1> QED
  BY <1>0, <1>1, <1>2, <1>3 DEF HasSection

\* The lines m to n of a file, kept apart from SubSeq so that facts about them match.
Cut(s, m, n) == SubSeq(s, m, n)

\* The lines m to n of s are the lines k to l of t.
SameLines(s, m, n, t, k, l) ==
  /\ s \in Seq(Line) /\ t \in Seq(Line)
  /\ m \in Nat /\ n \in Nat /\ k \in Nat /\ l \in Nat
  /\ 1 <= m /\ n <= Len(s) /\ 1 <= k /\ l <= Len(t) /\ n - m = l - k
  /\ \A j \in 0..(n - m) : s[m + j] = t[k + j]

\* Two cuts of one length with the same lines are equal.
LEMMA SameCut ==
  ASSUME NEW s, NEW m, NEW n, NEW t, NEW k, NEW l, SameLines(s, m, n, t, k, l)
  PROVE  Cut(s, m, n) = Cut(t, k, l)
<1> USE DEF SameLines
<1> DEFINE x == SubSeq(s, m, n)
           y == SubSeq(t, k, l)
<1>1. x \in Seq(Line) /\ Len(x) = IF m <= n THEN n - m + 1 ELSE 0
  BY SubSeqProperties
<1>2. \A i \in 1..(n - m + 1) : x[i] = s[m + i - 1]
  BY SubSeqProperties
<1>3. y \in Seq(Line) /\ Len(y) = IF k <= l THEN l - k + 1 ELSE 0
  BY SubSeqProperties
<1>4. \A i \in 1..(l - k + 1) : y[i] = t[k + i - 1]
  BY SubSeqProperties
<1> HIDE DEF x, y
<1>5. Len(x) = Len(y) /\ (m <= n => Len(x) = n - m + 1) /\ (m > n => Len(x) = 0)
  BY <1>1, <1>3
<1>6. ASSUME NEW i \in 1..Len(x) PROVE x[i] = y[i]
  <2>1. /\ i \in 1..(n - m + 1) /\ i \in 1..(l - k + 1) /\ i - 1 \in 0..(n - m)
        /\ m + i - 1 = m + (i - 1) /\ k + i - 1 = k + (i - 1)
    BY <1>5
  <2> QED
    BY <1>2, <1>4, <2>1
<1>7. x = y
  BY <1>1, <1>3, <1>5, <1>6, SeqEqual
<1> QED
  BY <1>7 DEF x, y, Cut

\* The lines of a concatenation, by their positions in its parts.
LEMMA ConcatLines ==
  ASSUME NEW s \in Seq(Line), NEW t \in Seq(Line)
  PROVE  /\ s \o t \in Seq(Line) /\ Len(s \o t) = Len(s) + Len(t)
         /\ \A i \in 1..Len(s) : (s \o t)[i] = s[i]
         /\ \A i \in 1..Len(t) : (s \o t)[Len(s) + i] = t[i]
<1>1. /\ s \o t \in Seq(Line) /\ Len(s \o t) = Len(s) + Len(t)
      /\ \A i \in 1..(Len(s) + Len(t)) :
           (s \o t)[i] = IF i <= Len(s) THEN s[i] ELSE t[i - Len(s)]
      /\ Len(s) \in Nat /\ Len(t) \in Nat
  BY ConcatProperties
<1>2. ASSUME NEW i \in 1..Len(s) PROVE (s \o t)[i] = s[i]
  BY <1>1
<1>3. ASSUME NEW i \in 1..Len(t) PROVE (s \o t)[Len(s) + i] = t[i]
  <2>1. /\ Len(s) + i \in 1..(Len(s) + Len(t)) /\ ~(Len(s) + i <= Len(s))
        /\ Len(s) + i - Len(s) = i
    BY <1>1
  <2> QED
    BY <1>1, <2>1
<1> QED
  BY <1>1, <1>2, <1>3

\* Replacing the managed section leaves what is outside it, and puts the body in it.
LEMMA ReplaceKeepsOutside ==
  ASSUME NEW data \in Content, NEW body \in Content, locateMarkers(data) = "valid",
         locateMarkers(replaceManagedSection(data, body)) = "valid"
  PROVE  /\ Outside(replaceManagedSection(data, body)) = Outside(data)
         /\ ManagedBody(replaceManagedSection(data, body)) = body
<1> DEFINE b == beginLine(data)
           e == endLine(data)
           n == Len(data)
           prop == replaceManagedSection(data, body)
           pre == SubSeq(data, 1, b)
           post == SubSeq(data, e, n)
           f == b + Len(body) + 1
<1>1. /\ b \in 1..n /\ e \in 1..n /\ b < e /\ n \in Nat /\ Len(body) \in Nat
      /\ data[b] \in BeginLines /\ data[e] \in EndLines
  BY SectionUnique DEF Content
<1>2. prop \in Content /\ {prop, data, body} \subseteq Seq(Line)
  BY ReplaceType DEF Content
<1>3. /\ pre \in Seq(Line) /\ Len(pre) = b /\ \A i \in 1..b : pre[i] = data[i]
      /\ post \in Seq(Line) /\ Len(post) = n - e + 1
      /\ \A i \in 1..(n - e + 1) : post[i] = data[e + i - 1]
  <2>1. \A i \in 1..n : data[i] \in Line
    BY <1>2, LenProperties
  <2>2. /\ \A i \in 1..b : data[i] \in Line
        /\ \A i \in e..n : data[i] \in Line
    BY <1>1, <2>1
  <2>3. pre \in Seq(Line) /\ Len(pre) = b /\ \A i \in 1..b : pre[i] = data[i]
    BY <1>1, <2>2, SubSeqProperties
  <2>4. /\ post \in Seq(Line) /\ Len(post) = n - e + 1
        /\ \A i \in 1..(n - e + 1) : post[i] = data[e + i - 1]
    BY <1>1, <2>2, SubSeqProperties
  <2> QED
    BY <2>3, <2>4
<1>4. prop = (pre \o body) \o post
  BY DEF replaceManagedSection
<1> HIDE DEF b, e, n, prop, pre, post
<1>5. /\ pre \o body \in Seq(Line) /\ Len(pre \o body) = b + Len(body)
      /\ \A i \in 1..b : (pre \o body)[i] = data[i]
      /\ \A i \in 1..Len(body) : (pre \o body)[b + i] = body[i]
  <2>1. /\ pre \o body \in Seq(Line) /\ Len(pre \o body) = Len(pre) + Len(body)
        /\ \A i \in 1..Len(pre) : (pre \o body)[i] = pre[i]
        /\ \A i \in 1..Len(body) : (pre \o body)[Len(pre) + i] = body[i]
    BY <1>2, <1>3, ConcatLines
  <2> QED
    BY <1>3, <2>1
<1>6. /\ prop \in Seq(Line) /\ Len(prop) = b + Len(body) + n - e + 1
      /\ \A i \in 1..b : prop[i] = data[i]
      /\ \A i \in 1..Len(body) : prop[b + i] = body[i]
      /\ \A i \in 1..(n - e + 1) : prop[b + Len(body) + i] = data[e + i - 1]
  <2> DEFINE head == pre \o body
  <2>1. /\ head \o post \in Seq(Line) /\ Len(head \o post) = Len(head) + Len(post)
        /\ \A i \in 1..Len(head) : (head \o post)[i] = head[i]
        /\ \A i \in 1..Len(post) : (head \o post)[Len(head) + i] = post[i]
    BY <1>3, <1>5, ConcatLines
  <2>2. \A i \in 1..b : i \in 1..Len(head)
    BY <1>1, <1>5
  <2>3. \A i \in 1..Len(body) : b + i \in 1..Len(head)
    BY <1>1, <1>5
  <2>4. prop = head \o post
    BY <1>4
  <2>5. Len(head) = b + Len(body)
    BY <1>5
  <2>6. \A i \in 1..b : head[i] = data[i]
    BY <1>5
  <2>7. \A i \in 1..Len(body) : head[b + i] = body[i]
    BY <1>5
  <2> HIDE DEF head
  <2>8. prop \in Seq(Line) /\ Len(prop) = b + Len(body) + n - e + 1
    BY <1>1, <1>3, <2>1, <2>4, <2>5
  <2>9. \A i \in 1..b : prop[i] = data[i]
    BY <2>1, <2>2, <2>4, <2>6
  <2>10. \A i \in 1..Len(body) : prop[b + i] = body[i]
    BY <2>1, <2>3, <2>4, <2>7
  <2>11. \A i \in 1..(n - e + 1) : prop[b + Len(body) + i] = data[e + i - 1]
    BY <1>3, <2>1, <2>4, <2>5
  <2> QED
    BY <2>8, <2>9, <2>10, <2>11
<1>7. b \in 1..Len(prop) /\ f \in 1..Len(prop) /\ prop[b] \in BeginLines /\ prop[f] \in EndLines
  <2>1. 1 \in 1..(n - e + 1) /\ e + 1 - 1 = e /\ f = b + Len(body) + 1
    BY <1>1
  <2>2. prop[f] = data[e]
    BY <1>6, <2>1
  <2> QED
    BY <1>1, <1>6, <2>2
<1>8. beginLine(prop) = b /\ endLine(prop) = f
  BY <1>2, <1>7, SectionUnique DEF prop
<1>9. Cut(prop, 1, b - 1) = Cut(data, 1, b - 1)
  <2>1. \A j \in 0..(b - 1 - 1) : prop[1 + j] = data[1 + j]
    BY <1>1, <1>6
  <2>2. b - 1 \in Nat /\ b - 1 <= Len(prop) /\ b - 1 <= Len(data)
    BY <1>1, <1>7 DEF n
  <2>3. SameLines(prop, 1, b - 1, data, 1, b - 1)
    BY <1>2, <1>6, <2>1, <2>2 DEF SameLines
  <2> QED
    BY <2>3, SameCut
<1>10. Cut(prop, f + 1, Len(prop)) = Cut(data, e + 1, n)
  <2>1. ASSUME NEW j \in 0..(Len(prop) - (f + 1)) PROVE prop[f + 1 + j] = data[e + 1 + j]
    <3>1. /\ j + 2 \in 1..(n - e + 1) /\ b + Len(body) + (j + 2) = f + 1 + j
          /\ e + (j + 2) - 1 = e + 1 + j
      BY <1>1, <1>6
    <3> QED
      BY <1>6, <3>1
  <2>2. /\ f + 1 \in Nat /\ 1 <= f + 1 /\ e + 1 \in Nat /\ 1 <= e + 1 /\ n \in Nat
        /\ Len(prop) \in Nat /\ Len(prop) - (f + 1) = n - (e + 1) /\ n <= Len(data)
    BY <1>1, <1>6 DEF n
  <2>3. SameLines(prop, f + 1, Len(prop), data, e + 1, n)
    BY <1>2, <1>6, <2>1, <2>2 DEF SameLines
  <2> QED
    BY <2>3, SameCut
<1>11. Cut(prop, b + 1, f - 1) = Cut(body, 1, Len(body))
  <2>1. ASSUME NEW j \in 0..(f - 1 - (b + 1)) PROVE prop[b + 1 + j] = body[1 + j]
    <3>1. 1 + j \in 1..Len(body) /\ b + (1 + j) = b + 1 + j
      BY <1>1
    <3> QED
      BY <1>6, <3>1
  <2>2. /\ b + 1 \in Nat /\ 1 <= b + 1 /\ f - 1 \in Nat /\ f - 1 <= Len(prop)
        /\ f - 1 - (b + 1) = Len(body) - 1 /\ Len(body) \in Nat
    BY <1>1, <1>7
  <2>3. SameLines(prop, b + 1, f - 1, body, 1, Len(body))
    BY <1>2, <1>6, <2>1, <2>2 DEF SameLines
  <2> QED
    BY <2>3, SameCut
<1>12. SubSeq(body, 1, Len(body)) = body
  BY <1>2
<1> QED
  BY <1>8, <1>9, <1>10, <1>11, <1>12 DEF Cut, Outside, ManagedBody, prop, b, e, n

\* Appending an empty section leaves the user's lines, the last one terminated.
LEMMA AppendKeepsLines ==
  ASSUME NEW data \in Content, locateMarkers(data) = "none",
         locateMarkers(appendEmptySection(data)) = "valid"
  PROVE  UserLines(appendEmptySection(data)) = UserLines(data)
<1> DEFINE ended == Terminated(data)
           prop == appendEmptySection(data)
           n == Len(data)
<1>1. /\ n \in Nat /\ ended \in Seq(Line) /\ Len(ended) = n
      /\ \A i \in 1..n : ended[i] = IF i = n THEN Terminate[data[i]] ELSE data[i]
  <2>1. n \in Nat /\ DOMAIN data = 1..n /\ \A i \in 1..n : data[i] \in Line
    BY DEF Content
  <2>2. ended = [i \in 1..n |-> IF i = n THEN Terminate[data[i]] ELSE data[i]]
    BY <2>1 DEF Terminated
  <2>3. \A i \in 1..n : Terminate[data[i]] \in Line
    BY <2>1, MarkerAssumption
  <2> HIDE DEF ended, n
  <2>4. ended \in [1..n -> Line]
    BY <2>1, <2>2, <2>3
  <2> QED
    BY <2>1, <2>2, <2>4
<1>2. Terminated(ended) = ended
  <2>1. \A i \in 1..n : ended[i] = IF i = n THEN Terminate[ended[i]] ELSE ended[i]
    BY <1>1, MarkerAssumption DEF Content
  <2>2. DOMAIN ended = 1..n /\ ended = [i \in 1..n |-> ended[i]]
    BY <1>1
  <2> HIDE DEF ended
  <2> QED
    BY <1>1, <2>1, <2>2 DEF Terminated
<1>3. prop \in Content /\ prop = ended \o <<BeginMarker, EndMarker>>
  BY AppendType DEF appendEmptySection
<1> HIDE DEF ended, prop
<1>4. /\ <<BeginMarker, EndMarker>> \in Seq(Line) /\ Len(<<BeginMarker, EndMarker>>) = 2
      /\ <<BeginMarker, EndMarker>>[1] = BeginMarker
      /\ <<BeginMarker, EndMarker>>[2] = EndMarker
  BY MarkerAssumption
<1>5. /\ prop \in Seq(Line) /\ Len(prop) = n + 2
      /\ \A i \in 1..n : prop[i] = ended[i]
      /\ prop[n + 1] = BeginMarker /\ prop[n + 2] = EndMarker
  BY <1>1, <1>3, <1>4, ConcatProperties
<1>6. beginLine(prop) = n + 1 /\ endLine(prop) = n + 2
  <2>1. n + 1 \in 1..Len(prop) /\ n + 2 \in 1..Len(prop)
    BY <1>1, <1>5
  <2>2. prop[n + 1] \in BeginLines /\ prop[n + 2] \in EndLines
    BY <1>5, MarkerAssumption
  <2> QED
    BY <1>3, <2>1, <2>2, SectionUnique DEF prop
<1>7. Cut(prop, 1, n) = Cut(ended, 1, n)
  <2>1. SameLines(prop, 1, n, ended, 1, n)
    BY <1>1, <1>5 DEF SameLines
  <2> QED
    BY <2>1, SameCut
<1>8. SubSeq(ended, 1, n) = ended
  BY <1>1
<1>9. SubSeq(prop, n + 3, n + 2) = <<>>
  BY <1>1, <1>5
<1>10. Outside(prop) = ended \o <<>>
  <2>1. beginLine(prop) - 1 = n /\ endLine(prop) + 1 = n + 3
    BY <1>1, <1>6
  <2> QED
    BY <1>5, <1>7, <1>8, <1>9, <2>1 DEF Cut, Outside, prop
<1>11. ended \o <<>> = ended
  BY <1>1
<1>12. Outside(data) = data
  BY DEF Outside
<1> QED
  BY <1>2, <1>10, <1>11, <1>12 DEF UserLines, ended, prop

\* A snapshot of a file is a snapshot.
LEMMA SnapshotType ==
  ASSUME NEW f \in File
  PROVE  /\ SnapshotOf(f) \in Snapshot
         /\ SnapshotOf(f).exists => SnapshotOf(f).meta \in Meta
  BY DEF SnapshotOf, NoSnapshot, Snapshot, File, Content

\* The constant records have their types.
LEMMA ConstantTypes ==
  /\ <<>> \in Content
  /\ Absent \in File /\ NoSnapshot \in Snapshot
  /\ NoJob \in Job /\ NoTxn \in Txn
<1>1. <<>> \in Content /\ DefaultMeta \in Meta
  BY StoreAssumption DEF Content
<1>2. Absent \in File
  BY <1>1 DEF Absent, RegularFile, File
<1>3. NoSnapshot \in Snapshot
  BY <1>1 DEF NoSnapshot, Snapshot
<1> QED
  BY <1>1, <1>2, <1>3 DEF NoJob, NoTxn, Job, Txn, Op, Plan, Phase, Path

-----------------------------------------------------------------------------
(***************************************************************************)
(* Type correctness.                                                       *)
(***************************************************************************)
(***************************************************************************)
(* TypeOK is not inductive by itself: a commit takes its metadata from the *)
(* hosts file the operation read, which Snapshot allows to be NoMeta.  Nor *)
(* is the safety of the backup: it rests on what the operation decided     *)
(* when it read the hosts file, several replacements earlier.              *)
(***************************************************************************)
Decided == pc \notin {"idle", "read"}     \* ReadHosts took a decision
Replacing == pc \in EarlyPC \cup LatePC   \* replaceFileIfUnchanged is running

\* What ReadHosts decided still holds of the job it is carried in.
JobInv ==
  Decided =>
    /\ job.plan # "none"
    /\ job.cur.meta \in Meta
    /\ job.plan # "recover" => locateMarkers(job.prop) = "valid"
    /\ job.plan = "replace" => locateMarkers(job.cur.data) = "valid"

\* Which plan leads to which step, and what may be written to the backup.
TxnInv ==
  /\ pc = "ensure" => job.plan # "recover"
  /\ pc = "inspect" => job.plan = "replace"
  /\ Replacing => /\ txn.phase \in {"mirror", "retain", "commit"} => job.plan # "recover"
                  /\ txn.phase = "retain" => job.plan = "replace"
                  /\ txn.path = "backup" => locateMarkers(txn.data) = "valid"

\* The temporary file holds what it must at each step.
TempInv ==
  /\ pc = "write" => temp.kind = "regular"
  /\ pc \in {"sync", "verify", "rename"} =>
       temp.kind = "regular" /\ temp.data = txn.data /\ temp.meta = txn.meta
  /\ pc \in {"verify", "rename"} => temp.synced

\* The bytes of every version at a path reached the disk.
SyncInv == \A p \in Path : file[p].synced /\ \A f \in pend[p] : f.synced

IInv == TypeOK /\ JobInv /\ TxnInv /\ TempInv /\ SyncInv

-----------------------------------------------------------------------------
\* After a return no operation runs, so nothing is claimed of its job.
LEMMA ReturnKeeps ==
  ASSUME TypeOK, NEW result \in Outcome, Return(result)
  PROVE  /\ pc' \in PC /\ outcome' \in Outcome /\ mode' \in Mode
         /\ job' \in Job /\ txn' \in Txn
         /\ JobInv' /\ TxnInv' /\ TempInv'
<1>1. pc' = "idle"
  BY DEF Return
<1>2. JobInv' /\ TxnInv' /\ TempInv'
  BY <1>1 DEF JobInv, TxnInv, TempInv, Decided, Replacing, EarlyPC, StagePC, LatePC
<1>3. job' \in Job
  BY ConstantTypes DEF Return, TypeOK, Job
<1>4. /\ pc' \in PC /\ outcome' \in Outcome /\ mode' \in Mode /\ txn' \in Txn
  BY <1>1, ConstantTypes DEF Return, TypeOK, PC, Mode
<1> QED
  BY <1>2, <1>3, <1>4

\* A replacement may begin with any typed data, valid if it is for the backup.
LEMMA BeginKeeps ==
  ASSUME TypeOK, JobInv, Decided, UNCHANGED job,
         NEW phase \in Phase, NEW path \in Path, NEW data \in Content,
         NEW meta \in Meta, NEW expect \in Snapshot,
         Begin(phase, path, data, meta, expect),
         phase \in {"mirror", "retain", "commit"} => job.plan # "recover",
         phase = "retain" => job.plan = "replace",
         path = "backup" => locateMarkers(data) = "valid"
  PROVE  /\ pc' \in PC /\ outcome' \in Outcome /\ mode' \in Mode
         /\ job' \in Job /\ txn' \in Txn
         /\ JobInv' /\ TxnInv' /\ TempInv'
<1>1. /\ pc' = "create" /\ txn' \in Txn
      /\ txn'.phase = phase /\ txn'.path = path /\ txn'.data = data
  BY DEF Begin, Txn
<1>2. pc' \in PC /\ outcome' \in Outcome /\ mode' \in Mode /\ job' \in Job
  BY <1>1 DEF Begin, TypeOK, PC, EarlyPC, StagePC
<1>3. JobInv'
  BY DEF JobInv
<1>4. TxnInv'
  BY <1>1 DEF TxnInv
<1>5. TempInv'
  BY <1>1 DEF TempInv
<1> QED
  BY <1>1, <1>2, <1>3, <1>4, <1>5

\* The initial states satisfy the invariant.
LEMMA InitInv == Init => IInv
<1> SUFFICES ASSUME Init PROVE IInv
  OBVIOUS
<1>1. file \in [Path -> File] /\ \A p \in Path : file[p].synced
  BY StoreAssumption DEF Init
<1>2. TypeOK
  BY <1>1, ConstantTypes DEF Init, TypeOK, PC, Mode, Outcome
<1>3. JobInv /\ TxnInv /\ TempInv
  BY DEF Init, JobInv, TxnInv, TempInv, Decided, Replacing, EarlyPC, StagePC, LatePC
<1>4. SyncInv
  BY <1>1 DEF Init, SyncInv
<1> QED
  BY <1>2, <1>3, <1>4 DEF IInv

\* Calling Prepare, Apply or Regenerate.
LEMMA CallInv ==
  ASSUME IInv, NEW op \in Op, NEW body \in Content, Call(op, body),
         mode' \in Mode, cancelled' \in BOOLEAN
  PROVE  IInv'
<1>1. pc' = "read" /\ job' \in Job
  BY ConstantTypes DEF Call, Job
<1>2. base' \in Snapshot /\ touched' \subseteq Path
  BY SnapshotType DEF Call, IInv, TypeOK, Path
<1>3. TypeOK'
  BY <1>1, <1>2 DEF Call, IInv, TypeOK, fsVars, PC, Outcome
<1>4. JobInv' /\ TxnInv' /\ TempInv'
  BY <1>1 DEF JobInv, TxnInv, TempInv, Decided, Replacing, EarlyPC, StagePC, LatePC
<1>5. SyncInv'
  BY DEF Call, IInv, SyncInv, fsVars
<1> QED
  BY <1>3, <1>4, <1>5 DEF IInv

\* A decision carries typed data, valid where the code checked it.
LEMMA DecideKeeps ==
  ASSUME TypeOK,
         NEW next \in {"ensure", "inspect", "readBackup"}, NEW plan \in Plan \ {"none"},
         NEW cur \in Snapshot, NEW prop \in Content, NEW newMeta \in Meta,
         Decide(next, plan, cur, prop, newMeta), cur.meta \in Meta,
         plan = "replace" => locateMarkers(cur.data) = "valid",
         next = "ensure" => plan # "recover",
         next = "inspect" => plan = "replace"
  PROVE  pc' \in PC /\ job' \in Job /\ JobInv' /\ TxnInv' /\ TempInv'
<1>1. /\ job' \in Job /\ job'.plan = plan /\ job'.cur = cur /\ job'.prop = prop
      /\ pc' = next
  BY DEF Decide, TypeOK, Job
<1>2. JobInv'
  BY <1>1 DEF Decide, JobInv, Decided
<1>3. TxnInv' /\ TempInv'
  BY <1>1 DEF TxnInv, TempInv, Replacing, EarlyPC, StagePC, LatePC
<1> QED
  BY <1>1, <1>2, <1>3 DEF PC

\* Reading the hosts file and deciding what to do.
LEMMA ReadHostsInv ==
  ASSUME IInv, ReadHosts
  PROVE  IInv'
<1> DEFINE cur == SnapshotOf(file["hosts"])
<1>1. /\ TypeOK /\ cur \in Snapshot /\ cur.data \in Content
      /\ cur.exists => cur.meta \in Meta
  BY SnapshotType DEF IInv, TypeOK, Path, Snapshot
<1>2. DefaultMeta \in Meta /\ <<>> \in Content /\ freshHostsFile \in Content
  BY StoreAssumption, FreshType DEF Content
<1> HIDE DEF cur
<1>3. pc' \in PC /\ job' \in Job /\ JobInv' /\ TxnInv' /\ TempInv'
  <2>1. CASE PrepareReads(cur)
    <3>1. CASE locateMarkers(cur.data) = "valid"
      BY <1>1, <2>1, <3>1, DecideKeeps DEF PrepareReads, Plan
    <3>2. CASE locateMarkers(cur.data) = "none"
      BY <1>1, <2>1, <3>2, AppendType, DecideKeeps DEF PrepareReads, Plan
    <3>3. CASE locateMarkers(cur.data) = "corrupt"
      BY <1>1, <1>2, <2>1, <3>3, DecideKeeps DEF PrepareReads, Plan
    <3> QED
      BY <2>1, <3>1, <3>2, <3>3 DEF PrepareReads
  <2>2. CASE ApplyReads(cur)
    <3>1. replaceManagedSection(cur.data, job.body) \in Content
      BY <1>1, <2>2, ReplaceType DEF ApplyReads, TypeOK, Job
    <3> QED
      BY <1>1, <2>2, <3>1, DecideKeeps DEF ApplyReads, Plan
  <2>3. CASE RegenerateReads(cur)
    <3>1. CASE cur.exists /\ locateMarkers(cur.data) = "valid"
      BY <1>1, <1>2, <2>3, <3>1, DecideKeeps DEF RegenerateReads, Plan
    <3>2. CASE ~(cur.exists /\ locateMarkers(cur.data) = "valid")
      <4> DEFINE found == IF cur.exists THEN cur ELSE [cur EXCEPT !.meta = DefaultMeta]
      <4>1. found \in Snapshot /\ found.meta \in Meta
        BY <1>1, <1>2 DEF Snapshot
      <4>2. Decide("ensure", "seed", found, freshHostsFile, DefaultMeta)
        BY <2>3, <3>2 DEF RegenerateReads
      <4> HIDE DEF found
      <4> QED
        BY <1>1, <1>2, <4>1, <4>2, DecideKeeps DEF Plan
    <3> QED
      BY <3>1, <3>2
  <2> QED
    BY <2>1, <2>2, <2>3 DEF ReadHosts, cur
<1>4. TypeOK'
  BY <1>1, <1>3 DEF ReadHosts, TypeOK, fsVars, histVars
<1>5. SyncInv'
  BY DEF ReadHosts, IInv, SyncInv, fsVars
<1> QED
  BY <1>3, <1>4, <1>5 DEF IInv

\* The decisions between two replacements.
LEMMA DecisionInv ==
  ASSUME IInv, EnsureBackup \/ InspectBackup \/ ReadBackup \/ DecideFails
  PROVE  IInv'
<1> DEFINE backup == SnapshotOf(file["backup"])
<1>1. /\ TypeOK /\ JobInv /\ TxnInv /\ job \in Job
      /\ backup \in Snapshot /\ backup.data \in Content
      /\ backup.exists => backup.meta \in Meta
  BY SnapshotType DEF IInv, TypeOK, Path, Snapshot
<1>2. /\ job.prop \in Content /\ job.cur \in Snapshot /\ job.cur.data \in Content
      /\ backupMeta(backup) \in Meta
  BY <1>1 DEF Job, Snapshot, backupMeta
<1> HIDE DEF backup
<1> DEFINE Kept == /\ pc' \in PC /\ outcome' \in Outcome /\ mode' \in Mode
                   /\ job' \in Job /\ txn' \in Txn
                   /\ JobInv' /\ TxnInv' /\ TempInv'
<1>3. ASSUME BeginCommit, UNCHANGED job, Decided, job.plan # "recover"
      PROVE  Kept
  <2>1. job.cur.meta \in Meta
    BY <1>1, <1>3 DEF JobInv
  <2> QED
    BY <1>1, <1>2, <1>3, <2>1, BeginKeeps DEF BeginCommit, Phase, Path
<1>4. ASSUME EnsureBackup PROVE Kept
  <2>1. Decided /\ job.plan # "recover" /\ locateMarkers(job.prop) = "valid"
    BY <1>1, <1>4 DEF EnsureBackup, TxnInv, JobInv, Decided
  <2>2. CASE backup.exists /\ backup.data = job.prop
    BY <1>1, <1>3, <1>4, <2>1, <2>2, ReturnKeeps DEF EnsureBackup, AfterMirror, backup, Outcome
  <2>3. CASE ~(backup.exists /\ backup.data = job.prop)
    <3>1. /\ Begin("mirror", "backup", job.prop, backupMeta(backup), backup)
          /\ UNCHANGED job
      BY <1>4, <2>3 DEF EnsureBackup, backup
    <3> QED
      BY <1>1, <1>2, <2>1, <3>1, BeginKeeps DEF Phase, Path
  <2> QED
    BY <2>2, <2>3
<1>5. ASSUME InspectBackup PROVE Kept
  <2>1. /\ Decided /\ job.plan = "replace" /\ locateMarkers(job.cur.data) = "valid"
        /\ UNCHANGED job
    BY <1>1, <1>5 DEF InspectBackup, TxnInv, JobInv, Decided
  <2>2. CASE backup.exists /\ backup.data = job.cur.data
    BY <1>3, <1>5, <2>1, <2>2 DEF InspectBackup, backup
  <2>3. CASE ~(backup.exists /\ backup.data = job.cur.data)
    <3>1. Begin("retain", "backup", job.cur.data, backupMeta(backup), backup)
      BY <1>5, <2>3 DEF InspectBackup, backup
    <3> QED
      BY <1>1, <1>2, <2>1, <3>1, BeginKeeps DEF Phase, Path
  <2> QED
    BY <2>2, <2>3
<1>6. ASSUME ReadBackup PROVE Kept
  <2>1. Decided /\ UNCHANGED job /\ job.cur.meta \in Meta
    BY <1>1, <1>6 DEF ReadBackup, JobInv, Decided
  <2>2. Begin("recover", "hosts", backup.data, job.cur.meta, job.cur)
    BY <1>6 DEF ReadBackup, backup
  <2> QED
    BY <1>1, <1>2, <2>1, <2>2, BeginKeeps DEF Phase, Path
<1>7. ASSUME DecideFails PROVE Kept
  BY <1>1, <1>7, ReturnKeeps DEF DecideFails, Outcome
<1>8. Kept
  BY <1>4, <1>5, <1>6, <1>7
<1>9. UNCHANGED <<fsVars, cancelled, histVars>>
  BY DEF EnsureBackup, InspectBackup, ReadBackup, DecideFails
<1>10. TypeOK'
  BY <1>1, <1>8, <1>9 DEF TypeOK, fsVars, histVars
<1>11. SyncInv'
  BY <1>9 DEF IInv, SyncInv, fsVars
<1> QED
  BY <1>8, <1>10, <1>11 DEF IInv

\* Staging the temporary file and verifying the destination.
LEMMA StageInv ==
  ASSUME IInv, CreateTemp \/ WriteTemp \/ SyncTemp \/ Verify
  PROVE  IInv'
<1>1. /\ file' = file /\ pend' = pend /\ job' = job /\ txn' = txn
      /\ pc \in {"create", "write", "sync", "verify"}
      /\ pc' \in {"write", "sync", "verify", "rename"}
      /\ UNCHANGED <<mode, cancelled, outcome, touched, base>>
      /\ raced' \in BOOLEAN
  BY DEF CreateTemp, WriteTemp, SyncTemp, Verify, fsVars, histVars, IInv, TypeOK
<1>2. temp \in File /\ txn \in Txn /\ txn.data \in Content /\ txn.meta \in Meta
  BY DEF IInv, TypeOK, Txn
<1>3. temp' \in File /\ TempInv'
  <2>1. CASE CreateTemp
    BY <2>1, ConstantTypes, StoreAssumption DEF CreateTemp, RegularFile, File, TempInv
  <2>2. CASE WriteTemp
    BY <1>2, <2>2 DEF WriteTemp, File, TempInv, IInv
  <2>3. CASE SyncTemp
    BY <1>2, <2>3 DEF SyncTemp, File, TempInv, IInv
  <2>4. CASE Verify
    BY <1>2, <2>4 DEF Verify, TempInv, IInv, fsVars
  <2> QED
    BY <2>1, <2>2, <2>3, <2>4
<1>4. TypeOK'
  BY <1>1, <1>3 DEF IInv, TypeOK, PC, EarlyPC, StagePC
<1>5. JobInv' /\ TxnInv'
  BY <1>1 DEF IInv, JobInv, TxnInv, Decided, Replacing, EarlyPC, StagePC, LatePC
<1>6. SyncInv'
  BY <1>1 DEF IInv, SyncInv
<1> QED
  BY <1>3, <1>4, <1>5, <1>6 DEF IInv

\* The rename and the directory sync.
LEMMA CommitInv ==
  ASSUME IInv, Rename \/ SyncDir
  PROVE  IInv'
<1>1. /\ file \in [Path -> File] /\ pend \in [Path -> SUBSET File] /\ temp \in File
      /\ txn.path \in Path /\ Absent \in File
  BY ConstantTypes DEF IInv, TypeOK, Txn
<1>2. /\ job' = job /\ txn' = txn /\ pc \in {"rename", "syncDir"}
      /\ pc' \in {"syncDir", "readback"} /\ raced' \in BOOLEAN
      /\ UNCHANGED <<mode, cancelled, outcome, touched, base>>
  BY DEF Rename, SyncDir, histVars, IInv, TypeOK
<1>3. /\ file' \in [Path -> File] /\ pend' \in [Path -> SUBSET File] /\ temp' \in File
      /\ SyncInv'
  <2>1. CASE Rename
    <3>1. temp.synced
      BY <2>1 DEF Rename, IInv, TempInv
    <3> QED
      BY <1>1, <2>1, <3>1 DEF Rename, IInv, SyncInv
  <2>2. CASE SyncDir
    BY <1>1, <2>2 DEF SyncDir, IInv, SyncInv
  <2> QED
    BY <2>1, <2>2
<1>4. TypeOK'
  BY <1>2, <1>3 DEF IInv, TypeOK, PC, LatePC
<1>5. JobInv' /\ TxnInv' /\ TempInv'
  BY <1>2 DEF IInv, JobInv, TxnInv, TempInv, Decided, Replacing, EarlyPC, StagePC, LatePC
<1> QED
  BY <1>3, <1>4, <1>5 DEF IInv

\* A replacement that is over, successfully or not.
LEMMA FinishInv ==
  ASSUME IInv, ReadBack \/ ReplaceFails \/ ReplaceFailsLate
  PROVE  IInv'
<1> DEFINE Kept == /\ pc' \in PC /\ outcome' \in Outcome /\ mode' \in Mode
                   /\ job' \in Job /\ txn' \in Txn
                   /\ JobInv' /\ TxnInv' /\ TempInv'
<1>1. /\ TypeOK /\ JobInv /\ TxnInv /\ Replacing /\ Decided /\ job.cur.meta \in Meta
  BY DEF IInv, ReadBack, ReplaceFails, ReplaceFailsLate, Replacing, Decided,
         EarlyPC, StagePC, LatePC, JobInv
<1>2. /\ job.prop \in Content /\ job.cur \in Snapshot /\ job.cur.data \in Content
      /\ [exists |-> TRUE, data |-> job.prop, meta |-> job.cur.meta] \in Snapshot
  BY <1>1 DEF TypeOK, Job, Snapshot
<1>3. ASSUME BeginCommit, UNCHANGED job, job.plan # "recover"
      PROVE  Kept
  BY <1>1, <1>2, <1>3, BeginKeeps DEF BeginCommit, Phase, Path
<1>4. ASSUME ReadBack PROVE Kept
  <2>1. CASE txn.phase = "mirror" /\ AfterMirror
    BY <1>1, <1>3, <2>1, ReturnKeeps DEF AfterMirror, TxnInv, Outcome
  <2>2. CASE txn.phase = "retain" /\ BeginCommit /\ UNCHANGED job
    BY <1>1, <1>3, <2>2 DEF TxnInv
  <2>3. CASE txn.phase = "commit" /\ AfterCommit
    <3>1. CASE job.plan = "replace"
      <4>1. pc' = "ensure" /\ txn' = NoTxn /\ UNCHANGED <<mode, job, outcome>>
        BY <2>3, <3>1 DEF AfterCommit
      <4>2. JobInv' /\ TxnInv' /\ TempInv'
        BY <1>1, <3>1, <4>1 DEF JobInv, TxnInv, TempInv, Decided, Replacing,
                                EarlyPC, StagePC, LatePC
      <4> QED
        BY <1>1, <4>1, <4>2, ConstantTypes DEF TypeOK, PC
    <3>2. CASE job.plan # "replace"
      BY <1>1, <2>3, <3>2, ReturnKeeps DEF AfterCommit, Outcome
    <3> QED
      BY <3>1, <3>2
  <2>4. CASE Return("ok") \/ Return("restored")
    BY <1>1, <2>4, ReturnKeeps DEF Outcome
  <2> QED
    BY <1>4, <2>1, <2>2, <2>3, <2>4 DEF ReadBack
<1>5. ASSUME ReplaceFails PROVE Kept
  BY <1>1, <1>5, ReturnKeeps DEF ReplaceFails, Outcome
<1>6. ASSUME ReplaceFailsLate PROVE Kept
  <2>1. CASE RollsBack
    <3>1. rollbackTarget /\ UNCHANGED job
      BY <1>6, <2>1 DEF ReplaceFailsLate
    <3> QED
      BY <1>1, <1>2, <3>1, BeginKeeps DEF rollbackTarget, Phase, Path
  <2>2. CASE ~RollsBack
    BY <1>1, <1>6, <2>2, ReturnKeeps DEF ReplaceFailsLate, Outcome
  <2> QED
    BY <2>1, <2>2
<1>7. Kept
  BY <1>4, <1>5, <1>6
<1>8. /\ file' = file /\ UNCHANGED <<cancelled, histVars>>
      /\ temp' = temp \/ temp' = Absent
  BY DEF ReadBack, ReplaceFails, ReplaceFailsLate, fsVars
<1>9. pend' = pend \/ pend' = [pend EXCEPT ![txn.path] = {file[txn.path]}]
  BY DEF ReadBack, ReplaceFails, ReplaceFailsLate, fsVars
<1>10. pend' \in [Path -> SUBSET File] /\ SyncInv'
  <2>1. /\ txn.path \in Path /\ file \in [Path -> File]
        /\ pend \in [Path -> SUBSET File] /\ SyncInv
    BY DEF IInv, TypeOK, Txn
  <2> QED
    BY <1>8, <1>9, <2>1 DEF SyncInv
<1>11. TypeOK'
  BY <1>1, <1>7, <1>8, <1>10, ConstantTypes DEF TypeOK, histVars
<1> QED
  BY <1>7, <1>10, <1>11 DEF IInv

\* The environment: foreign edits, cancellation, exits, kills and power losses.
LEMMA EnvironmentInv ==
  ASSUME IInv, Environment
  PROVE  IInv'
<1>1. CASE \E p \in Path : \E f \in EditFiles[p] : EditFile(p, f)
  <2>1. PICK p \in Path : \E f \in EditFiles[p] : EditFile(p, f)
    BY <1>1
  <2>2. PICK f \in EditFiles[p] : EditFile(p, f)
    BY <2>1
  <2>3. f \in File /\ f.synced
    BY StoreAssumption
  <2>4. /\ file' = [file EXCEPT ![p] = f] /\ pend' = [pend EXCEPT ![p] = {f}]
        /\ touched' = touched \cup {p} /\ raced' \in BOOLEAN
        /\ UNCHANGED <<temp, mode, cancelled, pc, job, txn, outcome, base>>
    BY <2>2 DEF EditFile, IInv, TypeOK
  <2>5. TypeOK'
    BY <2>3, <2>4 DEF IInv, TypeOK
  <2>6. JobInv' /\ TxnInv' /\ TempInv'
    BY <2>4 DEF IInv, JobInv, TxnInv, TempInv, Decided, Replacing
  <2>7. SyncInv'
    BY <2>3, <2>4 DEF IInv, TypeOK, SyncInv
  <2> QED
    BY <2>5, <2>6, <2>7 DEF IInv
<1>2. CASE Cancel \/ Exit
  <2>1. /\ UNCHANGED <<fsVars, pc, job, txn, outcome, histVars>>
        /\ mode' \in Mode /\ cancelled' \in BOOLEAN
    BY <1>2 DEF Cancel, Exit, IInv, TypeOK, Mode
  <2> QED
    BY <2>1 DEF IInv, TypeOK, JobInv, TxnInv, TempInv, SyncInv, Decided, Replacing,
                fsVars, histVars
<1>3. CASE Kill \/ PowerLoss
  <2>1. /\ Stopped /\ file \in [Path -> File] /\ pend \in [Path -> SUBSET File] /\ SyncInv
    BY <1>3 DEF Kill, PowerLoss, IInv, TypeOK
  <2>2. file' \in [Path -> File] /\ pend' \in [Path -> SUBSET File] /\ SyncInv'
    <3>1. CASE Kill
      BY <2>1, <3>1 DEF Kill, SyncInv
    <3>2. CASE PowerLoss
      <4>1. PICK h \in pend["hosts"], b \in pend["backup"] :
              \E hh \in AfterPowerLoss(h), bb \in AfterPowerLoss(b) :
                /\ file' = [p \in Path |-> IF p = "hosts" THEN hh ELSE bb]
                /\ pend' = [p \in Path |-> IF p = "hosts" THEN {hh} ELSE {bb}]
        BY <3>2 DEF PowerLoss
      <4>2. h \in File /\ b \in File /\ h.synced /\ b.synced
        BY <2>1 DEF SyncInv, Path
      <4>3. /\ file' = [p \in Path |-> IF p = "hosts" THEN h ELSE b]
            /\ pend' = [p \in Path |-> IF p = "hosts" THEN {h} ELSE {b}]
        BY <4>1, <4>2 DEF AfterPowerLoss
      <4> QED
        BY <4>2, <4>3 DEF SyncInv
    <3> QED
      BY <1>3, <3>1, <3>2
  <2>3. TypeOK'
    BY <2>1, <2>2, ConstantTypes DEF Stopped, TypeOK, PC, Mode, Outcome
  <2>4. JobInv' /\ TxnInv' /\ TempInv'
    BY <2>1 DEF Stopped, JobInv, TxnInv, TempInv, Decided, Replacing,
                EarlyPC, StagePC, LatePC
  <2> QED
    BY <2>2, <2>3, <2>4 DEF IInv
<1> QED
  BY <1>1, <1>2, <1>3 DEF Environment

\* Every step preserves the invariant.
LEMMA NextInv == IInv /\ [Next]_vars => IInv'
<1> SUFFICES ASSUME IInv, [Next]_vars PROVE IInv'
  OBVIOUS
<1>1. CASE Prepare \/ Regenerate
  BY <1>1, CallInv, ConstantTypes DEF Prepare, Regenerate, Op, Mode
<1>2. CASE \E body \in Bodies : Apply(body)
  <2>1. PICK body \in Bodies : Apply(body)
    BY <1>2
  <2>2. body \in Content
    BY StoreAssumption DEF Content, PlainLine
  <2>3. mode' \in Mode /\ cancelled' \in BOOLEAN
    BY <2>1 DEF Apply, IInv, TypeOK
  <2> QED
    BY <2>1, <2>2, <2>3, CallInv DEF Apply, Op
<1>3. CASE ReadHosts
  BY <1>3, ReadHostsInv
<1>4. CASE EnsureBackup \/ InspectBackup \/ ReadBackup \/ DecideFails
  BY <1>4, DecisionInv
<1>5. CASE Replace
  BY <1>5, StageInv, CommitInv, FinishInv DEF Replace
<1>6. CASE Environment
  BY <1>6, EnvironmentInv
<1>7. CASE UNCHANGED vars
  BY <1>7 DEF vars, IInv, TypeOK, JobInv, TxnInv, TempInv, SyncInv, Decided, Replacing
<1> QED
  BY <1>1, <1>2, <1>3, <1>4, <1>5, <1>6, <1>7 DEF Next, Store

\* The invariant holds of every reachable state.
THEOREM Invariance == Spec => []IInv
  BY InitInv, NextInv, PTL DEF Spec

(***************************************************************************)
(* Type correctness, for every set of lines, bodies, metadata and foreign  *)
(* edits: no replacement ever carries the zero metadata.                   *)
(***************************************************************************)
THEOREM TypeCorrect == Spec => []TypeOK
<1>1. IInv => TypeOK
  BY DEF IInv
<1> QED
  BY <1>1, Invariance, PTL

(***************************************************************************)
(* No power loss at any step leaves a torn hosts file or backup.           *)
(***************************************************************************)
THEOREM PowerLossAtomicity == Spec => []NeverTorn
<1>1. IInv => NeverTorn
  BY DEF IInv, SyncInv, NeverTorn, AfterPowerLoss
<1> QED
  BY <1>1, Invariance, PTL

\* Which steps change what is, or may come back, at the backup path.
LEMMA BackupSteps ==
  ASSUME IInv, [Next]_vars, BackupSafe
  PROVE  BackupSafe' \/ \E f \in EditFiles["backup"] : EditFile("backup", f)
<1>1. /\ file \in [Path -> File] /\ pend \in [Path -> SUBSET File]
      /\ txn.path \in Path /\ "backup" \in Path
  BY DEF IInv, TypeOK, Txn, Path
<1>2. CASE file' = file /\ pend' = pend
  BY <1>2 DEF BackupSafe
<1>3. CASE Rename
  <2>1. txn.path = "backup" => Valid(temp)
    BY <1>3 DEF Rename, IInv, TempInv, TxnInv, Replacing, EarlyPC, Valid
  <2>2. /\ file' = [file EXCEPT ![txn.path] = temp]
        /\ pend' = [pend EXCEPT ![txn.path] = pend[txn.path] \cup {temp}]
    BY <1>3 DEF Rename
  <2> QED
    BY <1>1, <2>1, <2>2 DEF BackupSafe
<1>4. CASE file' = file /\ pend' = [pend EXCEPT ![txn.path] = {file[txn.path]}]
  BY <1>1, <1>4 DEF BackupSafe
<1>5. ASSUME NEW p \in Path, NEW f \in EditFiles[p], EditFile(p, f)
      PROVE  BackupSafe' \/ \E g \in EditFiles["backup"] : EditFile("backup", g)
  <2>1. CASE p = "backup"
    BY <1>5, <2>1
  <2>2. CASE p # "backup"
    BY <1>1, <1>5, <2>2 DEF EditFile, BackupSafe
  <2> QED
    BY <2>1, <2>2
<1>6. CASE PowerLoss
  <2>1. \A g \in pend["hosts"] \cup pend["backup"] : AfterPowerLoss(g) = {g}
    BY DEF IInv, SyncInv, AfterPowerLoss, Path
  <2>2. PICK b \in pend["backup"] : file'["backup"] = b /\ pend'["backup"] = {b}
    BY <1>1, <1>6, <2>1 DEF PowerLoss
  <2> QED
    BY <2>2 DEF BackupSafe
<1>7. CASE UNCHANGED vars
  BY <1>2, <1>7 DEF vars
<1>8. CASE Next
  BY <1>2, <1>3, <1>4, <1>5, <1>6, <1>8
  DEF Next, Store, Replace, Environment, Prepare, Regenerate, Apply, Call, ReadHosts,
      EnsureBackup, InspectBackup, ReadBackup, DecideFails, CreateTemp, WriteTemp,
      SyncTemp, Verify, SyncDir, ReadBack, ReplaceFails, ReplaceFailsLate, Cancel,
      Exit, Kill, fsVars
<1> QED
  BY <1>7, <1>8

(***************************************************************************)
(* The central guarantee of the store: whatever SDHM does or suffers, it   *)
(* never turns a backup that can be recovered from into one that cannot.   *)
(***************************************************************************)
THEOREM BackupPreserved == Spec => BackupStaysValid
<1>1. IInv /\ [Next]_vars
        => [BackupSafe => \/ BackupSafe'
                          \/ \E f \in EditFiles["backup"] : EditFile("backup", f)]_vars
  BY BackupSteps
<1> QED
  BY <1>1, Invariance, PTL DEF Spec, BackupStaysValid
-----------------------------------------------------------------------------
(***************************************************************************)
(* Correctness of the whole operation.                                     *)
(*                                                                         *)
(* What a return value says of the two files was decided when the hosts    *)
(* file was read, and made true one replacement at a time.  The invariant  *)
(* carries it along: the decision (PlanInv), what each replacement expects *)
(* and writes (CarryInv), and what the paths hold meanwhile as long as     *)
(* nobody else has edited them (HostsInv, BackupInv, VerifiedInv), and     *)
(* that a committed file whose directory was synced stays durable          *)
(* (DurableInv).                                                           *)
(***************************************************************************)
Hosts  == SnapshotOf(file["hosts"])
Backup == SnapshotOf(file["backup"])

Copy(data, meta) == [exists |-> TRUE, data |-> data, meta |-> meta]

\* The operation has replaced the hosts file and has not taken it back.
Committed ==
  \/ txn.phase = "rollback" /\ pc \in EarlyPC
  \/ txn.phase \in {"commit", "recover"} /\ pc \in LatePC
  \/ job.plan = "replace" /\ (pc = "ensure" \/ (Replacing /\ txn.phase = "mirror"))

\* What ReadHosts decided, for each operation.
PlanInv ==
  Decided =>
    /\ job.op \in {"prepare", "apply", "regenerate"}
    /\ job.op = "prepare" =>
         /\ job.cur.exists
         /\ \/ /\ job.plan = "keep" /\ locateMarkers(job.cur.data) = "valid"
               /\ job.prop = job.cur.data
            \/ /\ job.plan = "seed" /\ locateMarkers(job.cur.data) = "none"
               /\ job.prop = appendEmptySection(job.cur.data)
            \/ job.plan = "recover" /\ locateMarkers(job.cur.data) = "corrupt"
    /\ job.op = "apply" =>
         /\ job.cur.exists /\ locateMarkers(job.cur.data) = "valid"
         /\ job.prop = replaceManagedSection(job.cur.data, job.body)
         /\ job.plan = "replace" \/ (job.plan = "keep" /\ job.prop = job.cur.data)
    /\ job.op = "regenerate" =>
         /\ job.prop = freshHostsFile
         /\ \/ job.plan = "replace" /\ job.cur.exists
            \/ job.plan = "seed" /\ (job.cur.exists \/ job.cur.meta = DefaultMeta)
    /\ "hosts" \notin touched =>
         /\ job.cur.exists => base = job.cur
         /\ ~job.cur.exists => base = NoSnapshot

\* What the running replacement expects and writes.
CarryInv ==
  /\ pc = "readBackup" => job.plan = "recover"
  /\ ~Replacing => txn.phase = "none"
  /\ Replacing =>
       /\ txn.phase # "none"
       /\ txn.phase \in {"mirror", "retain"} <=> txn.path = "backup"
       /\ txn.phase = "mirror" => txn.data = job.prop
       /\ txn.phase = "retain" => txn.data = job.cur.data
       /\ txn.phase = "commit" =>
            /\ job.plan \in {"seed", "replace"} /\ txn.expect = job.cur
            /\ txn.data = job.prop /\ txn.meta = job.cur.meta
       /\ txn.phase = "recover" =>
            /\ job.plan = "recover" /\ txn.expect = job.cur
            /\ locateMarkers(txn.data) = "valid" /\ txn.meta = job.cur.meta
       /\ txn.phase = "rollback" =>
            /\ job.plan = "replace" \/ (job.op = "prepare" /\ job.plan = "seed")
            /\ txn.expect = Copy(job.prop, job.cur.meta)
            /\ txn.data = job.cur.data /\ txn.meta = job.cur.meta

\* The hosts file is the one the operation found, or the one it committed.
HostsInv ==
  "hosts" \notin touched =>
    /\ pc = "idle" /\ outcome \in {"failed", "restored"} => Hosts = base
    /\ pc # "idle" /\ ~Committed => Hosts = base
    /\ Committed /\ txn.phase = "recover" => Hosts = Copy(txn.data, job.cur.meta)
    /\ Committed /\ txn.phase # "recover" => Hosts = Copy(job.prop, job.cur.meta)

\* The backup holds what makes the commit safe, and in the end its bytes.
BackupInv ==
  touched = {} =>
    /\ Replacing /\ txn.phase = "commit" =>
         /\ Backup.exists
         /\ job.plan = "replace" => Backup.data = job.cur.data
         /\ job.plan = "seed" => Backup.data = job.prop
    /\ Replacing /\ txn.phase = "recover" => Backup.exists /\ Backup.data = txn.data
    /\ MirrorOnSuccess

\* The destination was verified, and nobody has edited it since.
VerifiedInv == pc = "rename" /\ ~raced => Matches(file[txn.path], txn.expect)

\* A commit whose directory was synced is durable, and stays so.
Durable == \/ txn.phase \in {"commit", "recover"} /\ pc = "readback"
           \/ job.plan = "replace" /\ (pc = "ensure" \/ (Replacing /\ txn.phase = "mirror"))
DurableInv == Durable => pend["hosts"] = {file["hosts"]}

TrackInv == PlanInv /\ CarryInv /\ HostsInv /\ BackupInv /\ VerifiedInv /\ DurableInv

-----------------------------------------------------------------------------
\* Snapshots by their fields.
LEMMA Copies ==
  /\ \A f \in File : /\ SnapshotOf(f).exists <=> f.kind = "regular"
                     /\ f.kind = "regular" => /\ SnapshotOf(f).data = f.data
                                              /\ SnapshotOf(f).meta = f.meta
                                              /\ SnapshotOf(f) = Copy(f.data, f.meta)
                     /\ f.kind # "regular" => SnapshotOf(f) = NoSnapshot
  /\ \A s \in Snapshot : s.exists => s = Copy(s.data, s.meta)
  /\ \A d, m : Copy(d, m).exists /\ Copy(d, m).data = d /\ Copy(d, m).meta = m
  /\ ~NoSnapshot.exists
<1>1. ASSUME NEW f \in File
      PROVE  /\ SnapshotOf(f).exists <=> f.kind = "regular"
             /\ f.kind = "regular" => /\ SnapshotOf(f).data = f.data
                                      /\ SnapshotOf(f).meta = f.meta
                                      /\ SnapshotOf(f) = Copy(f.data, f.meta)
             /\ f.kind # "regular" => SnapshotOf(f) = NoSnapshot
  BY DEF SnapshotOf, Copy, NoSnapshot, File
<1>2. ASSUME NEW s \in Snapshot, s.exists PROVE s = Copy(s.data, s.meta)
  BY <1>2 DEF Snapshot, Copy
<1>3. \A d, m : Copy(d, m).exists /\ Copy(d, m).data = d /\ Copy(d, m).meta = m
  BY DEF Copy
<1> QED
  BY <1>1, <1>2, <1>3 DEF NoSnapshot

\* After a return only the result speaks of the files.
LEMMA ReturnTracks ==
  ASSUME NEW result, Return(result), UNCHANGED <<file, touched, base>>,
         "hosts" \notin touched /\ result \in {"failed", "restored"} => Hosts = base,
         touched = {} /\ result = "ok" => 
            /\ Valid(file["hosts"]) /\ Valid(file["backup"])
            /\ file["hosts"].data = file["backup"].data
  PROVE  TrackInv'
<1>1. pc' = "idle" /\ outcome' = result /\ txn'.phase = "none"
  BY DEF Return, NoTxn
<1>2. ~Decided' /\ ~Replacing' /\ ~Committed' /\ ~Durable'
  BY <1>1 DEF Decided, Replacing, Committed, Durable, EarlyPC, StagePC, LatePC
<1>3. PlanInv' /\ CarryInv' /\ VerifiedInv' /\ DurableInv'
  BY <1>1, <1>2 DEF PlanInv, CarryInv, VerifiedInv, DurableInv
<1>4. HostsInv'
  BY <1>1, <1>2 DEF HostsInv, Hosts
<1>5. BackupInv'
  BY <1>1, <1>2 DEF BackupInv, MirrorOnSuccess, Valid
<1> QED
  BY <1>3, <1>4, <1>5 DEF TrackInv

\* A replacement begins with what its phase calls for.
LEMMA BeginTracks ==
  ASSUME PlanInv, Decided, UNCHANGED <<job, file, touched, raced, base>>,
         NEW phase \in Phase \ {"none"}, NEW path \in Path, NEW data, NEW meta, NEW expect,
         Begin(phase, path, data, meta, expect),
         phase \in {"mirror", "retain"} <=> path = "backup",
         phase = "mirror" => data = job.prop,
         phase = "retain" => data = job.cur.data,
         phase = "commit" => /\ job.plan \in {"seed", "replace"} /\ expect = job.cur
                             /\ data = job.prop /\ meta = job.cur.meta,
         phase = "recover" => /\ job.plan = "recover" /\ expect = job.cur
                              /\ locateMarkers(data) = "valid" /\ meta = job.cur.meta,
         phase = "rollback" =>
           /\ job.plan = "replace" \/ (job.op = "prepare" /\ job.plan = "seed")
           /\ expect = Copy(job.prop, job.cur.meta)
           /\ data = job.cur.data /\ meta = job.cur.meta,
         "hosts" \notin touched =>
           IF phase = "rollback" \/ (phase = "mirror" /\ job.plan = "replace")
           THEN Hosts = Copy(job.prop, job.cur.meta)
           ELSE Hosts = base,
         touched = {} /\ phase = "commit" =>
           /\ Backup.exists
           /\ job.plan = "replace" => Backup.data = job.cur.data
           /\ job.plan = "seed" => Backup.data = job.prop,
         touched = {} /\ phase = "recover" => Backup.exists /\ Backup.data = data,
         phase = "mirror" /\ job.plan = "replace" => pend'["hosts"] = {file["hosts"]}
  PROVE  TrackInv'
<1>1. /\ pc' = "create" /\ txn'.phase = phase /\ txn'.path = path /\ txn'.data = data
      /\ txn'.meta = meta /\ txn'.expect = expect
  BY DEF Begin
<1>2. Decided' /\ Replacing'
  BY <1>1 DEF Decided, Replacing, EarlyPC, StagePC
<1>3. /\ Committed' <=> phase = "rollback" \/ (phase = "mirror" /\ job.plan = "replace")
      /\ Durable' <=> phase = "mirror" /\ job.plan = "replace"
  BY <1>1, <1>2 DEF Committed, Durable, EarlyPC, StagePC, LatePC
<1>4. PlanInv' /\ VerifiedInv'
  BY <1>1, <1>2 DEF PlanInv, VerifiedInv
<1>5. CarryInv'
  BY <1>1, <1>2 DEF CarryInv, Phase
<1>6. HostsInv'
  BY <1>1, <1>3 DEF HostsInv, Hosts
<1>7. BackupInv'
  BY <1>1 DEF BackupInv, Backup, MirrorOnSuccess
<1>8. DurableInv'
  BY <1>3 DEF DurableInv
<1> QED
  BY <1>4, <1>5, <1>6, <1>7, <1>8 DEF TrackInv

\* An operation is called.
LEMMA CallTracks ==
  ASSUME TrackInv, NEW op, NEW body, Call(op, body)
  PROVE  TrackInv'
<1>1. /\ pc = "idle" /\ pc' = "read" /\ touched' = {} /\ base' = Hosts /\ Hosts' = Hosts
      /\ txn' = txn
  BY DEF Call, Hosts, fsVars
<1>2. ~Replacing /\ txn.phase = "none"
  BY <1>1 DEF TrackInv, CarryInv, Replacing, EarlyPC, StagePC, LatePC
<1>3. ~Decided' /\ ~Replacing' /\ ~Committed' /\ ~Durable'
  BY <1>1, <1>2 DEF Decided, Replacing, Committed, Durable, EarlyPC, StagePC, LatePC
<1>4. PlanInv' /\ CarryInv' /\ VerifiedInv' /\ DurableInv'
  BY <1>1, <1>2, <1>3 DEF PlanInv, CarryInv, VerifiedInv, DurableInv
<1>5. HostsInv' /\ BackupInv'
  BY <1>1, <1>3 DEF HostsInv, BackupInv, MirrorOnSuccess
<1> QED
  BY <1>4, <1>5 DEF TrackInv

\* The hosts file is read and a plan is made.
LEMMA ReadTracks ==
  ASSUME IInv, TrackInv, ReadHosts
  PROVE  TrackInv'
<1>1. /\ TypeOK /\ Hosts \in Snapshot /\ job \in Job /\ pc = "read"
      /\ UNCHANGED <<file, pend, mode, txn, outcome, touched, raced, base>>
  BY SnapshotType DEF IInv, TypeOK, Path, Hosts, ReadHosts, fsVars, histVars
<1>2. ~Replacing /\ txn.phase = "none"
  BY <1>1 DEF TrackInv, CarryInv, Replacing, EarlyPC, StagePC, LatePC
<1>3. "hosts" \notin touched => Hosts = base
  BY <1>1, <1>2 DEF TrackInv, HostsInv, Committed, EarlyPC, StagePC, LatePC
<1>4. ~Hosts.exists => Hosts = NoSnapshot
  BY <1>1, Copies DEF TypeOK, Path, Hosts
<1>5. /\ job'.op = job.op /\ job'.body = job.body
      /\ pc' \in {"ensure", "inspect", "readBackup"}
      /\ job'.plan = "replace" => pc' = "inspect"
      /\ pc' = "readBackup" => job'.plan = "recover"
      /\ Hosts.exists => job'.cur = Hosts
      /\ ~Hosts.exists => /\ job.op = "regenerate" /\ job'.plan = "seed"
                          /\ ~job'.cur.exists /\ job'.cur.meta = DefaultMeta
  <2>1. CASE PrepareReads(Hosts)
    BY <1>1, <2>1 DEF PrepareReads, Decide, Job
  <2>2. CASE ApplyReads(Hosts)
    BY <1>1, <2>2 DEF ApplyReads, Decide, Job
  <2>3. CASE RegenerateReads(Hosts)
    <3>1. CASE Hosts.exists
      BY <1>1, <2>3, <3>1 DEF RegenerateReads, Decide, Job
    <3>2. CASE ~Hosts.exists
      <4> DEFINE found == [Hosts EXCEPT !.meta = DefaultMeta]
      <4>1. ~found.exists /\ found.meta = DefaultMeta
        BY <1>1, <3>2 DEF Snapshot
      <4>2. Decide("ensure", "seed", found, freshHostsFile, DefaultMeta) /\ job.op = "regenerate"
        BY <2>3, <3>2 DEF RegenerateReads
      <4> HIDE DEF found
      <4> QED
        BY <1>1, <3>2, <4>1, <4>2 DEF Decide, Job
    <3> QED
      BY <3>1, <3>2
  <2> QED
    BY <2>1, <2>2, <2>3 DEF ReadHosts, Hosts
<1>6. PlanInv'
  BY <1>1, <1>3, <1>4, <1>5
  DEF PlanInv, ReadHosts, Hosts, PrepareReads, ApplyReads, RegenerateReads, Decide, Job
<1>7. ~Replacing' /\ ~Committed' /\ ~Durable'
  BY <1>1, <1>2, <1>5 DEF Replacing, Committed, Durable, EarlyPC, StagePC, LatePC
<1>8. CarryInv' /\ VerifiedInv' /\ DurableInv'
  BY <1>1, <1>2, <1>5, <1>7 DEF CarryInv, VerifiedInv, DurableInv
<1>9. HostsInv' /\ BackupInv'
  BY <1>1, <1>3, <1>5, <1>7 DEF HostsInv, BackupInv, MirrorOnSuccess, Hosts
<1> QED
  BY <1>6, <1>8, <1>9 DEF TrackInv

\* While the backup is mirrored, the hosts file holds the proposed bytes already,
\* unless it is still to be committed.
LEMMA HostsHolds ==
  ASSUME IInv, TrackInv, "hosts" \notin touched,
         pc = "ensure" \/ (Replacing /\ txn.phase = "mirror"), job.plan # "seed"
  PROVE  Hosts.exists /\ Hosts.data = job.prop
<1>1. Decided /\ job \in Job
  BY DEF Decided, Replacing, EarlyPC, StagePC, LatePC, IInv, TypeOK
<1>2. CASE job.plan = "replace"
  <2>1. Committed /\ txn.phase # "recover"
    BY <1>2 DEF Committed, TrackInv, CarryInv, Replacing, EarlyPC, StagePC, LatePC
  <2> QED
    BY <2>1, Copies DEF TrackInv, HostsInv
<1>3. CASE job.plan # "replace"
  <2>1. job.plan # "none" /\ job.plan # "recover"
    BY <1>1 DEF IInv, JobInv, TxnInv, Decided
  <2>2. job.cur.exists /\ base = job.cur /\ job.prop = job.cur.data
    BY <1>1, <1>3, <2>1 DEF TrackInv, PlanInv
  <2>3. ~Committed /\ pc # "idle"
    BY <1>3 DEF Committed, Replacing, EarlyPC, StagePC, LatePC, TrackInv, CarryInv
  <2> QED
    BY <2>2, <2>3 DEF TrackInv, HostsInv
<1> QED
  BY <1>2, <1>3

\* ensureBackupMatches is done: its caller commits or returns.
LEMMA AfterMirrorTracks ==
  ASSUME IInv, TrackInv, AfterMirror, UNCHANGED <<file, pend, touched, raced, base>>,
         pc = "ensure" \/ (Replacing /\ txn.phase = "mirror"),
         file["backup"].kind = "regular", file["backup"].data = job.prop
  PROVE  TrackInv'
<1>1. /\ Decided /\ locateMarkers(job.prop) = "valid" /\ job.plan \in Plan /\ job.plan # "recover"
      /\ job.plan # "none"
      /\ file["hosts"] \in File /\ file["backup"] \in File
  BY DEF IInv, TypeOK, Path, Job, JobInv, TxnInv, Decided, Replacing, EarlyPC, StagePC, LatePC
<1>2. Backup.exists /\ Backup.data = job.prop
  BY <1>1, Copies DEF Backup
<1>3. CASE job.plan = "seed"
  <2>1. BeginCommit /\ UNCHANGED job
    BY <1>3 DEF AfterMirror
  <2>2. ~Committed /\ pc # "idle"
    BY <1>3 DEF Committed, Replacing, EarlyPC, StagePC, LatePC, TrackInv, CarryInv
  <2>3. "hosts" \notin touched => Hosts = base
    BY <2>2 DEF TrackInv, HostsInv
  <2> QED
    BY <1>1, <1>2, <1>3, <2>1, <2>3, BeginTracks DEF BeginCommit, Phase, Path, TrackInv
<1>4. CASE job.plan # "seed"
  <2>1. Return("ok")
    BY <1>4 DEF AfterMirror
  <2>2. touched = {} => Hosts.exists /\ Hosts.data = job.prop
    BY <1>4, HostsHolds
  <2>3. touched = {} => /\ Valid(file["hosts"]) /\ Valid(file["backup"])
                        /\ file["hosts"].data = file["backup"].data
    BY <1>1, <2>2, Copies DEF Valid, Hosts
  <2> QED
    BY <2>1, <2>3, ReturnTracks
<1> QED
  BY <1>3, <1>4

\* The backup is inspected, or the operation gives up, between two replacements.
LEMMA DecisionTracks ==
  ASSUME IInv, TrackInv, EnsureBackup \/ InspectBackup \/ ReadBackup \/ DecideFails
  PROVE  TrackInv'
<1>1. UNCHANGED <<file, pend, touched, raced, base>>
  BY DEF EnsureBackup, InspectBackup, ReadBackup, DecideFails, fsVars, histVars
<1>2. file["hosts"] \in File /\ file["backup"] \in File /\ ~Replacing /\ txn.phase = "none"
  BY DEF IInv, TypeOK, Path, EnsureBackup, InspectBackup, ReadBackup, DecideFails, TrackInv,
         CarryInv,
     Replacing, EarlyPC, StagePC, LatePC
<1>3. CASE EnsureBackup
  <2>1. CASE Backup.exists /\ Backup.data = job.prop
    BY <1>1, <1>2, <1>3, <2>1, AfterMirrorTracks, Copies DEF EnsureBackup, Backup
  <2>2. CASE ~(Backup.exists /\ Backup.data = job.prop)
    <3>1. /\ Begin("mirror", "backup", job.prop, backupMeta(Backup), Backup)
          /\ UNCHANGED job /\ pc = "ensure"
      BY <1>3, <2>2 DEF EnsureBackup, Backup
    <3>2. /\ Decided /\ PlanInv /\ (Committed <=> job.plan = "replace")
          /\ (Durable <=> job.plan = "replace")
      BY <1>2, <3>1 DEF Decided, Committed, Durable, TrackInv, EarlyPC, StagePC, LatePC
    <3>3. "hosts" \notin touched =>
            IF job.plan = "replace" THEN Hosts = Copy(job.prop, job.cur.meta) ELSE Hosts = base
      BY <1>2, <3>1, <3>2 DEF TrackInv, HostsInv
    <3>4. job.plan = "replace" => pend["hosts"] = {file["hosts"]}
      BY <3>2 DEF TrackInv, DurableInv
    <3> QED
      BY <1>1, <3>1, <3>2, <3>3, <3>4, BeginTracks DEF Phase, Path
  <2> QED
    BY <2>1, <2>2
<1>4. CASE InspectBackup
  <2>1. /\ UNCHANGED job /\ pc = "inspect" /\ job.plan = "replace" /\ Decided /\ PlanInv
    BY <1>4 DEF InspectBackup, IInv, TxnInv, Decided, TrackInv
  <2>2. ~Committed
    BY <1>2, <2>1 DEF Committed, EarlyPC, StagePC, LatePC
  <2>3. "hosts" \notin touched => Hosts = base
    BY <2>1, <2>2 DEF TrackInv, HostsInv
  <2>4. CASE Backup.exists /\ Backup.data = job.cur.data
    <3>1. BeginCommit
      BY <1>4, <2>4 DEF InspectBackup, Backup
    <3> QED
      BY <1>1, <2>1, <2>3, <2>4, <3>1, BeginTracks DEF BeginCommit, Phase, Path
  <2>5. CASE ~(Backup.exists /\ Backup.data = job.cur.data)
    <3>1. Begin("retain", "backup", job.cur.data, backupMeta(Backup), Backup)
      BY <1>4, <2>5 DEF InspectBackup, Backup
    <3> QED
      BY <1>1, <2>1, <2>3, <3>1, BeginTracks DEF Phase, Path
  <2> QED
    BY <2>4, <2>5
<1>5. CASE ReadBackup
  <2>1. /\ UNCHANGED job /\ pc = "readBackup" /\ job.plan = "recover" /\ Decided /\ PlanInv
        /\ Backup.exists /\ locateMarkers(Backup.data) = "valid"
        /\ Begin("recover", "hosts", Backup.data, job.cur.meta, job.cur)
    BY <1>5 DEF ReadBackup, Backup, Decided, TrackInv, CarryInv
  <2>2. ~Committed
    BY <1>2, <2>1 DEF Committed, EarlyPC, StagePC, LatePC
  <2>3. "hosts" \notin touched => Hosts = base
    BY <2>1, <2>2 DEF TrackInv, HostsInv
  <2> QED
    BY <1>1, <2>1, <2>3, BeginTracks DEF Phase, Path
<1>6. CASE DecideFails
  <2>1. /\ pc # "idle"
        /\ Return(IF pc = "ensure" /\ job.plan = "replace" THEN "unmirrored" ELSE "failed")
    BY <1>6 DEF DecideFails
  <2>2. ~(pc = "ensure" /\ job.plan = "replace") => ~Committed
    BY <1>2 DEF Committed, EarlyPC, StagePC, LatePC, Replacing
  <2>3. CASE pc = "ensure" /\ job.plan = "replace"
    BY <1>1, <2>1, <2>3, ReturnTracks
  <2>4. CASE ~(pc = "ensure" /\ job.plan = "replace")
    <3>1. "hosts" \notin touched => Hosts = base
      BY <2>1, <2>2, <2>4 DEF TrackInv, HostsInv
    <3> QED
      BY <1>1, <2>1, <2>4, <3>1, ReturnTracks
  <2> QED
    BY <2>3, <2>4
<1> QED
  BY <1>3, <1>4, <1>5, <1>6

\* Staging the temporary file, and verifying the destination.
LEMMA StageTracks ==
  ASSUME IInv, TrackInv, CreateTemp \/ WriteTemp \/ SyncTemp \/ Verify
  PROVE  TrackInv'
<1>1. /\ UNCHANGED <<file, pend, job, txn, outcome, touched, base>>
      /\ pc \in EarlyPC /\ pc' \in EarlyPC
      /\ pc' = "rename" => Matches(file[txn.path], txn.expect)
  BY DEF CreateTemp, WriteTemp, SyncTemp, Verify, requireSnapshot, fsVars, histVars, EarlyPC,
         StagePC
<1>2. /\ Decided /\ Decided' /\ Replacing /\ Replacing'
      /\ pc \notin {"idle", "ensure", "readBackup"} \cup LatePC
      /\ pc' \notin {"idle", "ensure", "readBackup"} \cup LatePC
  BY <1>1 DEF Decided, Replacing, EarlyPC, StagePC, LatePC
<1>3. (Committed' <=> Committed) /\ (Durable' <=> Durable)
  BY <1>1, <1>2 DEF Committed, Durable, LatePC
<1>4. PlanInv' /\ CarryInv'
  BY <1>1, <1>2 DEF TrackInv, PlanInv, CarryInv
<1>5. HostsInv' /\ DurableInv' /\ VerifiedInv'
  BY <1>1, <1>2, <1>3 DEF TrackInv, HostsInv, DurableInv, VerifiedInv, Hosts
<1>6. BackupInv'
  BY <1>1, <1>2 DEF TrackInv, BackupInv, Backup, MirrorOnSuccess
<1> QED
  BY <1>4, <1>5, <1>6 DEF TrackInv

\* The rename: the proposal, or what a rollback puts back, becomes visible.
LEMMA RenameTracks ==
  ASSUME IInv, TrackInv, Rename
  PROVE  TrackInv'
<1>1. /\ UNCHANGED <<job, txn, outcome, touched, base>> /\ pc = "rename" /\ pc' = "syncDir"
      /\ file' = [file EXCEPT ![txn.path] = temp]
      /\ pend' = [pend EXCEPT ![txn.path] = pend[txn.path] \cup {temp}]
  BY DEF Rename
<1>2. /\ file \in [Path -> File] /\ pend \in [Path -> SUBSET File] /\ temp \in File /\ txn.path \in Path
      /\ temp.kind = "regular" /\ temp.data = txn.data /\ temp.meta = txn.meta
      /\ job \in Job /\ job.cur \in Snapshot /\ txn.phase \in Phase
  BY <1>1 DEF IInv, TypeOK, Txn, TempInv, Job
<1>3. Decided /\ Decided' /\ Replacing /\ Replacing'
  BY <1>1 DEF Decided, Replacing, EarlyPC, StagePC, LatePC
<1>4. SnapshotOf(temp) = Copy(txn.data, txn.meta)
  BY <1>2, Copies
<1>5. /\ txn.path = "hosts" => Hosts' = Copy(txn.data, txn.meta) /\ Backup' = Backup
      /\ txn.path = "backup" => Hosts' = Hosts /\ UNCHANGED <<file["hosts"], pend["hosts"]>>
  BY <1>1, <1>2, <1>4 DEF Hosts, Backup, Path
<1>6. CarryInv /\ CarryInv' /\ PlanInv /\ PlanInv' /\ VerifiedInv'
  BY <1>1, <1>3 DEF TrackInv, PlanInv, CarryInv, VerifiedInv
<1>7. HostsInv'
  <2>1. CASE txn.path = "backup"
    <3>1. txn.phase \in {"mirror", "retain"}
      BY <1>3, <1>6, <2>1 DEF CarryInv
    <3>2. Committed' <=> Committed
      BY <1>1, <1>3, <3>1 DEF Committed
    <3> QED
      BY <1>1, <1>5, <2>1, <3>2 DEF TrackInv, HostsInv
  <2>2. CASE txn.path = "hosts" /\ txn.phase = "rollback"
    <3>1. ~Committed'
      BY <1>1, <2>2 DEF Committed, EarlyPC, StagePC
    <3>2. txn.data = job.cur.data /\ txn.meta = job.cur.meta /\ job.cur.exists
      BY <1>3, <1>6, <2>2 DEF CarryInv, PlanInv
    <3>3. Hosts' = job.cur
      BY <1>2, <1>5, <2>2, <3>2, Copies
    <3>4. "hosts" \notin touched => base = job.cur
      BY <1>3, <1>6, <3>2 DEF PlanInv
    <3> QED
      BY <1>1, <3>1, <3>3, <3>4 DEF HostsInv
  <2>3. CASE txn.path = "hosts" /\ txn.phase # "rollback"
    <3>1. txn.phase \in {"commit", "recover"}
      BY <1>2, <1>3, <1>6, <2>3 DEF CarryInv, Phase
    <3>2. Committed'
      BY <1>1, <3>1 DEF Committed, LatePC
    <3>3. txn.meta = job.cur.meta /\ (txn.phase = "commit" => txn.data = job.prop)
      BY <1>3, <1>6, <3>1 DEF CarryInv
    <3> QED
      BY <1>1, <1>5, <2>3, <3>1, <3>2, <3>3 DEF HostsInv
  <2> QED
    BY <1>2, <2>1, <2>2, <2>3 DEF Path
<1>8. BackupInv'
  <2>1. txn.phase \in {"commit", "recover"} => txn.path = "hosts"
    BY <1>2, <1>3, <1>6 DEF CarryInv, Path
  <2> QED
    BY <1>1, <1>3, <1>5, <2>1 DEF TrackInv, BackupInv, MirrorOnSuccess
<1>9. DurableInv'
  <2>1. Durable' => Durable /\ txn.path = "backup"
    BY <1>1, <1>3, <1>6 DEF Durable, CarryInv
  <2> QED
    BY <1>5, <2>1 DEF TrackInv, DurableInv
<1> QED
  BY <1>6, <1>7, <1>8, <1>9 DEF TrackInv

\* The directory sync makes what the rename put in place durable.
LEMMA SyncDirTracks ==
  ASSUME IInv, TrackInv, SyncDir
  PROVE  TrackInv'
<1>1. /\ UNCHANGED <<file, job, txn, outcome, touched, base>> /\ pc = "syncDir" /\ pc' = "readback"
      /\ pend' = [pend EXCEPT ![txn.path] = {file[txn.path]}]
  BY DEF SyncDir, histVars
<1>2. pend \in [Path -> SUBSET File] /\ txn.path \in Path /\ txn.phase \in Phase
  BY DEF IInv, TypeOK, Txn
<1>3. Decided /\ Decided' /\ Replacing /\ Replacing' /\ (Committed' <=> Committed)
  BY <1>1 DEF Decided, Replacing, Committed, EarlyPC, StagePC, LatePC
<1>4. CarryInv /\ CarryInv' /\ PlanInv' /\ VerifiedInv' /\ HostsInv'
  BY <1>1, <1>3 DEF TrackInv, PlanInv, CarryInv, VerifiedInv, HostsInv, Hosts
<1>5. BackupInv'
  BY <1>1, <1>3 DEF TrackInv, BackupInv, Backup, MirrorOnSuccess
<1>6. DurableInv'
  <2>1. CASE txn.path = "hosts"
    BY <1>1, <1>2, <2>1 DEF DurableInv
  <2>2. CASE txn.path = "backup"
    <3>1. pend'["hosts"] = pend["hosts"] /\ (Durable' => Durable)
      BY <1>1, <1>2, <1>3, <1>4, <2>2 DEF Durable, CarryInv, Path
    <3> QED
      BY <1>1, <3>1 DEF TrackInv, DurableInv
  <2> QED
    BY <1>2, <2>1, <2>2 DEF Path
<1> QED
  BY <1>4, <1>5, <1>6 DEF TrackInv

\* The replacement was read back: its caller goes on.
LEMMA ReadBackTracks ==
  ASSUME IInv, TrackInv, ReadBack
  PROVE  TrackInv'
<1>1. /\ UNCHANGED <<file, pend, touched, raced, base>> /\ pc = "readback"
      /\ file[txn.path].kind = "regular" /\ file[txn.path].data = txn.data
  BY DEF ReadBack, fsVars, histVars
<1>2. /\ file["hosts"] \in File /\ file["backup"] \in File /\ txn.path \in Path
      /\ Decided /\ Replacing /\ CarryInv /\ PlanInv
      /\ job.plan # "recover" => locateMarkers(job.prop) = "valid"
  BY <1>1 DEF IInv, TypeOK, Path, Txn, JobInv, Decided, Replacing, EarlyPC, StagePC, LatePC,
              TrackInv
<1>3. CASE txn.phase = "mirror" /\ AfterMirror
  <2>1. txn.path = "backup" /\ txn.data = job.prop
    BY <1>2, <1>3 DEF CarryInv
  <2> QED
    BY <1>1, <1>2, <1>3, <2>1, AfterMirrorTracks
<1>4. CASE txn.phase = "retain" /\ BeginCommit /\ UNCHANGED job
  <2>1. txn.path = "backup" /\ txn.data = job.cur.data /\ job.plan = "replace"
    BY <1>2, <1>4 DEF CarryInv, IInv, TxnInv
  <2>2. Backup.exists /\ Backup.data = job.cur.data
    BY <1>1, <1>2, <2>1, Copies DEF Backup
  <2>3. ~Committed
    BY <1>1, <1>4 DEF Committed, EarlyPC, StagePC
  <2>4. "hosts" \notin touched => Hosts = base
    BY <1>1, <2>3 DEF TrackInv, HostsInv
  <2> QED
    BY <1>1, <1>2, <1>4, <2>1, <2>2, <2>4, BeginTracks DEF BeginCommit, Phase, Path
<1>5. CASE txn.phase = "commit" /\ AfterCommit
  <2>1. txn.path = "hosts" /\ txn.data = job.prop /\ job.plan \in {"seed", "replace"}
    BY <1>2, <1>5 DEF CarryInv, Path
  <2>2. Committed /\ Durable
    BY <1>1, <1>5 DEF Committed, Durable, LatePC
  <2>3. CASE job.plan = "replace"
    <3>1. pc' = "ensure" /\ txn'.phase = "none" /\ UNCHANGED <<job, outcome>>
      BY <1>5, <2>3 DEF AfterCommit, NoTxn
    <3>2. Decided' /\ ~Replacing' /\ Committed'
      BY <2>3, <3>1 DEF Decided, Replacing, Committed, EarlyPC, StagePC, LatePC
    <3>3. PlanInv' /\ CarryInv' /\ VerifiedInv'
      BY <1>1, <1>2, <3>1, <3>2 DEF PlanInv, CarryInv, VerifiedInv
    <3>4. HostsInv' /\ DurableInv'
      BY <1>1, <1>5, <2>2, <3>1, <3>2 DEF TrackInv, HostsInv, DurableInv, Hosts
    <3>5. BackupInv'
      BY <3>1, <3>2 DEF BackupInv, MirrorOnSuccess
    <3> QED
      BY <3>3, <3>4, <3>5 DEF TrackInv
  <2>4. CASE job.plan = "seed"
    <3>1. Return("ok")
      BY <1>5, <2>4 DEF AfterCommit
    <3>2. touched = {} => Backup.exists /\ Backup.data = job.prop
      BY <1>2, <1>5, <2>4 DEF TrackInv, BackupInv
    <3>3. touched = {} => /\ Valid(file["hosts"]) /\ Valid(file["backup"])
                          /\ file["hosts"].data = file["backup"].data
      BY <1>1, <1>2, <2>1, <2>4, <3>2, Copies DEF Valid, Backup
    <3> QED
      BY <1>1, <3>1, <3>3, ReturnTracks
  <2> QED
    BY <2>1, <2>3, <2>4
<1>6. CASE txn.phase = "recover" /\ Return("ok")
  <2>1. txn.path = "hosts" /\ locateMarkers(txn.data) = "valid"
    BY <1>2, <1>6 DEF CarryInv, Path
  <2>2. touched = {} => Backup.exists /\ Backup.data = txn.data
    BY <1>2, <1>6 DEF TrackInv, BackupInv
  <2>3. touched = {} => /\ Valid(file["hosts"]) /\ Valid(file["backup"])
                        /\ file["hosts"].data = file["backup"].data
    BY <1>1, <1>2, <2>1, <2>2, Copies DEF Valid, Backup
  <2> QED
    BY <1>1, <1>6, <2>3, ReturnTracks
<1>7. CASE txn.phase = "rollback" /\ Return("restored")
  <2>1. ~Committed
    BY <1>1, <1>7 DEF Committed, EarlyPC, StagePC
  <2>2. "hosts" \notin touched => Hosts = base
    BY <1>1, <2>1 DEF TrackInv, HostsInv
  <2> QED
    BY <1>1, <1>7, <2>2, ReturnTracks
<1> QED
  BY <1>3, <1>4, <1>5, <1>6, <1>7 DEF ReadBack

\* The replacement failed, before its rename or after it.
LEMMA FailureTracks ==
  ASSUME IInv, TrackInv, ReplaceFails \/ ReplaceFailsLate
  PROVE  TrackInv'
<1>1. /\ UNCHANGED <<file, touched, raced, base>> /\ pc # "idle"
      /\ txn.path \in Path /\ txn.phase \in Phase /\ pend \in [Path -> SUBSET File]
      /\ Decided /\ Replacing /\ CarryInv /\ PlanInv
  BY DEF ReplaceFails, ReplaceFailsLate, IInv, TypeOK, Txn, Decided, Replacing, TrackInv,
         histVars,
         EarlyPC, StagePC, LatePC
<1>2. CASE ReplaceFails
  <2>1. PICK result : /\ Return(result) /\ result # "ok"
                      /\ result \in {"failed", "restored"} =>
                           txn.phase # "rollback" /\ ~(txn.phase = "mirror" /\ job.plan = "replace")
    BY <1>2 DEF ReplaceFails
  <2>2. result \in {"failed", "restored"} => ~Committed
    BY <1>2, <2>1 DEF ReplaceFails, Committed, EarlyPC, StagePC, LatePC
  <2>3. "hosts" \notin touched /\ result \in {"failed", "restored"} => Hosts = base
    BY <1>1, <2>2 DEF TrackInv, HostsInv
  <2> QED
    BY <1>1, <2>1, <2>3, ReturnTracks
<1>3. CASE ReplaceFailsLate /\ RollsBack
  <2>1. rollbackTarget /\ UNCHANGED job /\ pc \in LatePC
    BY <1>3 DEF ReplaceFailsLate
  <2>2. txn.phase = "commit" /\ (job.plan = "replace" \/ job.op = "prepare")
    BY <1>3 DEF RollsBack
  <2>3. /\ txn.path = "hosts" /\ job.plan \in {"seed", "replace"} /\ Committed
    BY <1>1, <2>1, <2>2 DEF CarryInv, Path, Committed
  <2>4. "hosts" \notin touched => Hosts = Copy(job.prop, job.cur.meta)
    BY <2>2, <2>3 DEF TrackInv, HostsInv
  <2>5. Begin("rollback", "hosts", job.cur.data, job.cur.meta, Copy(job.prop, job.cur.meta))
    BY <2>1 DEF rollbackTarget, Copy
  <2>6. job.plan = "replace" \/ (job.op = "prepare" /\ job.plan = "seed")
    BY <2>2, <2>3
  <2> QED
    BY <1>1, <2>1, <2>4, <2>5, <2>6, BeginTracks DEF Phase, Path
<1>4. CASE ReplaceFailsLate /\ ~RollsBack
  <2>1. PICK result : /\ Return(result) /\ result # "ok"
                      /\ result \in {"failed", "restored"} =>
                           /\ txn.phase \notin {"rollback", "commit", "recover"}
                           /\ ~(txn.phase = "mirror" /\ job.plan = "replace")
    BY <1>4 DEF ReplaceFailsLate
  <2>2. result \in {"failed", "restored"} => ~Committed
    BY <1>4, <2>1 DEF ReplaceFailsLate, Committed, EarlyPC, StagePC, LatePC
  <2>3. "hosts" \notin touched /\ result \in {"failed", "restored"} => Hosts = base
    BY <1>1, <2>2 DEF TrackInv, HostsInv
  <2> QED
    BY <1>1, <2>1, <2>3, ReturnTracks
<1> QED
  BY <1>2, <1>3, <1>4

\* Foreign edits are recorded in touched and raced; a stopped operation claims nothing.
LEMMA EnvironmentTracks ==
  ASSUME IInv, TrackInv, Environment
  PROVE  TrackInv'
<1>1. ASSUME NEW p \in Path, NEW f \in EditFiles[p], EditFile(p, f) PROVE TrackInv'
  <2>1. /\ UNCHANGED <<pc, job, txn, outcome, base>> /\ touched' = touched \cup {p} /\ p \in touched'
        /\ file' = [file EXCEPT ![p] = f] /\ pend' = [pend EXCEPT ![p] = {f}]
        /\ raced' = (raced \/ (pc = "rename" /\ txn.path = p))
    BY <1>1 DEF EditFile
  <2>2. file \in [Path -> File] /\ pend \in [Path -> SUBSET File] /\ txn.path \in Path
    BY DEF IInv, TypeOK, Txn
  <2>3. /\ (Decided' <=> Decided) /\ (Replacing' <=> Replacing) /\ (Committed' <=> Committed)
        /\ (Durable' <=> Durable)
    BY <2>1 DEF Decided, Replacing, Committed, Durable
  <2>4. PlanInv' /\ CarryInv'
    BY <2>1, <2>3 DEF TrackInv, PlanInv, CarryInv
  <2>5. HostsInv'
    BY <2>1, <2>2, <2>3 DEF TrackInv, HostsInv, Hosts, Path
  <2>6. BackupInv'
    BY <2>1 DEF BackupInv
  <2>7. VerifiedInv'
    BY <2>1, <2>2 DEF TrackInv, VerifiedInv
  <2>8. DurableInv'
    BY <2>1, <2>2, <2>3 DEF TrackInv, DurableInv, Path
  <2> QED
    BY <2>4, <2>5, <2>6, <2>7, <2>8 DEF TrackInv
<1>2. ASSUME UNCHANGED <<fsVars, pc, job, txn, outcome, histVars>> PROVE TrackInv'
  <2> USE DEF fsVars, histVars
  <2>1. /\ (Decided' <=> Decided) /\ (Replacing' <=> Replacing) /\ (Committed' <=> Committed)
        /\ (Durable' <=> Durable) /\ Hosts' = Hosts /\ Backup' = Backup
    BY <1>2 DEF Decided, Replacing, Committed, Durable, Hosts, Backup
  <2>2. PlanInv' /\ CarryInv' /\ HostsInv' /\ VerifiedInv' /\ DurableInv'
    BY <1>2, <2>1 DEF TrackInv, PlanInv, CarryInv, HostsInv, VerifiedInv, DurableInv
  <2>3. BackupInv'
    BY <1>2, <2>1 DEF TrackInv, BackupInv, MirrorOnSuccess
  <2> QED
    BY <2>2, <2>3 DEF TrackInv
<1>3. ASSUME Stopped PROVE TrackInv'
  <2>1. pc' = "idle" /\ txn'.phase = "none" /\ outcome' = "none"
    BY <1>3 DEF Stopped, NoTxn
  <2>2. ~Decided' /\ ~Replacing' /\ ~Committed' /\ ~Durable'
    BY <2>1 DEF Decided, Replacing, Committed, Durable, EarlyPC, StagePC, LatePC
  <2> QED
    BY <2>1, <2>2 DEF TrackInv, PlanInv, CarryInv, HostsInv, BackupInv, MirrorOnSuccess,
                      VerifiedInv, DurableInv
<1> QED
  BY <1>1, <1>2, <1>3 DEF Environment, Cancel, Exit, Kill, PowerLoss

\* Every step preserves the second invariant, given the first.
LEMMA TrackStep ==
  ASSUME IInv, TrackInv, [Next]_vars
  PROVE  TrackInv'
<1>1. CASE Prepare \/ Regenerate \/ \E body \in Bodies : Apply(body)
  BY <1>1, CallTracks DEF Prepare, Regenerate, Apply
<1>2. CASE ReadHosts
  BY <1>2, ReadTracks
<1>3. CASE EnsureBackup \/ InspectBackup \/ ReadBackup \/ DecideFails
  BY <1>3, DecisionTracks
<1>4. CASE Replace
  BY <1>4, StageTracks, RenameTracks, SyncDirTracks, ReadBackTracks, FailureTracks DEF Replace
<1>5. CASE Environment
  BY <1>5, EnvironmentTracks
<1>6. CASE UNCHANGED vars
  <2>1. /\ (Decided' <=> Decided) /\ (Replacing' <=> Replacing) /\ (Committed' <=> Committed)
        /\ (Durable' <=> Durable) /\ Hosts' = Hosts /\ Backup' = Backup
    BY <1>6 DEF vars, Decided, Replacing, Committed, Durable, Hosts, Backup
  <2>2. PlanInv' /\ CarryInv' /\ HostsInv' /\ VerifiedInv' /\ DurableInv'
    BY <1>6, <2>1 DEF vars, TrackInv, PlanInv, CarryInv, HostsInv, VerifiedInv, DurableInv
  <2>3. BackupInv'
    BY <1>6, <2>1 DEF vars, TrackInv, BackupInv, MirrorOnSuccess
  <2> QED
    BY <2>2, <2>3 DEF TrackInv
<1> QED
  BY <1>1, <1>2, <1>3, <1>4, <1>5, <1>6 DEF Next, Store

\* The second invariant holds with the first.
THEOREM TrackInvariance == Spec => []TrackInv
<1>1. Init => TrackInv
  BY DEF Init, TrackInv, PlanInv, CarryInv, HostsInv, BackupInv, MirrorOnSuccess, VerifiedInv,
     DurableInv, Decided, Replacing, Committed, Durable, NoTxn, EarlyPC, StagePC, LatePC
<1> QED
  BY <1>1, TrackStep, Invariance, PTL DEF Spec

(***************************************************************************)
(* A successful Prepare, Apply or Regenerate leaves a valid hosts file and *)
(* a backup of the same bytes, whatever steps it took.                     *)
(***************************************************************************)
THEOREM SuccessMirrors == Spec => []MirrorOnSuccess
<1>1. TrackInv => MirrorOnSuccess
  BY DEF TrackInv, BackupInv, MirrorOnSuccess
<1> QED
  BY <1>1, TrackInvariance, PTL

(***************************************************************************)
(* An operation that says it failed, or that the target was restored, left *)
(* the hosts file as it found it, wherever it was interrupted.             *)
(***************************************************************************)
THEOREM FailureIsAtomic == Spec => []FailureAtomic
<1>1. TrackInv => FailureAtomic
  BY DEF TrackInv, HostsInv, FailureAtomic, Hosts
<1> QED
  BY <1>1, TrackInvariance, PTL

(***************************************************************************)
(* A valid hosts file is replaced only while the backup holds its bytes.   *)
(***************************************************************************)
THEOREM RetainedFirst == Spec => []RetainedBeforeCommit
<1>1. ASSUME IInv, TrackInv PROVE RetainedBeforeCommit
  <2>1. SUFFICES ASSUME pc = "rename", txn.phase = "commit", job.plan = "replace", touched = {}
                 PROVE  /\ file["backup"].kind = "regular"
                        /\ file["backup"].data = file["hosts"].data
    BY DEF RetainedBeforeCommit
  <2>2. Decided /\ Replacing /\ ~Committed /\ file["hosts"] \in File /\ file["backup"] \in File
    BY <1>1, <2>1 DEF Decided, Replacing, Committed, EarlyPC, StagePC, LatePC, IInv, TypeOK,
                      Path
  <2>3. Backup.exists /\ Backup.data = job.cur.data
    BY <1>1, <2>1, <2>2 DEF TrackInv, BackupInv
  <2>4. job.cur.exists /\ base = job.cur /\ Hosts = base
    BY <1>1, <2>1, <2>2 DEF TrackInv, PlanInv, HostsInv
  <2> QED
    BY <2>2, <2>3, <2>4, Copies DEF Hosts, Backup
<1> QED
  BY <1>1, Invariance, TrackInvariance, PTL

(***************************************************************************)
(* What SDHM renames over is what it expected to find there, unless the    *)
(* edit hit the window between the check and the rename.                   *)
(***************************************************************************)
THEOREM EditsAreKept == Spec => NoLostEdit
<1>1. ASSUME IInv, TrackInv
      PROVE  raced \/ IF txn.phase = "rollback"
                      THEN Overwrites("hosts", Copy(job.prop, job.cur.meta))
                      ELSE Overwrites("hosts", job.cur) /\ Overwrites("backup", txn.expect)
  <2>1. SUFFICES ASSUME ~raced, pc = "rename"
                 PROVE  IF txn.phase = "rollback"
                        THEN Overwrites("hosts", Copy(job.prop, job.cur.meta))
                        ELSE Overwrites("hosts", job.cur) /\ Overwrites("backup", txn.expect)
    BY DEF Overwrites, Renamed
  <2>2. /\ Matches(file[txn.path], txn.expect) /\ Replacing /\ Decided /\ CarryInv
        /\ txn.phase \in Phase /\ job.cur \in Snapshot
    BY <1>1, <2>1 DEF TrackInv, VerifiedInv, Replacing, Decided, EarlyPC, IInv, TypeOK, Txn, Job
  <2>4. CASE txn.phase = "rollback"
    BY <2>2, <2>4 DEF CarryInv, Overwrites, Renamed
  <2>5. CASE txn.phase # "rollback"
    BY <2>2, <2>5 DEF CarryInv, Overwrites, Renamed, Phase
  <2> QED
    BY <2>4, <2>5
<1>2. TrackInv /\ IInv /\ [Next]_vars => [ raced \/ IF txn.phase = "rollback"
               THEN Overwrites("hosts", Copy(job.prop, job.cur.meta))
               ELSE Overwrites("hosts", job.cur) /\ Overwrites("backup", txn.expect) ]_vars
  BY <1>1
<1> QED
  BY <1>2, Invariance, TrackInvariance, PTL DEF Spec, NoLostEdit, Copy

\* Only a rename takes the operation from "rename" to "syncDir".
LEMMA RenamedBy ==
  ASSUME [Next]_vars, NEW p, Renamed(p)
  PROVE  Rename
<1>1. pc = "rename" /\ pc' = "syncDir"
  BY DEF Renamed
<1>2. ~\E result : Return(result)
  BY <1>1 DEF Return
<1>3. ~Prepare /\ ~Regenerate /\ ~\E body \in Bodies : Apply(body)
  BY <1>1 DEF Prepare, Regenerate, Apply, Call
<1>4. ~ReadHosts /\ ~EnsureBackup /\ ~InspectBackup /\ ~ReadBackup /\ ~DecideFails
  BY <1>1 DEF ReadHosts, EnsureBackup, InspectBackup, ReadBackup, DecideFails
<1>5. ~CreateTemp /\ ~WriteTemp /\ ~SyncTemp /\ ~Verify /\ ~SyncDir /\ ~ReadBack
  BY <1>1 DEF CreateTemp, WriteTemp, SyncTemp, Verify, SyncDir, ReadBack
<1>6. ~ReplaceFails /\ ~ReplaceFailsLate
  BY <1>1, <1>2 DEF ReplaceFails, ReplaceFailsLate, LatePC
<1>7. ~Environment
  BY <1>1 DEF Environment, EditFile, Cancel, Exit, Kill, PowerLoss, Stopped
<1>8. ~UNCHANGED vars
  BY <1>1 DEF vars
<1> QED
  BY <1>3, <1>4, <1>5, <1>6, <1>7, <1>8 DEF Next, Store, Replace

\* What an operation proposes has the user's lines of what it read.
LEMMA ProposalKeepsLines ==
  ASSUME IInv, PlanInv, Decided, job.op # "regenerate", job.plan \in {"seed", "replace"}
  PROVE  UserLines(job.prop) = UserLines(job.cur.data)
<1>1. /\ job \in Job /\ job.cur.data \in Content /\ job.body \in Content
      /\ locateMarkers(job.prop) = "valid"
  BY DEF IInv, TypeOK, Job, Snapshot, JobInv
<1>2. CASE job.op = "prepare"
  <2>1. locateMarkers(job.cur.data) = "none" /\ job.prop = appendEmptySection(job.cur.data)
    BY <1>2 DEF PlanInv
  <2> QED
    BY <1>1, <2>1, AppendKeepsLines
<1>3. CASE job.op = "apply"
  <2>1. /\ locateMarkers(job.cur.data) = "valid"
        /\ job.prop = replaceManagedSection(job.cur.data, job.body)
    BY <1>3 DEF PlanInv
  <2> QED
    BY <1>1, <2>1, ReplaceKeepsOutside DEF UserLines
<1> QED
  BY <1>2, <1>3 DEF PlanInv

(***************************************************************************)
(* An Apply, the initialisation of the managed section and the rollback of *)
(* either keep every line the user owns, in order, for every file, body    *)
(* and spelling of the markers.                                            *)
(***************************************************************************)
THEOREM LinesArePreserved == Spec => UserLinesPreserved
<1> DEFINE Owned == Renamed("hosts") /\ ~raced /\ job.op # "regenerate" /\ txn.phase # "recover"
<1>1. ASSUME IInv, TrackInv, [Next]_vars, Owned
      PROVE  UserLines(file'["hosts"].data) = UserLines(file["hosts"].data)
  <2>1. /\ Rename /\ pc = "rename" /\ txn.path = "hosts" /\ ~raced /\ job.op # "regenerate"
        /\ txn.phase # "recover"
    BY <1>1, RenamedBy DEF Renamed
  <2>2. /\ Replacing /\ Decided /\ CarryInv /\ PlanInv /\ txn.phase \in Phase
        /\ file \in [Path -> File] /\ "hosts" \in Path /\ job.cur \in Snapshot
    BY <1>1, <2>1
    DEF TrackInv, Replacing, Decided, EarlyPC, IInv, TypeOK, Txn, Job, Path
  <2>3. Matches(file["hosts"], txn.expect)
    BY <1>1, <2>1 DEF TrackInv, VerifiedInv
  <2>4. file'["hosts"].data = txn.data
    BY <1>1, <2>1, <2>2 DEF Rename, IInv, TempInv
  <2>5. /\ txn.phase \in {"commit", "rollback"} /\ job.plan \in {"seed", "replace"}
        /\ job.cur.exists
    BY <2>1, <2>2 DEF CarryInv, PlanInv, Phase
  <2>6. UserLines(job.prop) = UserLines(job.cur.data)
    BY <1>1, <2>1, <2>2, <2>5, ProposalKeepsLines
  <2>7. CASE txn.phase = "commit"
    <3>1. file["hosts"].data = job.cur.data /\ txn.data = job.prop
      BY <2>2, <2>3, <2>5, <2>7, Copies DEF CarryInv, Matches
    <3> QED
      BY <2>4, <2>6, <3>1
  <2>8. CASE txn.phase = "rollback"
    <3>1. file["hosts"].data = job.prop /\ txn.data = job.cur.data
      BY <2>2, <2>3, <2>8, Copies DEF CarryInv, Matches
    <3> QED
      BY <2>4, <2>6, <3>1
  <2> QED
    BY <2>5, <2>7, <2>8
<1>2. IInv /\ TrackInv /\ [Next]_vars
        => [Owned => UserLines(file'["hosts"].data) = UserLines(file["hosts"].data)]_vars
  BY <1>1
<1> QED
  BY <1>2, Invariance, TrackInvariance, PTL DEF Spec, UserLinesPreserved
-----------------------------------------------------------------------------
(***************************************************************************)
(* Refinement.  What the contract sees of the store, and how far it has    *)
(* got in terms of the invariants.                                         *)
(***************************************************************************)
Past   == {SnapshotOf(f) : f \in pend["hosts"]}
Called == [op |-> job.op, body |-> job.body]
Result == IF pc = "idle" THEN outcome ELSE "none"
Undone == txn.phase = "rollback" /\ pc \in LatePC

ProgressIs ==
  /\ pc = "idle" => Progress = "idle"
  /\ pc # "idle" /\ Committed => Progress = "committed"
  /\ pc # "idle" /\ Undone => Progress = "undone"
  /\ pc # "idle" /\ ~Committed /\ ~Undone => Progress = "called"

\* Progress, in this state and in the next.
LEMMA ProgressCases == (CarryInv => ProgressIs) /\ (CarryInv' => ProgressIs')
<1>1. ASSUME CarryInv PROVE ProgressIs
  <2>1. ~Replacing => txn.phase # "mirror"
    BY <1>1 DEF CarryInv
  <2>2. Undone => ~Committed
    BY DEF Undone, Committed, EarlyPC, StagePC, LatePC
  <2> QED
    BY <2>1, <2>2 DEF ProgressIs, Progress, Undone, Committed, Replacing, EarlyPC, StagePC,
                      LatePC
<1>2. ASSUME CarryInv' PROVE ProgressIs'
  <2>1. (~Replacing => txn.phase # "mirror")'
    BY <1>2 DEF CarryInv
  <2>2. (Undone => ~Committed)'
    BY DEF Undone, Committed, EarlyPC, StagePC, LatePC
  <2> QED
    BY <2>1, <2>2 DEF ProgressIs, Progress, Undone, Committed, Replacing, EarlyPC, StagePC,
                      LatePC
<1> QED
  BY <1>1, <1>2

\* A step that neither the file, nor the progress, nor the caller sees.
LEMMA StoreStutters ==
  ASSUME UNCHANGED <<Hosts, Past, Progress, Called, base, Result>>
  PROVE  UNCHANGED Contract!vars
  BY DEF Contract!vars, Hosts, Past, Called, Result

\* The initial states map to initial states.
LEMMA InitRefines == Init => Contract!Init
<1> SUFFICES ASSUME Init PROVE Contract!Init
  OBVIOUS
<1>1. pend["hosts"] = {file["hosts"]}
  BY DEF Init, Path
<1>2. Past = {Hosts}
  BY <1>1 DEF Past, Hosts
<1>3. Progress = "idle" /\ Result = "none" /\ base = NoSnapshot
  BY DEF Init, Progress, Result, NoTxn, NoJob, EarlyPC, StagePC, LatePC
<1>4. Called = [op |-> "none", body |-> <<>>]
  BY DEF Init, Called, NoJob
<1> QED
  BY <1>2, <1>3, <1>4 DEF Contract!Init, Contract!NoCall, Past, Hosts, Called, Result

\* Nobody else has edited a file.
Unedited == touched = {}

\* The contract reads files with the same operators as the store.
LEMMA SameMarkers ==
  /\ \A data : /\ Contract!locateMarkers(data) = locateMarkers(data)
               /\ Contract!Outside(data) = Outside(data)
               /\ Contract!ManagedBody(data) = ManagedBody(data)
               /\ Contract!appendEmptySection(data) = appendEmptySection(data)
  /\ Contract!freshHostsFile = freshHostsFile
<1>1. ASSUME NEW data PROVE Contract!locateMarkers(data) = locateMarkers(data)
  BY DEF Contract!locateMarkers, locateMarkers, Contract!HasSection, HasSection,
         Contract!Begins, Begins, Contract!Ends, Ends
<1>2. ASSUME NEW data PROVE /\ Contract!beginLine(data) = beginLine(data)
                            /\ Contract!endLine(data) = endLine(data)
  BY DEF Contract!beginLine, beginLine, Contract!endLine, endLine
<1>3. ASSUME NEW data PROVE /\ Contract!Outside(data) = Outside(data)
                            /\ Contract!ManagedBody(data) = ManagedBody(data)
  BY <1>1, <1>2 DEF Contract!Outside, Outside, Contract!ManagedBody, ManagedBody
<1>4. ASSUME NEW data PROVE Contract!appendEmptySection(data) = appendEmptySection(data)
  BY DEF Contract!appendEmptySection, appendEmptySection, Contract!Terminated, Terminated
<1>5. Contract!freshHostsFile = freshHostsFile
  BY DEF Contract!freshHostsFile, freshHostsFile
<1> QED
  BY <1>1, <1>3, <1>4, <1>5

\* The file a commit puts in place is what the contract calls a proposal.
LEMMA CommitProposes ==
  ASSUME IInv, TrackInv, Unedited, Decided,
         \/ /\ job.plan \in {"seed", "replace"} /\ Hosts' = Copy(job.prop, job.cur.meta)
         \/ /\ job.plan = "recover" /\ locateMarkers(Hosts'.data) = "valid"
            /\ Hosts' = Copy(Hosts'.data, job.cur.meta)
  PROVE  Contract!Proposal(Hosts')
<1>1. /\ job \in Job /\ job.cur \in Snapshot /\ job.cur.data \in Content /\ job.body \in Content
      /\ PlanInv
      /\ job.plan # "recover" => locateMarkers(job.prop) = "valid"
  BY DEF IInv, TypeOK, Job, JobInv, Snapshot, TrackInv
<1>2. /\ job.cur.exists => base = job.cur
      /\ ~job.cur.exists => base = NoSnapshot
  BY <1>1 DEF PlanInv, Unedited
<1>3. /\ Hosts'.exists /\ locateMarkers(Hosts'.data) = "valid" /\ Hosts'.meta = job.cur.meta
      /\ job.plan \in {"seed", "replace"} => Hosts'.data = job.prop
  BY <1>1, Copies
<1>4. Hosts'.meta = IF base.exists THEN base.meta ELSE DefaultMeta
  <2>1. CASE job.cur.exists
    BY <1>2, <1>3, <2>1
  <2>2. CASE ~job.cur.exists
    BY <1>1, <1>2, <1>3, <2>2, Copies DEF PlanInv
  <2> QED
    BY <2>1, <2>2
<1>5. job.op = "apply" => /\ base.exists /\ ManagedBody(Hosts'.data) = job.body
                          /\ Outside(Hosts'.data) = Outside(base.data)
  <2> SUFFICES ASSUME job.op = "apply"
               PROVE  /\ base.exists /\ ManagedBody(Hosts'.data) = job.body
                      /\ Outside(Hosts'.data) = Outside(base.data)
    OBVIOUS
  <2>1. /\ job.cur.exists /\ locateMarkers(job.cur.data) = "valid"
        /\ job.prop = replaceManagedSection(job.cur.data, job.body)
        /\ job.plan = "replace"
    BY <1>1 DEF PlanInv
  <2>2. /\ ManagedBody(job.prop) = job.body /\ Outside(job.prop) = Outside(job.cur.data)
    BY <1>1, <2>1, ReplaceKeepsOutside
  <2> QED
    BY <1>2, <1>3, <2>1, <2>2
<1>6. job.op = "prepare" =>
        /\ base.exists /\ locateMarkers(base.data) # "valid"
        /\ locateMarkers(base.data) = "none" => Hosts'.data = appendEmptySection(base.data)
  BY <1>1, <1>2, <1>3 DEF PlanInv
<1>7. job.op = "regenerate" => Hosts'.data = freshHostsFile
  BY <1>1, <1>3 DEF PlanInv
<1>8. job.op \in {"prepare", "apply", "regenerate"}
  BY <1>1 DEF PlanInv
<1> QED
  BY <1>3, <1>4, <1>5, <1>6, <1>7, <1>8, SameMarkers DEF Contract!Proposal

\* A file that an operation keeps is what the contract calls a proposal already.
LEMMA KeepProposes ==
  ASSUME IInv, TrackInv, Unedited, Decided, job.plan = "keep", Hosts = base
  PROVE  Contract!Proposal(Hosts)
<1>1. /\ job \in Job /\ job.cur.data \in Content /\ job.body \in Content
      /\ PlanInv /\ locateMarkers(job.prop) = "valid"
  BY DEF IInv, TypeOK, Job, JobInv, Snapshot, TrackInv
<1>2. /\ job.op \in {"prepare", "apply"} /\ job.cur.exists /\ base = job.cur
      /\ locateMarkers(job.cur.data) = "valid" /\ job.prop = job.cur.data
  BY <1>1 DEF PlanInv, Unedited
<1>3. job.op = "apply" => ManagedBody(job.cur.data) = job.body
  <2> SUFFICES ASSUME job.op = "apply" PROVE ManagedBody(job.cur.data) = job.body
    OBVIOUS
  <2>1. job.cur.data = replaceManagedSection(job.cur.data, job.body)
    BY <1>1, <1>2 DEF PlanInv
  <2> QED
    BY <1>1, <1>2, <2>1, ReplaceKeepsOutside
<1> QED
  BY <1>2, <1>3, SameMarkers DEF Contract!Proposal

\* Returning, with a result that tells what is in place.
LEMMA ReturnRefines ==
  ASSUME TrackInv, TrackInv', NEW result, Return(result), UNCHANGED <<file, base>>,
         pc # "idle", Past' = Past \/ Past' = {Hosts},
         \/ result = "ok" /\ Committed /\ Past = {Hosts}
         \/ result = "ok" /\ ~Committed /\ ~Undone /\ Contract!Proposal(Hosts)
         \/ result \in {"failed", "restored"} /\ ~Committed /\ Hosts = base
         \/ result \in {"late", "unmirrored"} /\ Committed
         \/ result = "unrestored" /\ (Committed \/ Undone)
  PROVE  Contract!Next
<1>1. ProgressIs /\ ProgressIs'
  BY ProgressCases DEF TrackInv
<1>2. /\ pc' = "idle" /\ Result' = result /\ Hosts' = Hosts /\ base' = base
      /\ job'.op = job.op /\ job'.body = job.body
  BY DEF Return, Result, Hosts, NoJob
<1>3. Called' = Called
  BY <1>2 DEF Called
<1>4. Progress' = "idle" /\ Progress # "idle"
  BY <1>1, <1>2 DEF ProgressIs
<1>5. \/ result = "ok" /\ Progress = "committed" /\ Past = {Hosts}
      \/ result = "ok" /\ Progress = "called" /\ Contract!Proposal(Hosts)
      \/ result \in {"failed", "restored"} /\ Progress # "committed" /\ Hosts = base
      \/ result \in {"late", "unmirrored"} /\ Progress = "committed"
      \/ result = "unrestored" /\ Progress # "called"
  BY <1>1 DEF ProgressIs
<1>6. Contract!Return
  BY <1>2, <1>3, <1>4, <1>5 DEF Contract!Return, Hosts, Past, Called, Result
<1> QED
  BY <1>6 DEF Contract!Next

\* A step inside a call that changes neither the hosts file nor the progress.
LEMMA InnerStutters ==
  ASSUME TrackInv, TrackInv', UNCHANGED <<file, pend, base>>, pc # "idle", pc' # "idle",
         job'.op = job.op, job'.body = job.body,
         Committed' <=> Committed, Undone' <=> Undone
  PROVE  UNCHANGED Contract!vars
<1>1. ProgressIs /\ ProgressIs'
  BY ProgressCases DEF TrackInv
<1>2. Progress' = Progress
  BY <1>1 DEF ProgressIs
<1>3. Hosts' = Hosts /\ Past' = Past /\ Called' = Called /\ Result' = Result
  BY DEF Hosts, Past, Called, Result
<1> QED
  BY <1>2, <1>3, StoreStutters

\* A replacement begins: its first step changes nothing the contract sees.
LEMMA BeginStutters ==
  ASSUME TrackInv, TrackInv', NEW phase, NEW path, NEW data, NEW meta, NEW expect,
         Begin(phase, path, data, meta, expect), UNCHANGED <<file, pend, job, base>>,
         pc # "idle", ~Undone,
         Committed <=> phase = "rollback" \/ (phase = "mirror" /\ job.plan = "replace")
  PROVE  UNCHANGED Contract!vars
<1>1. pc' = "create" /\ txn'.phase = phase
  BY DEF Begin
<1>2. ~Undone' /\ Replacing'
  BY <1>1 DEF Undone, Replacing, EarlyPC, StagePC, LatePC
<1>3. Committed' <=> phase = "rollback" \/ (phase = "mirror" /\ job.plan = "replace")
  BY <1>1, <1>2 DEF Committed, EarlyPC, StagePC, LatePC
<1> QED
  BY <1>1, <1>2, <1>3, InnerStutters

\* ensureBackupMatches is done.
LEMMA AfterMirrorRefines ==
  ASSUME IInv, TrackInv, TrackInv', Unedited, AfterMirror, UNCHANGED <<file, pend, base>>,
         pc = "ensure" \/ (Replacing /\ txn.phase = "mirror")
  PROVE  [Contract!Next]_(Contract!vars)
<1>1. /\ pc # "idle" /\ Decided /\ ~Undone /\ Past' = Past
      /\ Committed <=> job.plan = "replace"
      /\ Durable <=> job.plan = "replace"
      /\ job.plan \in Plan /\ job.plan \notin {"none", "recover"}
  <2>1. ~Replacing => txn.phase = "none"
    BY DEF TrackInv, CarryInv
  <2>2. Committed <=> job.plan = "replace"
    BY <2>1 DEF Committed, Replacing, EarlyPC, StagePC, LatePC
  <2>3. Durable <=> job.plan = "replace"
    BY <2>1 DEF Durable, Replacing, EarlyPC, StagePC, LatePC
  <2>4. pc # "idle" /\ Decided /\ ~Undone
    BY <2>1 DEF Decided, Undone, Replacing, EarlyPC, StagePC, LatePC
  <2>5. job.plan \in Plan /\ job.plan \notin {"none", "recover"}
    BY <2>4 DEF IInv, TypeOK, Job, JobInv, TxnInv
  <2> QED
    BY <2>2, <2>3, <2>4, <2>5 DEF Past
<1>2. CASE job.plan = "seed"
  BY <1>1, <1>2, BeginStutters DEF AfterMirror, BeginCommit
<1>3. CASE job.plan = "replace"
  <2>1. pend["hosts"] = {file["hosts"]}
    BY <1>1, <1>3 DEF TrackInv, DurableInv
  <2>2. Past = {Hosts}
    BY <2>1 DEF Past, Hosts
  <2>3. Return("ok")
    BY <1>3 DEF AfterMirror
  <2> QED
    BY <1>1, <1>3, <2>2, <2>3, ReturnRefines
<1>4. CASE job.plan = "keep"
  <2>1. Hosts = base
    BY <1>1, <1>4 DEF TrackInv, HostsInv, Unedited
  <2>2. Contract!Proposal(Hosts)
    BY <1>1, <1>4, <2>1, KeepProposes
  <2>3. Return("ok")
    BY <1>4 DEF AfterMirror
  <2> QED
    BY <1>1, <1>4, <2>2, <2>3, ReturnRefines
<1> QED
  BY <1>1, <1>2, <1>3, <1>4 DEF Plan

\* Calls, reads and decisions.
LEMMA DecisionRefines ==
  ASSUME IInv, TrackInv, TrackInv', Unedited,
         \/ Prepare \/ Regenerate \/ \E body \in Bodies : Apply(body)
         \/ ReadHosts \/ EnsureBackup \/ InspectBackup \/ ReadBackup \/ DecideFails
  PROVE  [Contract!Next]_(Contract!vars)
<1>0. /\ ProgressIs /\ ProgressIs'
      /\ ~Replacing => txn.phase = "none"
      /\ ~Replacing' => txn'.phase = "none"
  BY ProgressCases DEF TrackInv, CarryInv
<1>1. ASSUME NEW op, NEW body, Call(op, body) PROVE [Contract!Next]_(Contract!vars)
  <2>1. /\ pc = "idle" /\ pc' = "read" /\ UNCHANGED <<file, pend, txn>> /\ base' = Hosts
    BY <1>1 DEF Call, fsVars, Hosts
  <2>2. ~Committed' /\ ~Undone'
    BY <1>0, <2>1 DEF Committed, Undone, Replacing, EarlyPC, StagePC, LatePC
  <2>3. Progress = "idle" /\ Progress' = "called"
    BY <1>0, <2>1, <2>2 DEF ProgressIs
  <2>4. Hosts' = Hosts /\ Past' = Past /\ Result' = "none"
    BY <2>1 DEF Hosts, Past, Result
  <2>5. Contract!Call
    BY <2>1, <2>3, <2>4 DEF Contract!Call, Hosts, Past, Result
  <2> QED
    BY <2>5 DEF Contract!Next
<1>2. CASE Prepare \/ Regenerate \/ \E body \in Bodies : Apply(body)
  BY <1>1, <1>2 DEF Prepare, Regenerate, Apply
<1>3. CASE ReadHosts
  <2>1. /\ pc = "read" /\ UNCHANGED <<file, pend, txn, base>> /\ job \in Job
        /\ PrepareReads(Hosts) \/ ApplyReads(Hosts) \/ RegenerateReads(Hosts)
    BY <1>3 DEF ReadHosts, fsVars, histVars, Hosts, IInv, TypeOK
  <2>2. /\ pc' \in {"ensure", "inspect", "readBackup"}
        /\ job'.op = job.op /\ job'.body = job.body
        /\ job'.plan = "replace" => pc' = "inspect"
    BY <2>1 DEF PrepareReads, ApplyReads, RegenerateReads, Decide, Job
  <2>3. ~Committed /\ ~Committed' /\ ~Undone /\ ~Undone'
    BY <1>0, <2>1, <2>2 DEF Committed, Undone, Replacing, EarlyPC, StagePC, LatePC
  <2> QED
    BY <2>1, <2>2, <2>3, InnerStutters
<1>4. CASE EnsureBackup
  <2>1. /\ pc = "ensure" /\ UNCHANGED <<file, pend, base>> /\ ~Undone
        /\ Committed <=> job.plan = "replace"
    BY <1>0, <1>4
    DEF EnsureBackup, fsVars, histVars, Undone, Committed, Replacing, EarlyPC, StagePC, LatePC
  <2>2. CASE AfterMirror
    BY <2>1, <2>2, AfterMirrorRefines
  <2>3. CASE Begin("mirror", "backup", job.prop, backupMeta(Backup), Backup) /\ UNCHANGED job
    BY <2>1, <2>3, BeginStutters
  <2> QED
    BY <1>4, <2>2, <2>3 DEF EnsureBackup, Backup
<1>5. CASE InspectBackup \/ ReadBackup
  <2>1. /\ pc \in {"inspect", "readBackup"} /\ UNCHANGED <<file, pend, job, base>>
    BY <1>5 DEF InspectBackup, ReadBackup, fsVars, histVars
  <2>2. ~Undone /\ ~Committed
    BY <1>0, <2>1 DEF Undone, Committed, Replacing, EarlyPC, StagePC, LatePC
  <2>3. \/ BeginCommit
        \/ Begin("retain", "backup", job.cur.data, backupMeta(Backup), Backup)
        \/ Begin("recover", "hosts", Backup.data, job.cur.meta, job.cur)
    BY <1>5 DEF InspectBackup, ReadBackup, Backup
  <2> QED
    BY <2>1, <2>2, <2>3, BeginStutters DEF BeginCommit
<1>6. CASE DecideFails
  <2>1. /\ pc # "idle" /\ UNCHANGED <<file, pend, base>> /\ Past' = Past
        /\ Return(IF pc = "ensure" /\ job.plan = "replace" THEN "unmirrored" ELSE "failed")
        /\ ~Replacing
    BY <1>6 DEF DecideFails, fsVars, histVars, Past, Replacing, EarlyPC, StagePC, LatePC
  <2>2. Committed <=> pc = "ensure" /\ job.plan = "replace"
    BY <1>0, <2>1 DEF Committed, Replacing, EarlyPC, StagePC, LatePC
  <2>3. CASE pc = "ensure" /\ job.plan = "replace"
    BY <2>1, <2>2, <2>3, ReturnRefines
  <2>4. CASE ~(pc = "ensure" /\ job.plan = "replace")
    <3>1. Hosts = base
      BY <2>1, <2>2, <2>4 DEF TrackInv, HostsInv, Unedited
    <3> QED
      BY <2>1, <2>2, <2>4, <3>1, ReturnRefines
  <2> QED
    BY <2>3, <2>4
<1> QED
  BY <1>2, <1>3, <1>4, <1>5, <1>6

\* Staging and verifying show nothing; the rename is the commit or its undoing.
LEMMA RenameRefines ==
  ASSUME IInv, TrackInv, TrackInv', Unedited,
         CreateTemp \/ WriteTemp \/ SyncTemp \/ Verify \/ Rename
  PROVE  [Contract!Next]_(Contract!vars)
<1>0. ProgressIs /\ ProgressIs' /\ CarryInv /\ PlanInv
  BY ProgressCases DEF TrackInv
<1>1. CASE CreateTemp \/ WriteTemp \/ SyncTemp \/ Verify
  <2>1. /\ UNCHANGED <<file, pend, job, txn, base>> /\ pc \in EarlyPC /\ pc' \in EarlyPC
    BY <1>1
    DEF CreateTemp, WriteTemp, SyncTemp, Verify, fsVars, histVars, EarlyPC, StagePC
  <2>2. /\ Replacing /\ Replacing' /\ pc \notin {"idle", "ensure"} \cup LatePC
        /\ pc' \notin {"idle", "ensure"} \cup LatePC
    BY <2>1 DEF Replacing, EarlyPC, StagePC, LatePC
  <2>3. (Committed' <=> Committed) /\ ~Undone /\ ~Undone'
    BY <2>1, <2>2 DEF Committed, Undone
  <2> QED
    BY <2>1, <2>2, <2>3, InnerStutters
<1>2. CASE Rename
  <2>1. /\ UNCHANGED <<job, txn, base>> /\ pc = "rename" /\ pc' = "syncDir"
        /\ file' = [file EXCEPT ![txn.path] = temp]
        /\ pend' = [pend EXCEPT ![txn.path] = pend[txn.path] \cup {temp}]
    BY <1>2 DEF Rename
  <2>2. /\ file \in [Path -> File] /\ pend \in [Path -> SUBSET File] /\ temp \in File
        /\ txn.path \in Path /\ txn.phase \in Phase /\ job.cur \in Snapshot
        /\ temp.kind = "regular" /\ temp.data = txn.data /\ temp.meta = txn.meta
        /\ Decided /\ Replacing /\ Replacing'
    BY <2>1
    DEF IInv, TypeOK, Txn, Job, TempInv, Decided, Replacing, EarlyPC, StagePC, LatePC
  <2>3. Called' = Called /\ Result' = Result /\ Result = "none"
    BY <2>1 DEF Called, Result
  <2>4. CASE txn.path = "backup"
    <3>1. Hosts' = Hosts /\ Past' = Past
      BY <2>1, <2>2, <2>4 DEF Hosts, Past, Path
    <3>2. txn.phase \in {"mirror", "retain"}
      BY <1>0, <2>2, <2>4 DEF CarryInv
    <3>3. (Committed' <=> Committed) /\ ~Undone /\ ~Undone'
      BY <2>1, <2>2, <3>2 DEF Committed, Undone
    <3>4. Progress' = Progress
      BY <1>0, <2>1, <3>3 DEF ProgressIs
    <3> QED
      BY <2>1, <2>3, <3>1, <3>4, StoreStutters
  <2>5. CASE txn.path = "hosts"
    <3>1. Hosts' = Copy(txn.data, txn.meta) /\ pend'["hosts"] = pend["hosts"] \cup {temp}
      BY <2>1, <2>2, <2>5, Copies DEF Hosts
    <3>2. file'["hosts"] = temp
      BY <2>1, <2>2, <2>5
    <3>3. Past' = Past \cup {Hosts'}
      BY <3>1, <3>2 DEF Past, Hosts
    <3>4. txn.phase \in {"commit", "recover", "rollback"}
      BY <1>0, <2>2, <2>5 DEF CarryInv, Phase
    <3>5. CASE txn.phase \in {"commit", "recover"}
      <4>1. ~Committed /\ ~Undone /\ Committed'
        BY <2>1, <3>5 DEF Committed, Undone, EarlyPC, StagePC, LatePC
      <4>2. Progress = "called" /\ Progress' = "committed"
        BY <1>0, <2>1, <4>1 DEF ProgressIs
      <4>3. txn.meta = job.cur.meta
        BY <1>0, <2>2, <3>5 DEF CarryInv
      <4>4. Contract!Proposal(Hosts')
        <5>1. CASE txn.phase = "commit"
          <6>1. job.plan \in {"seed", "replace"} /\ Hosts' = Copy(job.prop, job.cur.meta)
            BY <1>0, <2>2, <3>1, <5>1 DEF CarryInv
          <6> QED
            BY <2>2, <6>1, CommitProposes
        <5>2. CASE txn.phase = "recover"
          <6>1. job.plan = "recover" /\ locateMarkers(txn.data) = "valid"
            BY <1>0, <2>2, <5>2 DEF CarryInv
          <6>2. Hosts'.data = txn.data
            BY <3>1, Copies
          <6> QED
            BY <2>2, <3>1, <4>3, <6>1, <6>2, CommitProposes
        <5> QED
          BY <3>5, <5>1, <5>2
      <4>5. Contract!Commit
        BY <2>1, <2>3, <3>3, <4>2, <4>4 DEF Contract!Commit, Hosts, Past, Called, Result
      <4> QED
        BY <4>5 DEF Contract!Next
    <3>6. CASE txn.phase = "rollback"
      <4>1. Committed /\ ~Committed' /\ Undone'
        BY <2>1, <3>6 DEF Committed, Undone, EarlyPC, StagePC, LatePC
      <4>2. Progress = "committed" /\ Progress' = "undone"
        BY <1>0, <2>1, <4>1 DEF ProgressIs
      <4>3. /\ txn.data = job.cur.data /\ txn.meta = job.cur.meta /\ job.cur.exists
            /\ job.op # "regenerate" \/ job.plan = "replace"
        BY <1>0, <2>2, <3>6 DEF CarryInv, PlanInv
      <4>4. base = job.cur /\ Hosts' = base
        BY <1>0, <2>2, <3>1, <4>3, Copies DEF PlanInv, Unedited
      <4>5. job.op # "regenerate" \/ Contract!locateMarkers(base.data) = "valid"
        BY <2>2, <4>3, <4>4, SameMarkers DEF IInv, JobInv
      <4>6. Contract!Undo
        BY <2>1, <2>3, <3>3, <4>2, <4>4, <4>5 DEF Contract!Undo, Hosts, Past, Called, Result
      <4> QED
        BY <4>6 DEF Contract!Next
    <3> QED
      BY <3>4, <3>5, <3>6
  <2> QED
    BY <2>2, <2>4, <2>5 DEF Path
<1> QED
  BY <1>1, <1>2

\* A directory sync makes the version in place the only one, or concerns the backup.
LEMMA SyncShows ==
  ASSUME IInv, UNCHANGED file, pend' = [pend EXCEPT ![txn.path] = {file[txn.path]}]
  PROVE  /\ Hosts' = Hosts
         /\ txn.path = "hosts" => Past' = {Hosts}
         /\ txn.path = "backup" => Past' = Past
<1>1. txn.path \in Path /\ pend \in [Path -> SUBSET File]
  BY DEF IInv, TypeOK, Txn
<1>2. /\ txn.path = "hosts" => pend'["hosts"] = {file["hosts"]}
      /\ txn.path = "backup" => pend'["hosts"] = pend["hosts"]
  BY <1>1 DEF Path
<1> QED
  BY <1>2 DEF Hosts, Past

\* The directory sync and the end of a replacement.
LEMMA FinishRefines ==
  ASSUME IInv, TrackInv, TrackInv', Unedited,
         SyncDir \/ ReadBack \/ ReplaceFails \/ ReplaceFailsLate
  PROVE  [Contract!Next]_(Contract!vars)
<1>0. /\ ProgressIs /\ ProgressIs' /\ CarryInv /\ PlanInv /\ txn.path \in Path
      /\ UNCHANGED <<file, base>> /\ pc # "idle" /\ Decided /\ Replacing /\ Hosts' = Hosts
  BY ProgressCases
  DEF TrackInv, IInv, TypeOK, Txn, SyncDir, ReadBack, ReplaceFails, ReplaceFailsLate, fsVars,
      histVars, Decided, Replacing, EarlyPC, StagePC, LatePC, Hosts
<1>1. CASE SyncDir
  <2>1. /\ UNCHANGED <<job, txn>> /\ pc = "syncDir" /\ pc' = "readback"
        /\ pend' = [pend EXCEPT ![txn.path] = {file[txn.path]}]
    BY <1>1 DEF SyncDir
  <2>2. Called' = Called /\ Result' = Result
    BY <2>1 DEF Called, Result
  <2>3. (Committed' <=> Committed) /\ (Undone' <=> Undone)
    BY <2>1 DEF Committed, Undone, Replacing, EarlyPC, StagePC, LatePC
  <2>4. Progress' = Progress
    BY <1>0, <2>1, <2>3 DEF ProgressIs
  <2>5. CASE txn.path = "hosts"
    <3>1. Past' = {Hosts}
      BY <1>0, <2>1, <2>5, SyncShows
    <3>2. Contract!Sync
      BY <1>0, <2>2, <2>4, <3>1 DEF Contract!Sync, Hosts, Past, Called, Result
    <3> QED
      BY <3>2 DEF Contract!Next
  <2>6. CASE txn.path = "backup"
    <3>1. Past' = Past
      BY <1>0, <2>1, <2>6, SyncShows
    <3> QED
      BY <1>0, <2>2, <2>4, <3>1, StoreStutters
  <2> QED
    BY <1>0, <2>5, <2>6 DEF Path
<1>2. CASE ReadBack
  <2>1. pc = "readback" /\ UNCHANGED pend /\ Past' = Past
    BY <1>2 DEF ReadBack, fsVars, Past
  <2>2. CASE txn.phase = "mirror" /\ AfterMirror
    BY <1>0, <2>1, <2>2, AfterMirrorRefines
  <2>3. CASE txn.phase = "retain" /\ BeginCommit /\ UNCHANGED job
    <3>1. ~Committed /\ ~Undone
      BY <2>1, <2>3 DEF Committed, Undone
    <3> QED
      BY <1>0, <2>1, <2>3, <3>1, BeginStutters DEF BeginCommit
  <2>4. CASE txn.phase \in {"commit", "recover"}
    <3>1. Committed /\ Durable /\ ~Undone
      BY <2>1, <2>4 DEF Committed, Durable, Undone, LatePC
    <3>2. pend["hosts"] = {file["hosts"]}
      BY <3>1 DEF TrackInv, DurableInv
    <3>3. Past = {Hosts}
      BY <3>2 DEF Past, Hosts
    <3>4. CASE Return("ok")
      BY <1>0, <2>1, <3>1, <3>3, <3>4, ReturnRefines
    <3>5. CASE job.plan = "replace" /\ pc' = "ensure" /\ txn' = NoTxn /\ UNCHANGED job
      <4>1. Committed' /\ ~Undone'
        BY <3>5 DEF Committed, Undone, LatePC
      <4> QED
        BY <1>0, <2>1, <3>1, <3>5, <4>1, InnerStutters
    <3> QED
      BY <1>2, <2>4, <3>4, <3>5 DEF ReadBack, AfterCommit
  <2>5. CASE txn.phase = "rollback" /\ Return("restored")
    <3>1. ~Committed
      BY <2>1, <2>5 DEF Committed, EarlyPC, StagePC
    <3>2. Hosts = base
      BY <1>0, <3>1 DEF TrackInv, HostsInv, Unedited
    <3> QED
      BY <1>0, <2>1, <2>5, <3>1, <3>2, ReturnRefines
  <2> QED
    BY <1>2, <2>2, <2>3, <2>4, <2>5 DEF ReadBack
<1>3. CASE ReplaceFails
  <2>1. pc \in EarlyPC /\ UNCHANGED pend /\ Past' = Past
    BY <1>3 DEF ReplaceFails, Past
  <2>2. PICK result : /\ Return(result)
                      /\ \/ result = "unrestored" /\ txn.phase = "rollback"
                         \/ result = "unmirrored" /\ txn.phase = "mirror" /\ job.plan = "replace"
                         \/ /\ result = "failed" /\ txn.phase # "rollback"
                            /\ ~(txn.phase = "mirror" /\ job.plan = "replace")
    BY <1>3 DEF ReplaceFails
  <2>3. /\ result \in {"unrestored", "unmirrored"} => Committed
        /\ result = "failed" => ~Committed
    BY <1>0, <2>1, <2>2 DEF Committed, EarlyPC, StagePC, LatePC
  <2>4. result = "failed" => Hosts = base
    BY <1>0, <2>3 DEF TrackInv, HostsInv, Unedited
  <2> QED
    BY <1>0, <2>1, <2>2, <2>3, <2>4, ReturnRefines
<1>4. CASE ReplaceFailsLate
  <2>1. /\ pc \in LatePC
        /\ pend' = pend \/ pend' = [pend EXCEPT ![txn.path] = {file[txn.path]}]
    BY <1>4 DEF ReplaceFailsLate
  <2>2. Past' = Past \/ Past' = {Hosts}
    <3>1. CASE pend' = pend
      BY <3>1 DEF Past
    <3>2. CASE pend' = [pend EXCEPT ![txn.path] = {file[txn.path]}]
      BY <1>0, <3>2, SyncShows DEF Path
    <3> QED
      BY <2>1, <3>1, <3>2
  <2>3. CASE RollsBack
    <3>1. txn.phase = "commit" /\ rollbackTarget /\ UNCHANGED job
      BY <1>4, <2>3 DEF ReplaceFailsLate, RollsBack
    <3>2. pc' = "create" /\ txn'.phase = "rollback" /\ Called' = Called /\ Result' = Result
      BY <1>0, <3>1 DEF rollbackTarget, Begin, Called, Result
    <3>3. Committed /\ Committed'
      BY <2>1, <3>1, <3>2 DEF Committed, EarlyPC, StagePC
    <3>4. Progress' = Progress
      BY <1>0, <3>2, <3>3 DEF ProgressIs
    <3>5. CASE Past' = Past
      BY <1>0, <3>2, <3>4, <3>5, StoreStutters
    <3>6. CASE Past' = {Hosts}
      <4>1. Contract!Sync
        BY <1>0, <3>2, <3>4, <3>6 DEF Contract!Sync, Hosts, Past, Called, Result
      <4> QED
        BY <4>1 DEF Contract!Next
    <3> QED
      BY <2>2, <3>5, <3>6
  <2>4. CASE ~RollsBack
    <3>1. PICK result :
            /\ Return(result)
            /\ \/ result = "unrestored" /\ txn.phase = "rollback"
               \/ result = "unmirrored" /\ txn.phase = "mirror" /\ job.plan = "replace"
               \/ result = "late" /\ txn.phase \in {"commit", "recover"}
               \/ /\ result = "failed" /\ txn.phase \notin {"rollback", "commit", "recover"}
                  /\ ~(txn.phase = "mirror" /\ job.plan = "replace")
      BY <1>4, <2>4 DEF ReplaceFailsLate
    <3>2. /\ result = "unrestored" => Undone
          /\ result \in {"late", "unmirrored"} => Committed
          /\ result = "failed" => ~Committed
      BY <1>0, <2>1, <3>1 DEF Committed, Undone, EarlyPC, StagePC, LatePC
    <3>3. result = "failed" => Hosts = base
      BY <1>0, <3>2 DEF TrackInv, HostsInv, Unedited
    <3> QED
      BY <1>0, <2>2, <3>1, <3>2, <3>3, ReturnRefines
  <2> QED
    BY <2>3, <2>4
<1> QED
  BY <1>1, <1>2, <1>3, <1>4

\* A cancellation or an exit shows nothing; a kill or a power loss is a crash.
LEMMA CrashRefines ==
  ASSUME IInv, TrackInv, TrackInv', Cancel \/ Exit \/ Kill \/ PowerLoss \/ UNCHANGED vars
  PROVE  [Contract!Next]_(Contract!vars)
<1>1. CASE Cancel \/ Exit \/ UNCHANGED vars
  <2>1. UNCHANGED <<file, pend, pc, job, txn, outcome, base>>
    BY <1>1 DEF Cancel, Exit, vars, fsVars, histVars
  <2>2. UNCHANGED <<Hosts, Past, Progress, Called, base, Result>>
    BY <2>1 DEF Hosts, Past, Progress, Called, Result
  <2> QED
    BY <2>2, StoreStutters
<1>2. CASE Kill \/ PowerLoss
  <2>1. /\ pc' = "idle" /\ job' = NoJob /\ outcome' = "none" /\ base' = NoSnapshot
    BY <1>2 DEF Kill, PowerLoss, Stopped
  <2>2. Progress' = "idle"
    BY <2>1, ProgressCases DEF TrackInv, ProgressIs
  <2>3. Result' = "none" /\ Called' = Contract!NoCall
    BY <2>1 DEF Result, Called, NoJob, Contract!NoCall
  <2>4. (UNCHANGED <<Hosts, Past>>) \/ (Hosts' \in Past /\ Past' = {Hosts'})
    <3>1. CASE Kill
      BY <3>1 DEF Kill, Hosts, Past
    <3>2. CASE PowerLoss
      <4>1. \A g \in pend["hosts"] \cup pend["backup"] : AfterPowerLoss(g) = {g}
        BY DEF IInv, SyncInv, AfterPowerLoss, Path
      <4>2. PICK h \in pend["hosts"] : file'["hosts"] = h /\ pend'["hosts"] = {h}
        BY <3>2, <4>1 DEF PowerLoss, Path
      <4> QED
        BY <4>2 DEF Hosts, Past
    <3> QED
      BY <1>2, <3>1, <3>2
  <2>5. Contract!Crash
    BY <2>1, <2>2, <2>3, <2>4 DEF Contract!Crash, Hosts, Past, Called, Result
  <2> QED
    BY <2>5 DEF Contract!Next
<1> QED
  BY <1>1, <1>2

(***************************************************************************)
(* Without foreign edits the store implements its contract: to its caller  *)
(* and to every reader of the hosts file, an operation is one replacement, *)
(* perhaps taken back, and its result says which version is in place.      *)
(***************************************************************************)
THEOREM Refinement ==
  ASSUME \A p \in Path : EditFiles[p] = {}
  PROVE  Spec => ImplementsContract
<1>1. Init => Unedited
  BY DEF Init, Unedited
<1>2. ASSUME Unedited, [Next]_vars PROVE Unedited'
  <2>1. touched' = touched \/ touched' = {}
    BY <1>2
    DEF Next, Store, Replace, Environment, Prepare, Regenerate, Apply, Call, ReadHosts,
        EnsureBackup, InspectBackup, ReadBackup, DecideFails, CreateTemp, WriteTemp,
        SyncTemp, Verify, Rename, SyncDir, ReadBack, ReplaceFails, ReplaceFailsLate, Cancel,
        Exit, Kill, PowerLoss, Stopped, histVars, vars
  <2> QED
    BY <1>2, <2>1 DEF Unedited
<1>3. ASSUME IInv, TrackInv, TrackInv', Unedited, [Next]_vars
      PROVE  [Contract!Next]_(Contract!vars)
  <2>1. ~\E p \in Path : \E f \in EditFiles[p] : EditFile(p, f)
    OBVIOUS
  <2> QED
    BY <1>3, <2>1, DecisionRefines, RenameRefines, FinishRefines, CrashRefines
    DEF Next, Store, Replace, Environment
<1> QED
  BY <1>1, <1>2, <1>3, InitRefines, Invariance, TrackInvariance, PTL
  DEF Spec, ImplementsContract, Contract!Spec

-----------------------------------------------------------------------------
(***************************************************************************)
(* MarkerScan: the marker scan is correct on every file, of any length.    *)
(***************************************************************************)

\* Marker lines of the part of the file already read.
BeginsBefore(n) == {i \in Begins(scanned) : i < n}
EndsBefore(n)   == {i \in Ends(scanned) : i < n}

Found(at, positions) == IF at = 0 THEN positions = {} ELSE positions = {at}

(***************************************************************************)
(* While the loop runs, a position is 0 exactly when the lines read hold   *)
(* no such marker, and is otherwise the only one they hold.                *)
(***************************************************************************)
ScanInv ==
  /\ scanned \in Content
  /\ lineStart \in 1..(Len(scanned) + 1)
  /\ beginAt \in Nat /\ endAt \in Nat
  /\ verdict \in {"scanning", "none", "valid", "corrupt"}
  /\ Found(beginAt, BeginsBefore(lineStart))
  /\ Found(endAt, EndsBefore(lineStart))
  /\ ScanCorrect

\* Two different BEGIN lines, or two different END lines, rule out a section.
LEMMA Duplicate ==
  ASSUME NEW d \in Content, NEW i \in DOMAIN d, NEW j \in DOMAIN d, i # j,
         {i, j} \subseteq Begins(d) \/ {i, j} \subseteq Ends(d)
  PROVE  locateMarkers(d) = "corrupt"
  BY DEF locateMarkers, HasSection

\* The positions of a section are the ones beginLine and endLine choose.
LEMMA SectionFound ==
  ASSUME NEW d \in Content, NEW b \in DOMAIN d, NEW e \in DOMAIN d, HasSection(d, b, e)
  PROVE  locateMarkers(d) = "valid" /\ beginLine(d) = b /\ endLine(d) = e
<1>1. locateMarkers(d) = "valid"
  BY DEF locateMarkers, HasSection
<1>2. \A i \in DOMAIN d : d[i] \in BeginLines <=> i = b
  BY DEF HasSection, Begins
<1>3. \A i \in DOMAIN d : d[i] \in EndLines <=> i = e
  BY DEF HasSection, Ends
<1> QED
  BY <1>1, <1>2, <1>3 DEF beginLine, endLine

\* Each step of the loop preserves the invariant.
LEMMA ScanStep == ScanInv /\ [ScanNext]_scanVars => ScanInv'
<1> SUFFICES ASSUME ScanInv, [ScanNext]_scanVars PROVE ScanInv'
  OBVIOUS
<1>0. /\ scanned \in Content /\ Len(scanned) \in Nat /\ DOMAIN scanned = 1..Len(scanned)
      /\ lineStart \in 1..(Len(scanned) + 1) /\ lineStart + 1 \in Nat
  BY DEF ScanInv, Content
<1>1. CASE BeginLine
  <2>1. lineStart \in Begins(scanned) /\ lineStart \notin Ends(scanned)
    BY <1>0, <1>1, MarkerAssumption DEF BeginLine, Reading, Begins, Ends
  <2>2. CASE beginAt # 0
    <3>1. beginAt \in Begins(scanned) /\ beginAt < lineStart
      BY <2>2 DEF ScanInv, Found, BeginsBefore
    <3>2. beginAt \in DOMAIN scanned /\ lineStart \in DOMAIN scanned /\ beginAt # lineStart
      BY <1>0, <2>1, <3>1 DEF Begins
    <3>3. locateMarkers(scanned) = "corrupt"
      BY <1>0, <2>1, <3>1, <3>2, Duplicate
    <3> QED
      BY <1>1, <2>2, <3>3 DEF BeginLine, ScanInv, ScanCorrect, Found, BeginsBefore, EndsBefore
  <2>3. CASE beginAt = 0
    <3>1. /\ beginAt' = lineStart /\ lineStart' = lineStart + 1 /\ lineStart <= Len(scanned)
          /\ verdict' = verdict /\ verdict = "scanning" /\ scanned' = scanned /\ endAt' = endAt
      BY <1>1, <2>3 DEF BeginLine, Reading
    <3>2. Found(beginAt', BeginsBefore(lineStart)')
      BY <1>0, <2>1, <2>3, <3>1 DEF ScanInv, Found, BeginsBefore, Begins
    <3>3. Found(endAt', EndsBefore(lineStart)')
      BY <1>0, <2>1, <3>1 DEF ScanInv, Found, EndsBefore, Ends
    <3> QED
      BY <1>0, <3>1, <3>2, <3>3 DEF ScanInv, ScanCorrect
  <2> QED
    BY <2>2, <2>3
<1>2. CASE EndLine
  <2>1. lineStart \in Ends(scanned) /\ lineStart \notin Begins(scanned)
    BY <1>0, <1>2, MarkerAssumption DEF EndLine, Reading, Begins, Ends
  <2>2. CASE endAt # 0
    <3>1. endAt \in Ends(scanned) /\ endAt < lineStart
      BY <2>2 DEF ScanInv, Found, EndsBefore
    <3>2. endAt \in DOMAIN scanned /\ lineStart \in DOMAIN scanned /\ endAt # lineStart
      BY <1>0, <2>1, <3>1 DEF Ends
    <3>3. locateMarkers(scanned) = "corrupt"
      BY <1>0, <2>1, <3>1, <3>2, Duplicate
    <3> QED
      BY <1>2, <2>2, <3>3 DEF EndLine, ScanInv, ScanCorrect, Found, BeginsBefore, EndsBefore
  <2>3. CASE endAt = 0
    <3>1. /\ endAt' = lineStart /\ lineStart' = lineStart + 1 /\ lineStart <= Len(scanned)
          /\ verdict' = verdict /\ verdict = "scanning" /\ scanned' = scanned /\ beginAt' = beginAt
      BY <1>2, <2>3 DEF EndLine, Reading
    <3>2. Found(endAt', EndsBefore(lineStart)')
      BY <1>0, <2>1, <2>3, <3>1 DEF ScanInv, Found, EndsBefore, Ends
    <3>3. Found(beginAt', BeginsBefore(lineStart)')
      BY <1>0, <2>1, <3>1 DEF ScanInv, Found, BeginsBefore, Begins
    <3> QED
      BY <1>0, <3>1, <3>2, <3>3 DEF ScanInv, ScanCorrect
  <2> QED
    BY <2>2, <2>3
<1>3. CASE OtherLine
  <2>1. /\ lineStart' = lineStart + 1 /\ lineStart <= Len(scanned) /\ verdict = "scanning"
        /\ UNCHANGED <<scanned, beginAt, endAt, verdict>>
        /\ lineStart \notin Begins(scanned) /\ lineStart \notin Ends(scanned)
    BY <1>3 DEF OtherLine, Reading, Begins, Ends
  <2>2. /\ BeginsBefore(lineStart)' = BeginsBefore(lineStart)
        /\ EndsBefore(lineStart)' = EndsBefore(lineStart)
    BY <1>0, <2>1 DEF BeginsBefore, EndsBefore, Begins, Ends
  <2> QED
    BY <1>0, <2>1, <2>2 DEF ScanInv, ScanCorrect, Found
<1>4. CASE Finish
  <2>1. /\ lineStart = Len(scanned) + 1 /\ UNCHANGED <<scanned, lineStart, beginAt, endAt>>
        /\ beginAt \in Nat /\ endAt \in Nat
    BY <1>0, <1>4 DEF Finish, ScanInv
  <2>2. Found(beginAt, Begins(scanned)) /\ Found(endAt, Ends(scanned))
    <3>1. BeginsBefore(lineStart) = Begins(scanned) /\ EndsBefore(lineStart) = Ends(scanned)
      BY <1>0, <2>1 DEF BeginsBefore, EndsBefore, Begins, Ends
    <3> QED
      BY <3>1 DEF ScanInv
  <2>3. ScanCorrect'
    <3>1. CASE beginAt = 0 /\ endAt = 0
      BY <1>4, <2>1, <2>2, <3>1 DEF Finish, ScanCorrect, Found, locateMarkers
    <3>2. CASE ~(beginAt = 0 /\ endAt = 0) /\ (beginAt = 0 \/ endAt = 0 \/ endAt < beginAt)
      <4>1. verdict' = "corrupt" /\ scanned' = scanned
        BY <1>4, <3>2 DEF Finish
      <4>2. ~(Begins(scanned) = {} /\ Ends(scanned) = {})
        BY <2>2, <3>2 DEF Found
      <4>3. ~\E b, e \in DOMAIN scanned : HasSection(scanned, b, e)
        <5> SUFFICES ASSUME NEW b \in DOMAIN scanned, NEW e \in DOMAIN scanned,
                            Begins(scanned) = {b}, Ends(scanned) = {e}, b < e
                     PROVE  FALSE
          BY DEF HasSection
        <5>1. beginAt = b
          BY <2>2 DEF Found
        <5>2. endAt = e
          BY <2>2 DEF Found
        <5> QED
          BY <1>0, <3>2, <5>1, <5>2
      <4> QED
        BY <4>1, <4>2, <4>3 DEF ScanCorrect, locateMarkers
    <3>3. CASE beginAt # 0 /\ endAt # 0 /\ ~(endAt < beginAt)
      <4>1. verdict' = "valid" /\ UNCHANGED <<scanned, beginAt, endAt>>
        BY <1>4, <3>3 DEF Finish
      <4>2. beginAt \in Begins(scanned) /\ endAt \in Ends(scanned)
        BY <2>2, <3>3 DEF Found
      <4>3. beginAt \in DOMAIN scanned /\ endAt \in DOMAIN scanned /\ beginAt # endAt
        BY <4>2, MarkerAssumption DEF Begins, Ends
      <4>4. HasSection(scanned, beginAt, endAt)
        BY <2>1, <2>2, <3>3, <4>3 DEF Found, HasSection
      <4> QED
        BY <1>0, <4>1, <4>3, <4>4, SectionFound DEF ScanCorrect
    <3> QED
      BY <3>1, <3>2, <3>3
  <2>4. verdict' \in {"scanning", "none", "valid", "corrupt"}
    BY <1>4 DEF Finish
  <2> QED
    BY <2>1, <2>3, <2>4 DEF ScanInv, Found, BeginsBefore, EndsBefore
<1>5. CASE UNCHANGED scanVars
  BY <1>5 DEF scanVars, ScanInv, ScanCorrect, Found, BeginsBefore, EndsBefore
<1> QED
  BY <1>1, <1>2, <1>3, <1>4, <1>5 DEF ScanNext

(***************************************************************************)
(* locateMarkers' single pass computes the declarative classification and  *)
(* the section's positions for every file, whatever its length.            *)
(***************************************************************************)
THEOREM ScanIsCorrect == ScanSpec => []ScanCorrect
<1>1. ScanInit => ScanInv
  BY InputAssumption DEF ScanInit, ScanInv, ScanCorrect, Found, BeginsBefore, EndsBefore,
                         Begins, Ends, Content
<1>2. ScanInv => ScanCorrect
  BY DEF ScanInv
<1> QED
  BY <1>1, <1>2, ScanStep, PTL DEF ScanSpec
=============================================================================
