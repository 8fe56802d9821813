----------------------------- MODULE HostsStore -----------------------------
(***************************************************************************)
(* The transactional hosts store, hosts/store.go: Prepare, Apply and       *)
(* Regenerate, each built from replacements of one path through an         *)
(* adjacent temporary file (create, write, sync, verify the destination,   *)
(* rename, sync the directory, read back).  Between any two of those steps *)
(*   - somebody else may edit either file (EditFile);                      *)
(*   - the caller's context may be cancelled (Cancel);                     *)
(*   - the next system call may fail (the ...Fails actions);               *)
(*   - the process may be killed (Kill) or the machine may lose power      *)
(*     (PowerLoss).                                                        *)
(* One SDHM process at a time holds the hosts lock (cmd/sdhm/hosts_lock.go)*)
(* so the store is used by at most one caller, `mode'.                     *)
(***************************************************************************)
EXTENDS Markers

CONSTANTS
  Meta,         \* fileMetadata values: mode, uid, gid
  DefaultMeta,  \* defaultFileMetadata()
  NoMeta,       \* fileMetadata{}, which a path that does not exist reads as
  Bodies,       \* managed bodies renderEndpoints can return
  InitFiles,    \* initial file systems, a set of functions Path -> File
  EditFiles     \* EditFiles[p]: what somebody else may put at path p

Path == {"hosts", "backup"}

(***************************************************************************)
(* A file version.  `synced' says that its bytes reached the disk: after a *)
(* power loss an unsynced version may come back empty.                     *)
(***************************************************************************)
File == [kind : {"regular", "absent", "irregular"}, data : Content,
         meta : Meta, synced : BOOLEAN]

RegularFile(data, meta) ==
  [kind |-> "regular", data |-> data, meta |-> meta, synced |-> TRUE]
Absent    == [RegularFile(<<>>, DefaultMeta) EXCEPT !.kind = "absent"]
Irregular == [RegularFile(<<>>, DefaultMeta) EXCEPT !.kind = "irregular"]

(***************************************************************************)
(* fileSnapshot: what readOptionalRegularFile reports of a path.           *)
(***************************************************************************)
Snapshot == [exists : BOOLEAN, data : Content, meta : Meta \cup {NoMeta}]

NoSnapshot == [exists |-> FALSE, data |-> <<>>, meta |-> NoMeta]

SnapshotOf(f) == IF f.kind = "regular"
                 THEN [exists |-> TRUE, data |-> f.data, meta |-> f.meta]
                 ELSE NoSnapshot

Op    == {"none", "prepare", "apply", "regenerate"}
Plan  == {"none", "keep", "seed", "replace", "recover"}
Phase == {"none", "mirror", "retain", "commit", "recover", "rollback"}

StagePC == {"create", "write", "sync"}           \* stageReplacement
EarlyPC == StagePC \cup {"verify", "rename"}     \* before the rename happened
LatePC  == {"syncDir", "readback"}               \* after the rename happened
PC == {"idle", "read", "readBackup", "inspect", "ensure"} \cup EarlyPC \cup LatePC

Mode == {"down", "preparing", "serving", "regenerating"}

Outcome == {"none", "running", "ok", "failed", "restored", "unrestored",
            "unmirrored", "late"}

Job == [op : Op, plan : Plan, body : Content, cur : Snapshot, prop : Content,
        newMeta : Meta]
Txn == [phase : Phase, path : Path, data : Content, meta : Meta, expect : Snapshot]

ASSUME StoreAssumption ==
  /\ DefaultMeta \in Meta /\ NoMeta \notin Meta
  /\ Bodies \subseteq Seq(PlainLine)
  /\ \A fs \in InitFiles : fs \in [Path -> File]
  /\ \A fs \in InitFiles : \A p \in Path : fs[p].synced
  /\ \A p \in Path : EditFiles[p] \subseteq File
  /\ \A p \in Path : \A f \in EditFiles[p] : f.synced

VARIABLES
  file,       \* file[p]: the version a reader of path p sees
  pend,       \* pend[p]: the versions a power loss may leave at path p
  temp,       \* the temporary file of the running replacement
  mode,       \* who uses the store: nobody, the daemon or `sdhm regenerate'
  cancelled,  \* that process's context has been cancelled
  pc,         \* the next step of the running operation
  job,        \* the running operation: its plan, what it read, what it proposes
  txn,        \* the running replaceFileIfUnchanged call
  outcome,    \* how the last operation returned
  touched,    \* history: paths edited by somebody else since the operation began
  raced,      \* history: txn.path was edited since it was verified
  base        \* history: the hosts file when the operation began

fsVars   == <<file, pend, temp>>
histVars == <<touched, raced, base>>
vars     == <<file, pend, temp, mode, cancelled, pc, job, txn, outcome,
              touched, raced, base>>

NoTxn  == [phase |-> "none", path |-> "hosts", data |-> <<>>,
           meta |-> DefaultMeta, expect |-> NoSnapshot]
NoJob  == [op |-> "none", plan |-> "none", body |-> <<>>, cur |-> NoSnapshot,
           prop |-> <<>>, newMeta |-> DefaultMeta]

Init ==
  /\ file \in InitFiles
  /\ pend = [p \in Path |-> {file[p]}]
  /\ temp = Absent
  /\ mode = "down" /\ cancelled = FALSE
  /\ pc = "idle" /\ job = NoJob /\ txn = NoTxn /\ outcome = "none"
  /\ touched = {} /\ raced = FALSE /\ base = NoSnapshot

-----------------------------------------------------------------------------
(***************************************************************************)
(* Calling an operation, and returning from it.  A daemon that cannot      *)
(* prepare its store exits; `sdhm regenerate' exits in either case.        *)
(***************************************************************************)
Call(op, body) ==
  /\ pc = "idle"
  /\ pc' = "read"
  /\ job' = [NoJob EXCEPT !.op = op, !.body = body]
  /\ outcome' = "running"
  /\ touched' = {} /\ base' = SnapshotOf(file["hosts"])
  /\ UNCHANGED <<fsVars, txn, raced>>

Prepare ==
  /\ mode = "down" /\ mode' = "preparing" /\ cancelled' = FALSE
  /\ Call("prepare", <<>>)

Apply(body) ==
  /\ mode = "serving"
  /\ Call("apply", body)
  /\ UNCHANGED <<mode, cancelled>>

Regenerate ==
  /\ mode = "down" /\ mode' = "regenerating" /\ cancelled' = FALSE
  /\ Call("regenerate", <<>>)

Return(result) ==
  /\ pc' = "idle" /\ outcome' = result
  /\ txn' = NoTxn
  /\ job' = [NoJob EXCEPT !.op = job.op, !.plan = job.plan, !.body = job.body]
  /\ mode' = IF mode = "serving" \/ (mode = "preparing" /\ result = "ok")
             THEN "serving" ELSE "down"

-----------------------------------------------------------------------------
(***************************************************************************)
(* The decisions an operation takes between two replacements.              *)
(***************************************************************************)
Readable(p) == file[p].kind # "irregular"

Begin(phase, path, data, meta, expect) ==
  /\ pc' = "create"
  /\ txn' = [phase |-> phase, path |-> path, data |-> data, meta |-> meta,
             expect |-> expect]
  /\ UNCHANGED <<mode, outcome>>

BeginCommit == Begin("commit", "hosts", job.prop, job.cur.meta, job.cur)

rollbackTargetToBackupBytes ==
  Begin("rollback", "hosts", file["backup"].data, job.cur.meta,
        [exists |-> TRUE, data |-> job.prop, meta |-> job.cur.meta])

rollbackTargetDefaultMeta ==
  Begin("rollback", "hosts", job.cur.data, DefaultMeta,
        [exists |-> TRUE, data |-> job.prop, meta |-> job.cur.meta])

rollbackTarget ==
  Begin("rollback", "hosts", job.cur.data, job.cur.meta,
        [exists |-> TRUE, data |-> job.prop, meta |-> job.cur.meta])

Decide(next, plan, cur, prop, newMeta) ==
  /\ plan = "recover" \/ locateMarkers(prop) = "valid"
  /\ pc' = next
  /\ job' = [job EXCEPT !.plan = plan, !.cur = cur, !.prop = prop,
                        !.newMeta = newMeta]

PrepareReads(cur) ==
  /\ job.op = "prepare" /\ cur.exists
  /\ \/ /\ locateMarkers(cur.data) = "valid"
        /\ Decide("ensure", "keep", cur, cur.data, cur.meta)
     \/ /\ locateMarkers(cur.data) = "none"
        /\ Decide("ensure", "seed", cur, appendEmptySection(cur.data), cur.meta)
     \/ /\ locateMarkers(cur.data) = "corrupt"
        /\ Decide("readBackup", "recover", cur, <<>>, cur.meta)

ApplyReads(cur) ==
  /\ job.op = "apply" /\ cur.exists
  /\ locateMarkers(cur.data) = "valid"
  /\ LET proposed == replaceManagedSection(cur.data, job.body)
     IN  IF proposed = cur.data
         THEN Decide("ensure", "keep", cur, proposed, cur.meta)
         ELSE Decide("inspect", "replace", cur, proposed, cur.meta)

RegenerateReadsTrusting(cur) ==
  /\ job.op = "regenerate" /\ cur.exists
  /\ Decide("inspect", "replace", cur, freshHostsFile, DefaultMeta)

RegenerateReads(cur) ==
  /\ job.op = "regenerate"
  /\ IF cur.exists /\ locateMarkers(cur.data) = "valid"
     THEN Decide("inspect", "replace", cur, freshHostsFile, DefaultMeta)
     ELSE Decide("ensure", "seed",
                 IF cur.exists THEN cur ELSE [cur EXCEPT !.meta = DefaultMeta],
                 freshHostsFile, DefaultMeta)

ReadHosts ==
  /\ pc = "read" /\ ~cancelled
  /\ Readable("hosts")
  /\ LET cur == SnapshotOf(file["hosts"])
     IN  PrepareReads(cur) \/ ApplyReads(cur) \/ RegenerateReads(cur)
  /\ UNCHANGED <<fsVars, mode, cancelled, txn, outcome, histVars>>

\* ensureBackupMatches, then what its caller does next.
AfterMirror == IF job.plan = "seed"
               THEN BeginCommit /\ UNCHANGED job
               ELSE Return("ok")

\* The metadata a refreshed backup gets: its own, or the caller's for a new one.
backupMetaZero(backup) == backup.meta
backupMeta(backup) == IF backup.exists THEN backup.meta ELSE job.newMeta

EnsureBackup ==
  /\ pc = "ensure" /\ Readable("backup")
  /\ LET backup == SnapshotOf(file["backup"])
     IN  IF backup.exists /\ backup.data = job.prop
         THEN AfterMirror
         ELSE /\ Begin("mirror", "backup", job.prop, backupMeta(backup), backup)
              /\ UNCHANGED job
  /\ UNCHANGED <<fsVars, cancelled, histVars>>

\* The first half of applyReplacement: the backup retains the current bytes.
InspectBackupOnlyExists ==
  /\ pc = "inspect" /\ Readable("backup")
  /\ LET backup == SnapshotOf(file["backup"])
     IN  IF backup.exists
         THEN BeginCommit
         ELSE Begin("retain", "backup", job.cur.data, backupMeta(backup), backup)
  /\ UNCHANGED <<fsVars, cancelled, job, histVars>>

InspectBackup ==
  /\ pc = "inspect" /\ Readable("backup")
  /\ LET backup == SnapshotOf(file["backup"])
     IN  IF backup.exists /\ backup.data = job.cur.data
         THEN BeginCommit
         ELSE Begin("retain", "backup", job.cur.data, backupMeta(backup), backup)
  /\ UNCHANGED <<fsVars, cancelled, job, histVars>>

\* Prepare found corrupt markers: only a validated backup may replace the file.
ReadBackup ==
  /\ pc = "readBackup" /\ Readable("backup")
  /\ LET backup == SnapshotOf(file["backup"])
     IN  /\ backup.exists /\ locateMarkers(backup.data) = "valid"
         /\ Begin("recover", "hosts", backup.data, job.cur.meta, job.cur)
  /\ UNCHANGED <<fsVars, cancelled, job, histVars>>

\* A read, a marker check, rendering or the hostname lookup returned an error.
DecideFails ==
  /\ pc \in {"read", "readBackup", "inspect", "ensure"}
  /\ Return(IF pc = "ensure" /\ job.plan = "replace" THEN "unmirrored" ELSE "failed")
  /\ UNCHANGED <<fsVars, cancelled, histVars>>

-----------------------------------------------------------------------------
(***************************************************************************)
(* replaceFileIfUnchanged.  checkContext precedes every system call; the   *)
(* rollback runs under context.WithoutCancel.                              *)
(***************************************************************************)
checkContext == ~cancelled \/ txn.phase = "rollback"

CreateTemp ==
  /\ pc = "create" /\ checkContext
  /\ temp' = [RegularFile(<<>>, DefaultMeta) EXCEPT !.synced = FALSE]
  /\ pc' = "write"
  /\ UNCHANGED <<file, pend, mode, cancelled, job, txn, outcome, histVars>>

WriteTemp ==
  /\ pc = "write" /\ checkContext
  /\ temp' = [temp EXCEPT !.data = txn.data, !.meta = txn.meta]
  /\ pc' = "sync"
  /\ UNCHANGED <<file, pend, mode, cancelled, job, txn, outcome, histVars>>

SyncTempSkipped ==
  /\ pc = "sync" /\ checkContext
  /\ pc' = "verify"
  /\ UNCHANGED <<fsVars, mode, cancelled, job, txn, outcome, histVars>>

SyncTemp ==
  /\ pc = "sync" /\ checkContext
  /\ temp' = [temp EXCEPT !.synced = TRUE]
  /\ pc' = "verify"
  /\ UNCHANGED <<file, pend, mode, cancelled, job, txn, outcome, histVars>>

Matches(f, s) == LET found == SnapshotOf(f)
                 IN  /\ found.exists = s.exists
                     /\ s.exists => found = s

requireSnapshotBlind == Readable(txn.path)
requireSnapshot == Readable(txn.path) /\ Matches(file[txn.path], txn.expect)

Verify ==
  /\ pc = "verify" /\ checkContext
  /\ requireSnapshot
  /\ pc' = "rename" /\ raced' = FALSE
  /\ UNCHANGED <<fsVars, mode, cancelled, job, txn, outcome, touched, base>>

Rename ==
  /\ pc = "rename" /\ checkContext
  /\ file' = [file EXCEPT ![txn.path] = temp]
  /\ pend' = [pend EXCEPT ![txn.path] = @ \cup {temp}]
  /\ temp' = Absent
  /\ pc' = "syncDir" /\ raced' = FALSE
  /\ UNCHANGED <<mode, cancelled, job, txn, outcome, touched, base>>

SyncDir ==
  /\ pc = "syncDir" /\ checkContext
  /\ pend' = [pend EXCEPT ![txn.path] = {file[txn.path]}]
  /\ pc' = "readback"
  /\ UNCHANGED <<file, temp, mode, cancelled, job, txn, outcome, histVars>>

\* The replacement succeeded; what its caller does next.
AfterCommitUnmirrored == Return("ok")

AfterCommit == IF job.plan = "replace"
               THEN pc' = "ensure" /\ txn' = NoTxn /\ UNCHANGED <<mode, job, outcome>>
               ELSE Return("ok")

ReadBack ==
  /\ pc = "readback" /\ checkContext
  /\ file[txn.path].kind = "regular" /\ file[txn.path].data = txn.data
  /\ \/ txn.phase = "mirror"   /\ AfterMirror
     \/ txn.phase = "retain"   /\ BeginCommit /\ UNCHANGED job
     \/ txn.phase = "commit"   /\ AfterCommit
     \/ txn.phase = "recover"  /\ Return("ok")
     \/ txn.phase = "rollback" /\ Return("restored")
  /\ UNCHANGED <<fsVars, cancelled, histVars>>

\* An error before the rename: the temporary file is removed, the path kept.
ReplaceFails ==
  /\ pc \in EarlyPC
  /\ temp' = Absent
  /\ Return(CASE txn.phase = "rollback" -> "unrestored"
              [] txn.phase = "mirror" /\ job.plan = "replace" -> "unmirrored"
              [] OTHER -> "failed")
  /\ UNCHANGED <<file, pend, cancelled, histVars>>

\* An error after the rename.  The directory may have been synced before Close
\* failed.  Only applyReplacement and initializeManagedSection roll back.
RollsBack == txn.phase = "commit" /\ (job.plan = "replace" \/ job.op = "prepare")

ReplaceFailsLate ==
  /\ pc \in LatePC
  /\ \/ UNCHANGED pend
     \/ pc = "syncDir" /\ pend' = [pend EXCEPT ![txn.path] = {file[txn.path]}]
  /\ IF RollsBack
     THEN rollbackTarget /\ UNCHANGED job
     ELSE Return(CASE txn.phase = "rollback" -> "unrestored"
                   [] txn.phase = "mirror" /\ job.plan = "replace" -> "unmirrored"
                   [] txn.phase \in {"commit", "recover"} -> "late"
                   [] OTHER -> "failed")
  /\ UNCHANGED <<file, temp, cancelled, histVars>>

-----------------------------------------------------------------------------
(***************************************************************************)
(* The environment.                                                        *)
(***************************************************************************)
EditFile(p, f) ==
  /\ f \in EditFiles[p] /\ f # file[p]
  /\ file' = [file EXCEPT ![p] = f]
  /\ pend' = [pend EXCEPT ![p] = {f}]
  /\ touched' = touched \cup {p}
  /\ raced' = (raced \/ (pc = "rename" /\ txn.path = p))
  /\ UNCHANGED <<temp, mode, cancelled, pc, job, txn, outcome, base>>

Cancel ==
  /\ mode # "down" /\ ~cancelled
  /\ cancelled' = TRUE
  /\ UNCHANGED <<fsVars, mode, pc, job, txn, outcome, histVars>>

\* A cancelled daemon leaves its loop between two operations.
Exit ==
  /\ mode = "serving" /\ pc = "idle" /\ cancelled
  /\ mode' = "down"
  /\ UNCHANGED <<fsVars, cancelled, pc, job, txn, outcome, histVars>>

Stopped ==
  /\ mode # "down" /\ mode' = "down"
  /\ temp' = Absent /\ pc' = "idle" /\ job' = NoJob /\ txn' = NoTxn
  /\ outcome' = "none" /\ cancelled' = FALSE
  /\ touched' = {} /\ raced' = FALSE /\ base' = NoSnapshot

Kill == Stopped /\ UNCHANGED <<file, pend>>

AfterPowerLoss(f) == IF f.synced THEN {f} ELSE {f, [f EXCEPT !.data = <<>>]}

PowerLoss ==
  /\ Stopped
  /\ \E h \in pend["hosts"], b \in pend["backup"] :
       \E hh \in AfterPowerLoss(h), bb \in AfterPowerLoss(b) :
         /\ file' = [p \in Path |-> IF p = "hosts" THEN hh ELSE bb]
         /\ pend' = [p \in Path |-> IF p = "hosts" THEN {hh} ELSE {bb}]

-----------------------------------------------------------------------------
Replace == \/ CreateTemp \/ WriteTemp \/ SyncTemp \/ Verify \/ Rename
           \/ SyncDir \/ ReadBack \/ ReplaceFails \/ ReplaceFailsLate

Store == \/ Prepare \/ Regenerate
         \/ \E body \in Bodies : Apply(body)
         \/ ReadHosts \/ EnsureBackup \/ InspectBackup \/ ReadBackup \/ DecideFails
         \/ Replace

Environment == \/ \E p \in Path : \E f \in EditFiles[p] : EditFile(p, f)
               \/ Cancel \/ Exit \/ Kill \/ PowerLoss

Next == Store \/ Environment

Spec == Init /\ [][Next]_vars
-----------------------------------------------------------------------------
(***************************************************************************)
(* Properties.                                                             *)
(***************************************************************************)

(***************************************************************************)
(* Types.  Beyond the shapes it says that no replacement ever carries the  *)
(* zero fileMetadata that readOptionalRegularFile reports for a path that  *)
(* does not exist (mode 0, no ownership).                                  *)
(***************************************************************************)
TypeOK ==
  /\ file \in [Path -> File]
  /\ pend \in [Path -> SUBSET File]
  /\ temp \in File
  /\ mode \in Mode
  /\ cancelled \in BOOLEAN
  /\ pc \in PC
  /\ job \in Job /\ txn \in Txn
  /\ outcome \in Outcome
  /\ touched \subseteq Path /\ raced \in BOOLEAN /\ base \in Snapshot

Valid(f) == f.kind = "regular" /\ locateMarkers(f.data) = "valid"

\* SDHM itself replaced the file at path p in this step.
Renamed(p) == pc = "rename" /\ pc' = "syncDir" /\ txn.path = p

(***************************************************************************)
(* README "Backup & Recovery": every successful Prepare, Apply and         *)
(* Regenerate leaves the hosts file valid and the backup byte-identical to *)
(* it, unless somebody else edited a file during or after the call.        *)
(***************************************************************************)
MirrorOnSuccess ==
  (pc = "idle" /\ outcome = "ok" /\ touched = {}) =>
    /\ Valid(file["hosts"]) /\ Valid(file["backup"])
    /\ file["hosts"].data = file["backup"].data

(***************************************************************************)
(* A backup that is good for a recovery, now and after a power loss, stays *)
(* good whatever SDHM does: no cancellation, failing call, kill or power   *)
(* loss at any step lets corrupt or partial bytes take its place.  Only    *)
(* somebody else's edit of the backup can spoil it.                        *)
(***************************************************************************)
BackupSafe == \A f \in pend["backup"] \cup {file["backup"]} : Valid(f)

BackupStaysValid ==
  [][BackupSafe => BackupSafe' \/ \E f \in EditFiles["backup"] : EditFile("backup", f)]_vars

(***************************************************************************)
(* Whatever version of a file a power loss brings back, its bytes had      *)
(* reached the disk before the rename made it visible: never a torn file.  *)
(***************************************************************************)
NeverTorn == \A p \in Path : \A f \in pend[p] : AfterPowerLoss(f) = {f}

(***************************************************************************)
(* replaceFileIfUnchanged: the hosts file that SDHM renames over is the    *)
(* one the operation read (or, for a rollback, the one it committed), and  *)
(* the backup the one it inspected, unless the edit hit the window between *)
(* the check of the destination and the rename.                            *)
(***************************************************************************)
Overwrites(p, s) == Renamed(p) => Matches(file[p], s)

NoLostEdit ==
  [][ raced \/ IF txn.phase = "rollback"
               THEN Overwrites("hosts", [exists |-> TRUE, data |-> job.prop,
                                         meta |-> job.cur.meta])
               ELSE Overwrites("hosts", job.cur) /\ Overwrites("backup", txn.expect) ]_vars

(***************************************************************************)
(* README "detects concurrent destination changes before replacement",     *)
(* without the exception for the window: what SDHM renames over is always  *)
(* what it expected to find there.                                         *)
(***************************************************************************)
ConcurrentChangeDetected == [][\A p \in Path : Overwrites(p, txn.expect)]_vars

(***************************************************************************)
(* README "preserving every byte outside it": an Apply, the initialisation *)
(* of the managed section, and the rollback of either keep every line      *)
(* outside the managed section, in order.  The last line is compared with  *)
(* its newline on both sides: it may gain the one it lacked.               *)
(***************************************************************************)
UserLines(data) == Terminated(Outside(data))

UserLinesPreserved ==
  [][ (Renamed("hosts") /\ ~raced /\ job.op # "regenerate" /\ txn.phase # "recover")
      => UserLines(file'["hosts"].data) = UserLines(file["hosts"].data) ]_vars

(***************************************************************************)
(* An operation that reports a plain failure, or that the target was       *)
(* restored, left the hosts file (bytes, mode and owner) as it found it:   *)
(* an unusable backup, a cancellation or a failing call never half-applies.*)
(***************************************************************************)
FailureAtomic ==
  (pc = "idle" /\ outcome \in {"failed", "restored"} /\ "hosts" \notin touched)
    => SnapshotOf(file["hosts"]) = base

(***************************************************************************)
(* applyReplacement "retains the caller-validated current bytes in the     *)
(* backup": when SDHM is about to replace a valid hosts file, the backup   *)
(* holds that file's bytes, so either copy can be recovered from.          *)
(***************************************************************************)
RetainedBeforeCommit ==
  (pc = "rename" /\ txn.phase = "commit" /\ job.plan = "replace" /\ touched = {}) =>
    file["backup"].kind = "regular" /\ file["backup"].data = file["hosts"].data

\* How far the running operation has got, as seen from outside the store.
Progress ==
  CASE pc = "idle" -> "idle"
    [] txn.phase = "rollback" /\ pc \in LatePC -> "undone"
    [] \/ txn.phase = "rollback" /\ pc \in EarlyPC
       \/ txn.phase \in {"commit", "recover"} /\ pc \in LatePC
       \/ job.plan = "replace" /\ (pc = "ensure" \/ txn.phase = "mirror") -> "committed"
    [] OTHER -> "called"

Contract == INSTANCE StoreContract WITH
  hosts  <- SnapshotOf(file["hosts"]),
  past   <- {SnapshotOf(f) : f \in pend["hosts"]},
  phase  <- Progress,
  call   <- [op |-> job.op, body |-> job.body],
  old    <- base,
  result <- IF pc = "idle" THEN outcome ELSE "none"

(***************************************************************************)
(* Without foreign edits the store is atomic and truthful to its callers   *)
(* and to every reader of the hosts file: some twenty system calls, the    *)
(* backup and the rollback look like one replacement, perhaps taken back,  *)
(* and the result says which version is in place and whether it is safe.   *)
(***************************************************************************)
ImplementsContract == Contract!Spec
=============================================================================
