# SDHM in TLA+

SDHM (Saltbox Docker Hosts Manager) keeps a marked section of `/etc/hosts` in
step with the containers on a set of Docker networks. This directory holds TLA+
models of it, translated from the Go source under `src/`, the TLC runs that
check them on small instances, and TLAPS proofs of what matters most for every
instance. `PROJECT.json` is the machine-readable index: components, runs, the
mutant that shows that a property can fail, the source lines of every
definition, the hazards, and the theorems.

## 1. Inventory

| Part | State | Operations | Works with |
|---|---|---|---|
| Hosts store, `hosts/store.go`, `hosts/fileops.go` | none in memory; the hosts file, its backup, one temporary file | `Prepare`, `Apply`, `Regenerate`, each made of replacements: create, write, sync, verify, rename, sync the directory, read back | called by the daemon and by `sdhm regenerate`; shares both files with every other program on the machine |
| Managed markers, `hosts/markers.go` | none (pure) | `locateMarkers`, `replaceManagedSection` | used by the store |
| Rendering, `hosts/render.go` | none (pure) | `renderEndpoints`, hostname validation | used by `Apply` and `Regenerate` |
| Health tracker, `health/tracker.go` | ready flag, active record per concern, bounded history, next id, a lock | `BeginInitialization`, `CompleteInitialization`, `Fail`, `Recover`, `Snapshot` | written by the daemon goroutine, read by HTTP handlers |
| Health handler, `health/handler.go` | none; works on a copy | `renderSnapshot` | runs in a goroutine per request |
| Health server, `health/server.go` | listener, terminal error, done channel | `Start`, `Shutdown`, `Done`, `Err` | owned by the daemon |
| Event loop, `daemon/loop.go`, `daemon/loop_state.go` | six timers, two backoff delays, pending flag, the current stream and its cancel function, two last-failure strings | the cases of one `select`, `reconcilePending`, `startStream`, `disconnectStream` | reads the stream and timers; calls `reconcile`, the tracker |
| Lifecycle, `daemon/daemon.go` | what has been started | `Run`, `startupStop`, the watcher goroutine, `cleanup` | owns every other part |
| Docker client, `docker/client.go` | the set of running forwarders | `Ping`, `Snapshot`, `Events`, `Close` | one forwarder goroutine per stream; up to eight concurrent inspections |
| Hosts lock, `cmd/sdhm/hosts_lock.go` | an `flock` on `<hosts>.sdhm.lock` | acquire, release | held for the life of either command |
| Configuration, `command/` | none (pure) | parsing and validation of flags, networks, durations | feeds the wiring in `cmd/sdhm/run.go` |
| Logging, `cmd/sdhm/logging.go` | none | formatting | output only |

What is hard in it, and the property that makes each part correct:

* **Store.** Three operations over two files in several system calls each, any
  of which can fail, be the last before a kill or a power loss, or have another
  program's edit between it and the next. Correct means: success leaves a valid
  file and a byte-identical backup; a plain failure changes nothing; the backup
  is at every moment good for a recovery; nobody's lines are lost; nothing is
  ever torn.
* **Markers.** Duplicate, reversed and half markers, CRLF, and a missing final
  newline. Correct means: a section is found exactly when there is one.
* **Tracker and handler.** A bounded history against records that must not be
  dropped, and answers computed from a copy while the tracker moves on. Correct
  means: every active concern has its record, and no answer meets a missing one.
* **Event loop.** Many wake-ups in any order, a stream that dies at any time and
  takes events with it. Correct means: the loop never sleeps without an alarm,
  answers events in bounded time, reports health truthfully, converges, and ends
  when told to, leaving no stream behind.
* **Lifecycle.** Three goroutines race at startup and shutdown: the daemon's, the
  watcher's and the health server's. Correct means: a server that dies is
  reported once, a cancellation is no error, nothing started is left running, the
  endpoint is not ready too early, and the process ends.
* **Docker client.** Forwarders that block on a reader who is gone, an error that
  waits in one channel while the other closes, containers that vanish between
  list and inspection. Correct means: no event and no error is lost, `Close`
  returns, and a snapshot is complete, tolerant of vanishing and deterministic.
* **Hosts lock.** Processes that start and die at any time, and several spellings
  of one path, which lock and store resolve in different ways. Correct means: one
  writer per hosts file.
* **Configuration.** Validated twice, in stages with early returns, with a product
  that may overflow. Correct means: exactly the sound options are accepted, and
  they mean what was written.

`PROJECT.json` lists the hazards one by one with the line where each bites.

## 2. Modules

| Module | Models | State and actions |
|---|---|---|
| `Markers` | the text operations | constant-level operators on files as sequences of lines |
| `MarkerScan` | the loop of `locateMarkers` | `lineStart`, `beginAt`, `endAt`, `verdict`; one action per kind of line, `Finish` for the checks after the loop |
| `HostsStore` | `hosts/store.go` | `file`, `pend`, `temp`: the file system; `job`: the running operation; `txn`: the running replacement; `pc`: its next system call |
| `Tracker` | tracker and handler | `lock`, `ready`, `active`, `history`, `nextID` are the struct's fields; `request[h]` is a handler's local state |
| `StoreContract` | what the store promises to its callers and to readers of the file | one file, replaced in one step, perhaps taken back; `HostsStore` implements it |
| `Loop` | loop and `reconcile` | the fields of `loopState`; `pc` is the place in `loop`; `ctxDone`, `serverDone` the stop channels |
| `LoopContract` | what the loop promises to `Run` | reconcile, keep the concerns truthful, return for a stop only; `Loop` implements it, `Lifecycle` runs it |
| `Lifecycle` | `runDaemonWith`, `Run`, watcher, `cleanup`, the health server | `pc`: the main goroutine; `watcher`, `serving`: the other two; `errs`: the errors to be joined |
| `StreamContract` | an event stream as its reader sees it | events to read, an error to read, how far it is closed; `Loop` reads it, `EventStream` implements it |
| `EventStream` | the forwarder goroutine of `Events`, and `Close` | the four channels, the message in the forwarder's hand, `pc`: its place |
| `Render` | `renderEndpoints` | constant-level operators on endpoints |
| `DockerSnapshot` | `Snapshot`, and the body made of it | Docker's containers, `listed`, `launched`, `outcomes`, `result`, `body` |
| `HostsLock` | `acquireHostsLock` and its use by both commands | per process its path with its `$PWD`, and its place; per directory entry the lock file, its holder and the hosts file's version |
| `Config` | both `config` methods, `ParseNetworks`, `ParseDuration`, both validations, `daemon.New` | `opts`, `cfg`, `pc`: one action per check or iteration |
| `HostsStoreProofs`, `TrackerProofs`, `LoopProofs`, `LifecycleProofs`, `EventStreamProofs`, `DockerSnapshotProofs`, `HostsLockProofs`, `ConfigProofs` | | theorems about the module each is named after; `HostsStoreProofs` also about `MarkerScan`, `DockerSnapshotProofs` also about `Render` |
| `MC...` | | values of the constants for TLC |

An operator whose name extends the name of the definition after it
(`SyncTempSkipped` before `SyncTemp`) is that definition with a plausible bug. No
specification uses it; it exists to show that a property notices the bug.

How the modules fit together:

* `Lifecycle` runs `LoopContract` where the code runs the loop; `Loop` is shown,
  and proved, to implement it, and `LoopStartsTruthful` shows that `Run` enters it in one of its
  initial states.
* `Loop` reads a stream of `StreamContract`; `EventStream` is shown, and proved, to
  implement it.
* `HostsStore` admits one caller; `HostsLock` shows, and proves, that there is one,
  as long as no path climbs out of a symbolic link (see below).
* `HostsStore` assumes that rendered bodies hold no marker line; `BodyWellFormed`
  of `DockerSnapshot` is that fact about `Render`, and is proved.
* `HostsStore` uses the declarative `locateMarkers`; `ScanIsCorrect` justifies it.
* `Loop` assumes positive delays with the debounce delay within its maximum;
  `DurationsExact` says that of every configuration a daemon runs with.

### HostsStore

A file's text is a sequence of lines. A line matters as far as the code tells
lines apart: it reads as BEGIN, it reads as END, or it is something else.
Spellings with a carriage return and a last line without its newline are
separate lines of the same kind.

`Prepare`, `Apply` and `Regenerate` start an operation. `ReadHosts` reads the
hosts file and decides a *plan*: `keep` (nothing to change, only the mirror),
`replace` (`applyReplacement`: retain, commit, mirror), `seed` (mirror first, then
commit: `initializeManagedSection` and `Regenerate` of an unusable file) or
`recover` (restore the validated backup). `EnsureBackup`, `InspectBackup` and
`ReadBackup` are the decisions between replacements. `CreateTemp` to `ReadBack` are
`replaceFileIfUnchanged`, one action per durable step; `ReplaceFails` is every error before
the rename and `ReplaceFailsLate` every error after it, including the rollback.

`pend[p]` is the set of versions a power loss may leave at path `p`: a rename adds
one, a directory sync leaves only the visible one. A version whose bytes were
not synced may come back empty. `Kill` ends the process and keeps the files;
`PowerLoss` also picks a pending version of each. `EditFile` is any other program
writing either file.

Abstractions: changes of owner and mode of the temporary file are one step with
its write (nothing reads it before the rename); a temporary file orphaned by a
kill is not followed further; another program's edit counts as durable at once;
one caller uses the store at a time, which is what the hosts lock is for (where it
fails, the other caller is one of the foreign editors of `store_races`); the
five-second limit of a rollback appears as a failing step of it.

`StoreContract` is the store without foreign edits as others see it. A reader of
the hosts file sees it replaced in one step (`Commit`) and perhaps taken back in
one step (`Undo`); the caller is told which. "ok" means that the replacement is in
place and durable, or that nothing was to be changed; "failed" and "restored"
that bytes, mode and owner are the old ones. A power loss picks one of the
versions not yet settled by a directory sync. Two details the contract makes
visible: a recovery and the seeding of a regenerated file have no rollback ("late"
reports a failure with the new file in place), and an operation that changes
nothing syncs nothing. `Progress` is the mapping: how far the running operation
has got, from its plan, its phase and its next system call.

### MarkerScan

`Markers` defines declaratively when a file has a section; `MarkerScan` is the loop
with its early returns. `HostsStore` uses the declarative form, and the theorem
`ScanIsCorrect` is what justifies that.

### Tracker

`Fail` appends under the write lock, then `EvictRecord` runs once per iteration of
the eviction loop until `FailReturns`. While the lock is held nothing else of the
tracker can run. A handler copies (`Snapshot`), renders the copy later (`Respond`)
and is then free for the next request (`Done`). A record's text is its id.

### Loop

Time is discrete. A timer is `Off` (nil), counts down, or is 0 (its channel is
ready). `Tick` runs while the loop waits and while a reconciliation is under
way; it stands still while a fired timer waits in the `select`, because the loop
is prompt compared with its delays. The stop flags are read once per handler.
The call of `source.Events` is two steps, so that a stop may arrive during it.
A stream is the number of events to read, whether an error waits, and how far
the forwarder has got with closing its channels (errors first, then events).
An event that arrives when `MaxBuffered` events wait is merged with them: any of
them leads to the same reconciliation.

`LoopContract` forgets timers and stream. What is left is what `Run` relies on: one
reconciliation at a time, none begun after a stop, concerns that agree with the
last attempt (a failure that the cancelled context caused leaves them alone),
and a result that names the stop condition.

`changed`, `applied`, `owed`, `calm` are history variables: Docker changed since the
last successful snapshot, that snapshot was applied, how long the oldest
unanswered event has been waiting, and from now on Docker neither changes nor
fails, nor does `Apply`.

### Lifecycle

One process from its start to its exit. The main goroutine goes through
`runDaemonWith` and `Run`: each call that may fail has a failing disjunct, which
`faults` records if it failed of itself and not because its context ended. The
two checks of `startupStop` are two steps, and so are the check before
`CompleteInitialization` and its call, so that the server may die in between. The
serving goroutine returns from `Serve`, stores the error and closes `Done` in
three steps. `Shutdown` is three steps too: the listener is closed, the
connections drain or the time is up, and `Done` is awaited or the time is up.
`errs` has one field per error that is joined in the end.

The recovery concern that a failed `Prepare` records is left out: the tracker is
not ready then and will not be. Of the tracker there is `ready` and, as part of
`LoopContract`, whether a snapshot or apply concern is active.

### EventStream

The Moby client's side: messages numbered in order, an error or the end of either
channel; it gives its error before it closes a channel. The forwarder has one
action per communication: the first `select`, `sourceErrorReady`, each case of the
second `select`, the sends with their cancellation, and the two deferred closes,
last to first. The reader may stop reading at any time. `Close` is called after
the cancellation, as its comment demands and `StreamsCancelled` of `Loop` shows.
`Seen` maps the two channels to the stream of `StreamContract`.

### DockerSnapshot and Render

A container is `Gone` or has settings: per network an IPv4 and an IPv6 address and
aliases. `List` returns the running containers on the configured networks in any
order. `Launch` starts an inspection as far as the limit allows, `Inspect` answers
any one of those under way with what Docker has at that time, or fails.
`Collect` is the rest of `Snapshot` and the rendering of `Apply`. Meanwhile
`DockerChanges` starts, stops and changes containers. `touched`, `existed`, `faulty`
and `lastBody` are history variables.

Names, addresses and networks are numbers in the order of the strings they stand
for; networks are those of a validated configuration. The hostname "alias.network"
is `Qualified[<<alias, network>>]`, any function: nothing is assumed of where it
comes in the order of strings ("a-b" comes before "a.n", though "a" comes before
"a-b"), and it may be another container's alias. `Arrange` is `slices.Sort` and
`slices.SortFunc`: an order of the elements in which nothing comes before a lesser
one, the same whenever the input is the same, and otherwise arbitrary, since
Go's sort is not stable.

### HostsLock

The path of the hosts file is resolved twice. The store opens it as given
(`Opened`): the kernel starts from the working directory and follows every link,
and its `..` is the parent of wherever that led. The lock is named after
`filepath.Abs` (`Locked`): the path is joined to what `os.Getwd` returns, which is
`$PWD` as the shell spells it, and each leading `..` takes off one component of that
spelling, link or not; only then does the kernel resolve the result. A clean path
has `..` at its start only. `Walk` is the kernel, over an arbitrary table of
directories and links (`Enter`); names that lead nowhere lead to `Nowhere`, where
nothing can be opened.

The two agree on every `Straight` path, whose `..` take no symbolic link off `$PWD`:
absolute paths, relative paths without `..`, and all paths if `$PWD` is physical. They
disagree on `../hosts` in `/deep`, a link to `/a/b`: the lock is `/hosts.sdhm.lock`, the
file `/a/hosts`. Links of directories otherwise do not matter. A link in the last
component leads to two locks for one file, but the store refuses to read such a
file (`Read`). Directories and links stay as they are while processes run, and
`$PWD` is taken to be clean.

An operation of the store is its read and its commit; everything
between is `HostsStore`'s.

### Config

A string is a word with or without white space around it; what the code asks of
a word is whether it is blank, whether it holds a forbidden character, whether it
is an address and whether it is "saltbox". A duration is in Go's syntax, a number
of days or neither. Integers have the width `MaxInt` gives them, and the product
with a day wraps around. `Sound` says what options mean without any parsing, and is
what the stages are compared with.

## 3. Runs

| Run | Question | Bounds |
|---|---|---|
| `store_faults` | With nobody else editing, does every failure, cancellation, kill and power loss at every step leave the files as promised? | twenty pairs of hosts file (unmarked, managed with CRLF marker, corrupt, absent, irregular) and backup (corrupt, stale, absent, irregular; the managed file has another owner); two bodies; `MaxVersions` = 2 |
| `store_races` | And while another program rewrites, corrupts or removes the hosts file and corrupts the backup at any point? | one initial pair, four different edits at any time, two bodies; `MaxVersions` = 2 |
| `store_window` | Is every concurrent change of the destination detected? (It is not: expected violation.) | as `store_races` |
| `marker_scan` | Does the loop compute the definition? | every file of up to `MaxLines` = 5 lines over four kinds of line |
| `tracker` | Does eviction keep what answers need, and end? | three concerns, history of two (so that all records can be active), one request at a time against a moving tracker, `MaxFails` = 5 |
| `loop` | Is the loop safe with every order of wake-ups, does it end, and does it converge? | delays of one to three ticks with a cap of 3 that doubling from 1 overshoots; one buffered event |
| `lifecycle` | Is every death, failure and cancellation in any order reported truthfully, with nothing left running? Does the process end? | none: one process, all interleavings |
| `event_stream` | Does the forwarder keep the stream contract, lose nothing, and let `Close` return? | `MaxMessages` = 4, more than the source's channel (`MaxPending` = 1), the forwarder's hand and its own channel hold together |
| `snapshot` | Is a snapshot complete, tolerant, deterministic and safe to write? | three containers, two inspections at a time, two networks, five settings, `MaxChanges` = 2 |
| `hosts_lock` | Is there one writer per hosts file if all paths are `Straight`? | three processes; four paths to one file: absolute, relative to a linked `$PWD`, `..` out of a plain directory below a link, and a symbolic link to the file; every kind of lock file found; `MaxUpdates` = 2 |
| `hosts_lock_pwd` | And if `..` leaves a symbolic link? (No: expected violation.) | two processes, one with the absolute path and one with `../hosts` in a linked `$PWD` |
| `config` | Are exactly the sound options accepted, with their meaning? | lists of up to four names, durations around the largest day count of a 7-bit integer, all pairs of seven paths, ports at their limits |

Why the bounds are enough: two pending versions are what one replacement needs;
more only repeat the case of several failed directory syncs. Five lines hold
both markers, a duplicate of either and a line on each side. With three concerns
and a history of two, eviction meets a full history of active records, and five
failures replace each record at least once. The loop's delays are chosen so that
each timer can be the first, the last and tied with another. Three containers
with two inspections at a time fill the limit and leave one waiting; the settings
include two that tie in network, address and first name, and two changes suffice
to remove a container and to add another within one snapshot. Of three processes
one can hold the lock, one try it and one be killed with it. With a day of ten and
a largest value of 63, six days fit, seven overflow to a negative number, and
thirteen wrap around to a positive one.

What they show:

* **store_faults.** `MirrorOnSuccess`: success means a valid file and an identical
  backup. `BackupStaysValid`: a good backup stays good, across power losses too.
  `NeverTorn`: renamed bytes are on the disk. `RetainedBeforeCommit`: when a valid
  file is about to be replaced, its bytes are in the backup. `UserLinesPreserved`:
  no line outside the managed section is lost. `ImplementsContract`: all of it
  together is one replacement, perhaps taken back, with a result that says so:
  an `Apply` installs exactly the rendered endpoints, a reported success is durable,
  and "failed" and "restored" mean bytes, mode and owner are as before. `TypeOK` here
  says that no file is ever given the zero metadata of a missing one.
* **store_races.** With edits in between: `FailureAtomic`, a failure that is
  reported as such left the hosts file alone, and `NoLostEdit`, what SDHM renames
  over is what it read, except in the window between check and rename.
* **store_window.** The finding: `requireSnapshot` and `Rename` are two system
  calls. An edit between them is overwritten, the operation reports success, and
  the edit is in neither file. The README's "detects concurrent destination
  changes before replacement" holds only up to that window.
* **tracker.** `ActiveRetained` and `ReasonFound`: the record that the answer
  dereferences without a nil check is always there. `HistoryBounded` and
  `LockReleased`: the eviction loop respects the limit, and gives the lock back
  even if nothing can be evicted.
* **loop.** `NeverStranded`: when the loop blocks, the periodic timer runs, the
  stream is connected or its reconnect is scheduled, a failed reconciliation has
  its retry, none of it beyond the longest delay, and no stability timer of a
  stream that is gone is left. `EventAnsweredInTime`: an event storm cannot postpone
  a reconciliation beyond the maximum delay. `HealthTruthful`: the stream's
  concern, and one of the reconciliation's two, is active exactly when the last
  attempt at that failed. `BackoffKept`: the stability timer never vouches for a
  stream whose failure waits to be read. `StreamsCancelled`: at most one stream
  context lives, none after the loop. `ImplementsContract`: to `Run` it is
  `LoopContract`. `LoopEnds`: after cancellation or the server's death the loop
  returns. `Converges`: once Docker is calm and `Apply` no longer fails, the hosts
  file catches up, even if every event about the last change was lost.

* **lifecycle.** `ServerDeathReported`: exactly one error for a server that died,
  whoever noticed. `ResultTruthful`: every reported error is of a call that failed
  of itself (one that the watcher or the caller interrupted did not, and an
  orderly shutdown is not "stopped unexpectedly"), and there is no end without an
  error or a cancellation. `NothingLeaks`: source, listener and watcher are gone
  before the lock is. `ReadyAfterFirstAttempt`: the endpoint, whose tracker starts
  out ready, is never ready between the start of the listener and the first
  complete attempt. `LoopStartsTruthful`: see above. `ProcessEnds`: even while a
  call is blocked that only its context can end.
* **event_stream.** `EventsInOrder`: nothing dropped, doubled or swapped while the
  forwarder runs. `ErrorToldUnlessCancelled`: a stream that ends by itself has told
  Docker's reason. `ImplementsContract`, and `CloseEnds` with a reader that is gone.
* **snapshot.** `SnapshotFaithful`: all endpoints of the containers that were left
  alone, none that never existed, and failure only for a real error.
  `SameDockerSameBody`: the same containers give the same bytes, though
  two endpoints may tie in the renderer's order and the sort is not stable: the
  aliases in `Snapshot`'s order are what makes the input of that sort unique.
  `BodyWellFormed`: no marker line, and every name leads to the address of an
  endpoint that has it, qualified or, on the default network only, bare.
* **hosts_lock.** `OneWriterPerFile` and `SerialUpdates`, for paths that are `Straight`.
* **hosts_lock_pwd.** The finding: with a `..` that leaves a symbolic link in `$PWD`,
  lock and file part, a second process with the file's absolute path takes
  another lock, and both are at work on one file. The README's "Rejects overlapping
  daemon or regeneration processes for the same hosts file" does not hold there.
* **config.** `AcceptsExactlySound`, which includes that the second validation,
  after lock and client exist, never refuses what the first accepted;
  `NetworksAsWritten`; `DurationsExact`.

The modules' type invariants other than `HostsStore`'s are not part of a run: they
are proved (`Tracker`, `Loop`, `Lifecycle`, `EventStream`, `HostsLock`) or part of the
inductive invariant of a proof (`Config`, `DockerSnapshot`).

Deadlock is checked in every run but `marker_scan` and `config`, whose
computations end.

### Fairness

`LockReleased` assumes that the goroutine inside `Fail` runs on: Go's scheduler is
preemptive, and nothing in the eviction loop blocks.

`LoopEnds` and `Converges` assume weak fairness of the loop's goroutine, which also
says that its calls return (Docker calls have a ten-second timeout, and file
operations are taken to return), and of time. Nothing is assumed of the order in
which the `select` picks among ready cases: `loopStop`, first on each iteration,
and the reconciliation timers are enough. Nothing is assumed of
Docker, except where `Converges` says so: from some point on it neither changes
nor fails, and neither does `Apply` (`calm`).

`ProcessEnds` assumes that the three goroutines run on. A call of the store or of
Docker need not return as long as its context lives; once it is cancelled the
call does (Docker's client and `checkContext` observe it). `Ping`, `Start` and
`Shutdown` return: the first and the last have timeouts. `CloseEnds` assumes only that
the forwarder and `Close` run: nobody has to send, to read or to cancel.

## 4. Proofs

The theorems hold for every value of the constants that satisfies the named
assumptions; the runs of section 3 check the same properties on their instances.
Each proof has the same shape: an invariant that is inductive (`InitInv`, one lemma
per action or group of actions, `NextInv`), and a short argument that it implies the
property. The invariants were checked by TLC on the runs' instances before they
were proved.

### HostsStoreProofs

For every set of lines, metadata, bodies, initial files and foreign edits. The
assumptions (`MarkerAssumption`, `StoreAssumption`): rendered bodies hold no marker
lines, initial files and foreign edits are on the disk, and terminating a line
twice is terminating it once.

* `TypeCorrect` (`TypeOK`), `PowerLossAtomicity` (`NeverTorn`), and `BackupPreserved`
  (`BackupStaysValid`, an action property: no step but another program's edit of the
  backup makes a safe backup unsafe).
* `SuccessMirrors` (`MirrorOnSuccess`), `FailureIsAtomic` (`FailureAtomic`),
  `RetainedFirst` (`RetainedBeforeCommit`), `EditsAreKept` (`NoLostEdit`),
  `LinesArePreserved` (`UserLinesPreserved`).
* `Refinement` (`ImplementsContract`), under the hypothesis that no foreign edits are
  configured, as in `store_faults`: the contract is about the store without them.
  All failures, cancellations, kills and power losses are covered.

The first three share the inductive invariant `IInv`. `TypeOK` is not inductive: a
commit takes its metadata from what the operation read, and the type of a
snapshot admits the zero metadata of a missing file. `JobInv` carries what
`ReadHosts` decided through the operation (real metadata; a valid proposal unless
recovering; valid current bytes if they are to be retained), `TxnInv` which plan
leads to which step and that whatever goes to the backup has valid markers,
`TempInv` that at verification and rename the temporary file holds the synced
bytes of the replacement, `SyncInv` that every version of either file is on the
disk. `BackupPreserved` follows: the only rename over the backup installs `temp`,
which is `txn.data`, which is valid; a directory sync and a power loss choose among
versions that were valid already.

The others need a second invariant, `TrackInv`, since what a result says of the
files was decided when the hosts file was read and is made true one replacement
at a time. `PlanInv`: what each operation may have decided, and that the file it
decided on is the one it started with (`base`) unless somebody edited it. `CarryInv`:
what the running replacement expects and writes, in terms of that decision.
`HostsInv`: the hosts file is the one found until the operation has `Committed`, and
the proposal from then on until a rollback has taken it back. `BackupInv`: at a
commit the backup holds what makes it safe. `VerifiedInv`: at the rename the
destination is what was verified, unless the edit hit the window. `DurableInv`: a
commit whose directory was synced stays the only version a power loss can leave.

`LinesArePreserved` rests on lemmas about the text operators: a valid file has one
section (`SectionUnique`), and replacing or appending one leaves what is outside it,
line by line (`ReplaceKeepsOutside`, `AppendKeepsLines`). For the refinement, every
step is a `Commit`, an `Undo`, a `Return`, a crash or a stutter of the contract:
`DecisionRefines`, `RenameRefines`, `FinishRefines` and `CrashRefines` are the steps that
are seen from outside, `InnerStutters` the rest.

### The others

`HostsStoreProofs` also proves `ScanIsCorrect`, `ScanSpec => []ScanCorrect`, for files
of any length: `ScanInv` says that the lines read so far hold no marker but the ones
recorded, so that an early return has met a real duplicate, and the end of the
loop has seen every line.

`TrackerProofs` proves, for any concerns, requests, history limit and number of
failures, `TrackerTypes` (`Spec => []TypeOK`), `ActiveNeverEvicted`
(`Spec => []ActiveRetained`) and `AnswersFindTheirReason` (`Spec => []ReasonFound`).
A request renders a copy that may be older than any number of steps, so the
invariant `IInv` says of every copy what it says of the tracker: its active
concerns have their records, and its ids are at most `nextID`. The bound is what
makes "the newest" exist: the largest member of a bounded set of naturals is
obtained from well-foundedness (`LargestExists`). The only hard step is
`EvictInv`: removing one record keeps every other, wherever it moves to.

`HistoryIsBounded` (`HistoryBounded`) adds that ids grow along the history. Then no two
records share an id, and when the eviction loop gives up above the limit every
record is active: mapping each record to its concern is an injection, so the
history is no longer than the concerns are many.

`EventStreamProofs` proves, for any number of messages and any capacity of the
source's channel, `TypeCorrect`, `OrderKept` (`EventsInOrder`), `NoErrorSwallowed`
(`ErrorToldUnlessCancelled`) and `Refinement` (`Spec => Contract!Spec`). `ReasonInv` is what
the last two need: an error that was given is in the source's channel or in the
forwarder's hands until it is told or the stream cancelled, and a stream that
ends by itself ends because the source has, so that no error can come later.
`OrderInv` is `EventsInOrder` position by position: what was read, what waits, what
is in the forwarder's hand and what is still to be taken form one line
1, 2, 3, ...; each step only moves a boundary in it. For the refinement each
forwarder step is a `Deliver`, `Fail`, `Close` or stutter of the contract.

`DockerSnapshotProofs` proves, for any finite set of containers, any networks,
settings, aliases and `Qualified`, any limit of inspections and any number of changes,
`SnapshotsFaithful` (`SnapshotFaithful`), `SameBodies` (`SameDockerSameBody`) and
`BodiesWellFormed` (`BodyWellFormed`). The first half is what sorting returns:

* `ArrangementExists`: a strict partial order on a finite set has an arrangement, so
  that the `CHOOSE` in `Arrange` means something. Instead of an induction over the
  set, the proof takes the smallest cardinality at which there is none, removes a
  maximal element and arranges the rest (`Least`, `Maximal`).
* `SortForgetsOrder`: sorting two sequences that hold the same elements equally often
  gives the same sequence if the order is total on what is compared. Were one of
  the results less than the other at place k, its first k elements would have to
  stand at k different ones of the other's first k - 1 places (`NowhereLess`).
* `SnapshotOrderTotal`: the three keys of `Snapshot`'s sort (network, address,
  aliases) are total on endpoints: two that tie are equal. The keys of the
  renderer's sort are not (`RenderLessOrder` claims a partial order only), which is
  why `SameBodies` needs the first: the renderer gets the same input, and its
  unstable sort then gives the same output.

The second half is the snapshot under way. `IInv` (`SnapshotInvariant`) adds to the
types: `AnswersTrue`, every answer existed during the snapshot, is still true of an
untouched container, and is a failure only if an inspection failed;
`ListComplete`, the list misses endpoints only of touched containers, and is a
permutation of the attached ones if nothing was touched; `NowExisted`, the history
covers the present; `BodyOfResult`, the body is the result's; `LastBodyCurrent`, the
last body is what some order of the containers *as they are now* would give.
The last is what makes `SameDockerSameBody` provable: the property relates two
snapshots, and nothing of the first is left but its body.

The assumptions (`RenderAssumption`, `SnapshotAssumption`) are types: strings are
compared as numbers, inspections show addresses and aliases for the configured
networks, there is a network, the limit is positive, and the markers for "gone",
"nothing yet" and "failed" are none of the data.

`HostsLockProofs` proves, for any processes, directories, links and lock files,
`TypeCorrect`, and, if all paths are `Straight`, `SingleWriter` (`OneWriterPerFile`) and
`UpdatesSerial` (`SerialUpdates`). Without the hypothesis both are false, as
`hosts_lock_pwd` shows; `OrdinaryPathsStraight` says which paths satisfy it. The first
half is about paths. `Way` is a `CHOOSE`: there is a way over any names, and only one
(`WayExists`, `WayUnique`: a shortest beginning without one, a first place where two
part). `ClimbBack`: climbing from the end of `$PWD` goes back along the way by which
it was entered, and stays at the root. Hence `LockBesideFile`: the lock of a
`Straight` path lies beside the file that the store opens.

The second half is about processes. `HolderInv`: a process past `flock` is the only
holder of its lock. `PlaceInv`: a process at work works on the entry that its path
leads to, not through a link. Together with `LockBesideFile` they exclude two
processes at one file (`StraightExclude`). `BaseInv`: the file is still as the process
has read it; it is not inductive without the others, since the commit of another
process would change the file.

`LoopProofs` proves, for all delays, `TypeCorrect`, `AlwaysWoken` (`NeverStranded`),
`DebounceBounded` (`EventAnsweredInTime`), `HealthIsTruthful` (`HealthTruthful`),
`ContextsCancelled` (`StreamsCancelled`), `BackoffIsKept` (`BackoffKept`) and `Refinement`
(`ImplementsContract`). None of the properties is inductive: each speaks of the
moment the loop blocks, and what makes it true then was set up by a handler
several steps before. `ConnectInv` and `ScheduleInv` follow the obligation to
reconnect and to retry through the steps between; `DebounceInv` is the balance that
bounds the wait of an event: the time it has waited and what is left of the
maximum timer add up to at most the maximum delay; `ConcernInv` says what the
concerns are in the middle of a reconciliation.

`LifecycleProofs` proves `TypeCorrect`, `ServerDeathIsReported` (`ServerDeathReported`),
`ResultIsTruthful` (`ResultTruthful`), `NothingIsLeaked` (`NothingLeaks`), `ReadyIsEarned`
(`ReadyAfterFirstAttempt`) and `LoopStarts` (`LoopStartsTruthful`). `Lifecycle` has no
constants, so that TLC has visited all of its states; the proof gives the reason. The
properties speak of the end, and their causes lie in another goroutine:
`ServerInv` says how the serving goroutine can have ended at each place of `Run`,
`WatcherInv` who can have cancelled the context, `ReportInv` that every error on
record has happened and that a server's death is on record at most once before
`cleanup` looks for it, `StartupInv` that what `startupStop` lets pass has a complete
attempt behind it.

`ConfigProofs` proves, for any options, strings and paths, any width of the
integers and any length of a day, `SoundIsAccepted` (`AcceptsExactlySound`),
`DurationsAreExact` (`DurationsExact`) and `NetworksAreAsWritten` (`NetworksAsWritten`). A
rejection at any stage must be traced to the options, so `IInv` says stage by stage
what is known: `ReadInv` is the loop invariant of `ParseNetworks` (the list holds the
words read so far, each once, in the order of first mention), `ResolvedInv` and
`ParsedInv` are the results of the stages passed, `FixedInv` what is never changed.
`DaysFit` and `WrapFits` are the arithmetic: the bound on the number of days is exact,
and a product within it is left alone by the wrap-around.

### What is only model-checked

* The liveness properties `LockReleased`, `LoopEnds`, `Converges`, `ProcessEnds` and
  `CloseEnds`: liveness under fairness is beyond the provers used here.
* The properties of `store_window` and `hosts_lock_pwd` are violated by the code there,
  and so have nothing to prove.

## 5. Not modelled

* Logging, help texts, flag definitions and exit codes: output and declarative
  glue.
* Timestamps, severities, wording, JSON layout, the padding of the rendered
  columns.
* `failedEventStream` and `Snapshot`'s refusal of an empty list: a validated
  configuration has a network. The nil checks of `daemon.New`: the wiring passes no
  nil. `Server.Addr`: only tests call it.
* Single HTTP requests and connections: net/http's.
* Removal of the lock file by somebody else: nothing in SDHM removes it, and
  `flock` cannot protect against it.
* One backup file shared by daemons of different hosts files, and a hosts file
  and backup that are one file under two spellings: the lock covers neither, and
  no document promises it (see the hazards).

## 6. Plan

Every safety property of every passing run is proved. What is left is to
shorten: the proofs of `HostsStore`'s steps state the effect of a handler once for
`IInv` and once more for `TrackInv`, and could share it.
