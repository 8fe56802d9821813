------------------------------ MODULE HostsLock ------------------------------
(***************************************************************************)
(* The lock that keeps SDHM processes off each other's hosts file:         *)
(* acquireHostsLock (cmd/sdhm/hosts_lock.go) and its use by runDaemonWith  *)
(* and regenerateHostsWith (cmd/sdhm/run.go).                              *)
(*                                                                         *)
(* The path of the hosts file is resolved twice, in two ways.  The store   *)
(* opens it as given, and the kernel follows every symbolic link.  The     *)
(* lock is named after filepath.Abs of it, which joins it to $PWD and      *)
(* takes off one component for every "..", link or not.  Both follow the   *)
(* links of directories; neither follows one in the last component, and    *)
(* the store refuses to touch such a hosts file.  Lock files are never     *)
(* removed.  A process that dies loses its lock, as flock has it.          *)
(***************************************************************************)
EXTENDS Naturals, Sequences

CONSTANTS
  Process,
  Dir, Root,   \* the directories, and where absolute paths begin
  Nowhere,     \* in the place of a directory that does not exist
  Name, Up,    \* the names of directories; ".."
  Enter,       \* Enter[<<d, n>>]: where n leads from d, through a link if n is one
  File,        \* the names of hosts files
  LinkTo,      \* LinkTo[e]: e, or another entry if e is a symbolic link to it
  Path,        \* the hosts paths that processes are given, each with its $PWD
  LockFiles,   \* what may lie at the lock's path: "absent", "regular", "fifo", "symlink"
  MaxUpdates   \* bound: updates of the hosts files

Entry == Dir \X File

\* A path is clean (command/root.go): ".." only at its start, and not at the
\* start of an absolute one.  pwd is what os.Getwd returns: a clean $PWD, if
\* that leads to the working directory.
ASSUME HostsLockAssumption ==
  /\ Root \in Dir /\ Nowhere \in Dir \ {Root}
  /\ Enter \in [Dir \X (Name \cup {Up}) -> Dir] /\ Enter[<<Root, Up>>] = Root
  /\ \A n \in Name \cup {Up} : Enter[<<Nowhere, n>>] = Nowhere
  /\ LinkTo \in [Entry -> Entry]
  /\ \A q \in Path : /\ q \in [pwd : Seq(Name), absolute : BOOLEAN, up : Nat,
                               dirs : Seq(Name), file : File]
                     /\ q.absolute => q.up = 0
  /\ LockFiles \subseteq {"absent", "regular", "fifo", "symlink"}
  /\ MaxUpdates \in Nat

-----------------------------------------------------------------------------
\* w leads from d over the names.
IsWay(w, d, names) ==
  w[0] = d /\ \A i \in 1..Len(names) : w[i] = Enter[<<w[i - 1], names[i]>>]

\* The directories through which the kernel comes, and the last of them.
Way(d, names) == CHOOSE w \in [0..Len(names) -> Dir] : IsWay(w, d, names)
Walk(d, names) == Way(d, names)[Len(names)]

\* The entry of the hosts file that the store opens, from the working directory.
Opened == [q \in Path |->
  LET from == IF q.absolute THEN Root ELSE Walk(Root, q.pwd)
  IN  <<Walk(from, [i \in 1..q.up |-> Up] \o q.dirs), q.file>>]

\* filepath.Abs, without the last component.
Abs(q) == IF q.absolute THEN q.dirs
          ELSE SubSeq(q.pwd, 1, Len(q.pwd) - q.up) \o q.dirs

\* The entry beside which the lock file lies.
Locked == [q \in Path |-> <<Walk(Root, Abs(q)), q.file>>]

-----------------------------------------------------------------------------
VARIABLES
  pc,        \* where each process is
  path,      \* the path of the hosts file it was given, and its $PWD
  lockFile,  \* the lock file beside each entry
  holder,    \* holder[e]: the processes with an exclusive flock on it
  content,   \* the version of the file at each entry
  base       \* the version a process's operation has read

vars == <<pc, path, lockFile, holder, content, base>>

Init ==
  /\ pc = [p \in Process |-> "idle"] /\ path \in [Process -> Path]
  /\ lockFile \in [Entry -> LockFiles]
  /\ holder = [e \in Entry |-> {}]
  /\ content = [e \in Entry |-> 0] /\ base = [p \in Process |-> 0]

LockOf(p) == Locked[path[p]]
Target(p) == LinkTo[Opened[path[p]]]

Step(p, from, to) == pc[p] = from /\ pc' = [pc EXCEPT ![p] = to]

-----------------------------------------------------------------------------
\* Either command starts; another process may have been given another path.
Begin(p) ==
  /\ Step(p, "idle", "open") /\ path' \in {[path EXCEPT ![p] = q] : q \in Path}
  /\ UNCHANGED <<lockFile, holder, content, base>>

\* O_CREATE and O_NOFOLLOW: a missing lock file is created, a link refused.
Open(p) ==
  /\ \/ /\ LockOf(p)[1] # Nowhere /\ lockFile[LockOf(p)] # "symlink"
        /\ Step(p, "open", "stat")
        /\ lockFile' = [lockFile EXCEPT ![LockOf(p)] = IF @ = "absent" THEN "regular" ELSE @]
     \/ Step(p, "open", "idle") /\ UNCHANGED lockFile
  /\ UNCHANGED <<path, holder, content, base>>

\* The checks of its type and mode; whatever fails, fail() closes the file.
Stat(p) ==
  /\ \/ Step(p, "stat", "flock") /\ lockFile[LockOf(p)] = "regular"
     \/ Step(p, "stat", "idle")
  /\ UNCHANGED <<path, lockFile, holder, content, base>>

\* LOCK_EX | LOCK_NB: refused while another process holds it.
Flock(p) ==
  /\ \/ /\ Step(p, "flock", "held") /\ holder[LockOf(p)] = {}
        /\ holder' = [holder EXCEPT ![LockOf(p)] = {p}]
     \/ Step(p, "flock", "idle") /\ UNCHANGED holder
  /\ UNCHANGED <<path, lockFile, content, base>>

ReadFollowing(p) ==
  /\ Step(p, "held", "update") /\ Opened[path[p]][1] # Nowhere
  /\ base' = [base EXCEPT ![p] = content[Target(p)]]
  /\ UNCHANGED <<path, lockFile, holder, content>>

ReadOnlyOnce(p) ==
  /\ Step(p, "held", "update") /\ Opened[path[p]][1] # Nowhere
  /\ Target(p) = Opened[path[p]]
  /\ UNCHANGED <<path, lockFile, holder, content, base>>

\* An operation of the store reads the hosts file, unless it is a link.
Read(p) ==
  /\ Step(p, "held", "update") /\ Opened[path[p]][1] # Nowhere
  /\ Target(p) = Opened[path[p]]
  /\ base' = [base EXCEPT ![p] = content[Target(p)]]
  /\ UNCHANGED <<path, lockFile, holder, content>>

\* It commits what it made of it.
Update(p) ==
  /\ Step(p, "update", "held") /\ content[Target(p)] < MaxUpdates
  /\ content' = [content EXCEPT ![Target(p)] = @ + 1]
  /\ UNCHANGED <<path, lockFile, holder, base>>

\* It has nothing to change, or fails.
GiveUp(p) ==
  /\ Step(p, "update", "held")
  /\ UNCHANGED <<path, lockFile, holder, content, base>>

\* joinHostsLockClose, deferred to the very end.
Close(p) ==
  /\ Step(p, "held", "idle")
  /\ holder' = [holder EXCEPT ![LockOf(p)] = @ \ {p}]
  /\ UNCHANGED <<path, lockFile, content, base>>

\* Killed at any point: the kernel closes its files.
Crash(p) ==
  /\ pc[p] # "idle" /\ pc' = [pc EXCEPT ![p] = "idle"]
  /\ holder' = [holder EXCEPT ![LockOf(p)] = @ \ {p}]
  /\ UNCHANGED <<path, lockFile, content, base>>

Next == \E p \in Process :
          \/ Begin(p) \/ Open(p) \/ Stat(p) \/ Flock(p)
          \/ Read(p) \/ Update(p) \/ GiveUp(p) \/ Close(p) \/ Crash(p)

Spec == Init /\ [][Next]_vars

-----------------------------------------------------------------------------
\* Types.
TypeOK ==
  /\ pc \in [Process -> {"idle", "open", "stat", "flock", "held", "update"}]
  /\ path \in [Process -> Path]
  /\ lockFile \in [Entry -> {"absent", "regular", "fifo", "symlink"}]
  /\ holder \in [Entry -> SUBSET Process]
  /\ content \in [Entry -> Nat] /\ base \in [Process -> Nat]

(***************************************************************************)
(* What a path needs for its lock to lie beside the file that it opens: no *)
(* ".." of it takes a symbolic link off $PWD, so that the kernel's ".."    *)
(* leads back to where that component was entered from.                    *)
(***************************************************************************)
Straight(q) ==
  \A i \in 1..Len(q.pwd) : i > Len(q.pwd) - q.up =>
    Enter[<<Way(Root, q.pwd)[i], Up>>] = Way(Root, q.pwd)[i - 1]

(***************************************************************************)
(* src/README.md "Single-Writer Safety": no two live processes work on one *)
(* hosts file at a time, whatever paths they were given for it and whoever *)
(* crashed before.  It holds if every path is Straight, and not otherwise. *)
(***************************************************************************)
OneWriterPerFile ==
  \A p, q \in Process :
    pc[p] = "update" /\ pc[q] = "update" /\ Target(p) = Target(q) => p = q

(***************************************************************************)
(* An operation never overwrites what another SDHM process wrote after it  *)
(* had read the file, if every path is Straight.  This is what lets        *)
(* HostsStore model one caller.                                            *)
(***************************************************************************)
SerialUpdates ==
  [][\A p \in Process : Update(p) => content[Target(p)] = base[p]]_vars
=============================================================================
