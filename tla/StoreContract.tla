---------------------------- MODULE StoreContract ----------------------------
(***************************************************************************)
(* What the hosts store promises to whoever reads the hosts file and to    *)
(* its caller, when nobody else edits the file: an operation replaces the  *)
(* file in one step or not at all, may take the replacement back in one    *)
(* step, and its result tells which.  A power loss may bring back a        *)
(* version that was replaced, until success has been reported.             *)
(*                                                                         *)
(* HostsStore is shown to implement it.                                    *)
(***************************************************************************)
EXTENDS Markers

CONSTANTS DefaultMeta, NoSnapshot

VARIABLES
  hosts,    \* the hosts file, as a snapshot
  past,     \* the versions that a power loss may leave
  phase,    \* "idle", "called", "committed" or "undone"
  call,     \* [op, body]: the operation
  old,      \* the hosts file when it was called
  result    \* how it returned

vars == <<hosts, past, phase, call, old, result>>

NoCall == [op |-> "none", body |-> <<>>]

Init ==
  /\ past = {hosts} /\ phase = "idle" /\ call = NoCall /\ old = NoSnapshot /\ result = "none"

\* s is what the operation makes of the old file.
Proposal(s) ==
  /\ s.exists /\ locateMarkers(s.data) = "valid"
  /\ s.meta = IF old.exists THEN old.meta ELSE DefaultMeta
  /\ CASE call.op = "apply" ->
            old.exists /\ ManagedBody(s.data) = call.body /\ Outside(s.data) = Outside(old.data)
       [] call.op = "prepare" ->
            old.exists /\ CASE locateMarkers(old.data) = "valid" -> s = old
                            [] locateMarkers(old.data) = "none" ->
                                 s.data = appendEmptySection(old.data)
                            [] OTHER -> TRUE     \* any valid file: the backup
       [] call.op = "regenerate" -> s.data = freshHostsFile

Call ==
  /\ phase = "idle" /\ phase' = "called" /\ result' = "none" /\ old' = hosts
  /\ UNCHANGED <<hosts, past>>

Commit ==
  /\ phase = "called" /\ phase' = "committed"
  /\ Proposal(hosts') /\ past' = past \cup {hosts'}
  /\ UNCHANGED <<call, old, result>>

Undo ==
  /\ phase = "committed" /\ phase' = "undone"
  /\ call.op # "regenerate" \/ locateMarkers(old.data) = "valid"
  /\ hosts' = old /\ past' = past \cup {old}
  /\ UNCHANGED <<call, old, result>>

Sync ==
  /\ past' = {hosts} /\ UNCHANGED <<hosts, phase, call, old, result>>

Return ==
  /\ phase # "idle" /\ phase' = "idle"
  /\ \/ result' = "ok" /\ phase = "committed" /\ past = {hosts}
     \/ result' = "ok" /\ phase = "called" /\ Proposal(hosts)
     \/ result' \in {"failed", "restored"} /\ phase # "committed" /\ hosts = old
     \/ result' \in {"late", "unmirrored"} /\ phase = "committed"
     \/ result' = "unrestored" /\ phase # "called"
  /\ past' \in {past, {hosts}}
  /\ UNCHANGED <<hosts, call, old>>

\* The process is killed or the machine loses power.
Crash ==
  /\ phase' = "idle" /\ call' = NoCall /\ old' = NoSnapshot /\ result' = "none"
  /\ \/ UNCHANGED <<hosts, past>>
     \/ hosts' \in past /\ past' = {hosts'}

Next == Call \/ Commit \/ Undo \/ Sync \/ Return \/ Crash

Spec == Init /\ [][Next]_vars
=============================================================================
