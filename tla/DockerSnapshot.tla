--------------------------- MODULE DockerSnapshot ---------------------------
(***************************************************************************)
(* Client.Snapshot (docker/client.go) and the body that Apply renders from *)
(* it: list the containers, inspect them concurrently, a limited number at *)
(* a time, collect and sort.  Meanwhile containers come, change and go.    *)
(***************************************************************************)
EXTENDS Render

CONSTANTS
  Container,
  networks,               \* the configured networks, in their order
  Settings,               \* what a running container's inspection may show
  Gone, None,             \* no such container; nothing yet
  maxConcurrentInspects,
  MaxChanges              \* bound: changes of containers

\* Settings map a network to the container's endpoint on it; a container
\* without address, aliases or that network has the zero endpoint there.
NoEndpoint == [v4 |-> NoIP, v6 |-> NoIP, aliases |-> <<>>]

ASSUME SnapshotAssumption ==
  /\ IsFiniteSet(Container) /\ networks \in Seq(Network) /\ networks # <<>>
  /\ maxConcurrentInspects \in Nat \ {0} /\ MaxChanges \in Nat
  /\ \A s \in Settings : /\ DOMAIN s = ToSet(networks)
                         /\ \A n \in DOMAIN s :
                              s[n] \in [v4 : Nat, v6 : Nat, aliases : Seq(Alias)]
  /\ Gone # None /\ Gone # Failed /\ None # Failed
  /\ \A x \in {Gone, None, Failed} : x \notin Settings \cup Seq(Endpoint)

VARIABLES
  docker,      \* the state of each container: its Settings or Gone
  changes,     \* how often a container has changed
  pc,          \* "idle", "list", "inspect"
  listed,      \* listed.Items
  launched,    \* how many inspections have been started
  outcomes,    \* outcomes[i]: None yet, Failed, Gone (not found) or what was found
  result,      \* the last snapshot: its endpoints, or Failed
  body,        \* what renderEndpoints made of it
  touched,     \* history: the containers that changed during this snapshot
  existed,     \* history: endpoints that existed at some time during it
  faulty,      \* history: an inspection failed of itself during it
  lastBody     \* history: the body before, if Docker has not changed since

vars == <<docker, changes, pc, listed, launched, outcomes, result, body,
          touched, existed, faulty, lastBody>>

-----------------------------------------------------------------------------
normalizeAliases(aliases) == Ascending(ToSet(aliases) \ {Empty})

\* IPv4 before IPv6.
EndpointAt(s, n) == [network |-> n,
                     ip      |-> IF s[n].v4 # NoIP THEN s[n].v4 ELSE s[n].v6,
                     aliases |-> normalizeAliases(s[n].aliases)]

\* The endpoints of a container, by the position of their network; no usable
\* address or no alias means no endpoint.
EndpointsOf(s) ==
  LET usable(i) == /\ EndpointAt(s, networks[i]).ip # NoIP
                   /\ EndpointAt(s, networks[i]).aliases # <<>>
  IN  [i \in {k \in DOMAIN networks : usable(k)} |-> EndpointAt(s, networks[i])]

networkOrder(n) == CHOOSE i \in DOMAIN networks :
                     networks[i] = n /\ \A j \in 1..(i - 1) : networks[j] # n

snapshotLessByAddress(e, f) ==
  FirstNonZero(<<networkOrder(e.network) - networkOrder(f.network), Compare(e.ip, f.ip)>>)

snapshotLess(e, f) ==
  FirstNonZero(<<networkOrder(e.network) - networkOrder(f.network), Compare(e.ip, f.ip),
                 CompareSeq(e.aliases, f.aliases)>>)

Running == {c \in Container : docker[c] # Gone}
Endpoints(c) == IF docker[c] = Gone THEN {} ELSE ToSet(EndpointsOf(docker[c]))
AllEndpoints == UNION {Endpoints(c) : c \in Container}

Init ==
  /\ docker \in [Container -> Settings \cup {Gone}] /\ changes = 0
  /\ pc = "idle" /\ listed = <<>> /\ launched = 0 /\ outcomes = <<>>
  /\ result = None /\ body = None
  /\ touched = {} /\ existed = {} /\ faulty = FALSE /\ lastBody = None

-----------------------------------------------------------------------------
Call ==
  /\ pc = "idle" /\ pc' = "list"
  /\ result' = None /\ body' = None
  /\ existed' = AllEndpoints
  /\ UNCHANGED <<docker, changes, listed, launched, outcomes, touched, faulty, lastBody>>

Return(r) ==
  /\ pc' = "idle" /\ listed' = <<>> /\ launched' = 0 /\ outcomes' = <<>>
  /\ result' = r
  /\ body' = IF r = Failed THEN Failed ELSE renderEndpoints(r)
  /\ lastBody' = IF body' = Failed THEN lastBody ELSE IF touched = {} THEN body' ELSE None
  /\ touched' = {} /\ existed' = {} /\ faulty' = FALSE
  /\ UNCHANGED <<docker, changes>>

\* ContainerList with its filter on the networks, in whatever order.
List ==
  /\ pc = "list" /\ pc' = "inspect"
  /\ listed' \in SetToSeqs({c \in Running : \E n \in ToSet(networks) : docker[c][n] # NoEndpoint})
  /\ outcomes' = [i \in DOMAIN listed' |-> None]
  /\ UNCHANGED <<docker, changes, launched, result, body, touched, existed, faulty, lastBody>>

ListFails ==
  /\ pc = "list" /\ Return(Failed)

InFlight == {i \in 1..launched : outcomes[i] = None}

\* inspections.Go blocks while the limit is reached.
Launch ==
  /\ pc = "inspect" /\ launched < Len(listed)
  /\ Cardinality(InFlight) < maxConcurrentInspects
  /\ launched' = launched + 1
  /\ UNCHANGED <<docker, changes, pc, listed, outcomes, result, body, touched, existed,
                 faulty, lastBody>>

\* ContainerInspect answers, in any order.
Inspect(i) ==
  /\ pc = "inspect" /\ i \in InFlight
  /\ \/ outcomes' = [outcomes EXCEPT ![i] = docker[listed[i]]] /\ UNCHANGED faulty
     \/ outcomes' = [outcomes EXCEPT ![i] = Failed] /\ faulty' = TRUE
  /\ UNCHANGED <<docker, changes, pc, listed, launched, result, body, touched, existed,
                 lastBody>>

\* Every endpoint found, sorted: a is the container's place in the list and
\* the network's position.  A container that is not found adds none.
SortedEndpoints(os) ==
  LET found == {i \in DOMAIN os : os[i] # Gone}
      all   == {a \in found \X DOMAIN networks : a[2] \in DOMAIN EndpointsOf(os[a[1]])}
      at(a) == EndpointsOf(os[a[1]])[a[2]]
      order == Arrange(all, {p \in all \X all : snapshotLess(at(p[1]), at(p[2]))})
  IN  [k \in DOMAIN order |-> at(order[k])]

collectStrictly(os) ==
  IF \E i \in DOMAIN os : os[i] \in {Failed, Gone} THEN Failed ELSE SortedEndpoints(os)

\* A container that is not found has gone since the list; any other error ends it.
collect(os) ==
  IF \E i \in DOMAIN os : os[i] = Failed THEN Failed ELSE SortedEndpoints(os)

Collect ==
  /\ pc = "inspect" /\ launched = Len(listed) /\ InFlight = {}
  /\ Return(collect(outcomes))

\* A container starts, stops, or joins or leaves a network.
DockerChanges(c) ==
  /\ changes < MaxChanges /\ changes' = changes + 1
  /\ docker' \in {[docker EXCEPT ![c] = s] : s \in (Settings \cup {Gone}) \ {docker[c]}}
  /\ IF pc = "idle" THEN UNCHANGED <<touched, existed>>
     ELSE touched' = touched \cup {c} /\ existed' = existed \cup Endpoints(c)'
  /\ lastBody' = None
  /\ UNCHANGED <<pc, listed, launched, outcomes, result, body, faulty>>

Next == \/ Call \/ List \/ ListFails \/ Launch \/ Collect
        \/ \E i \in DOMAIN outcomes : Inspect(i)
        \/ \E c \in Container : DockerChanges(c)

Spec == Init /\ [][Next]_vars

-----------------------------------------------------------------------------
Succeeded == result \notin {None, Failed}

(***************************************************************************)
(* README "Discovery", "every publishable endpoint": when a snapshot       *)
(* succeeds, it has every endpoint of the containers that nobody touched   *)
(* meanwhile, and only endpoints that existed at some time during it,      *)
(* whatever came, changed or vanished between the list and the             *)
(* inspections and in whatever order they were answered.  Containers that  *)
(* vanish never make it fail: one that fails after the list has seen an    *)
(* inspection fail of itself.                                              *)
(***************************************************************************)
SnapshotFaithful ==
  [][pc = "inspect" /\ pc' = "idle" =>
       \/ result' = Failed /\ faulty
       \/ /\ Succeeded'
          /\ UNION {Endpoints(c) : c \in Container \ touched} \subseteq ToSet(result')
          /\ ToSet(result') \subseteq existed]_vars

(***************************************************************************)
(* render.go "deterministic managed hosts body": two snapshots of the same *)
(* containers give the same bytes, so that a reconciliation without a      *)
(* change leaves the hosts file alone: neither the order of Docker's list  *)
(* nor two endpoints that share network, address and first name matter.    *)
(***************************************************************************)
SameDockerSameBody ==
  [][pc = "inspect" /\ pc' = "idle" /\ body' # Failed /\ touched = {} /\ lastBody # None =>
       body' = lastBody]_vars

(***************************************************************************)
(* A body that is written contains no marker line, which HostsStore takes  *)
(* for granted.  A name leads to the address of an endpoint that has it:   *)
(* qualified by its network, or bare if that is the default network.       *)
(***************************************************************************)
BodyWellFormed ==
  Succeeded /\ body # Failed =>
    \A i \in DOMAIN body :
      /\ ~body[i].marker
      /\ \A n \in ToSet(body[i].names) : \E e \in ToSet(result) :
           /\ e.ip = body[i].ip
           /\ \E a \in ToSet(e.aliases) :
                \/ n = Qualified[<<a, e.network>>]
                \/ n = a /\ e.network = DefaultNetwork
=============================================================================
