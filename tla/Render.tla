------------------------------- MODULE Render -------------------------------
(***************************************************************************)
(* renderEndpoints (hosts/render.go): from a snapshot of endpoints to the  *)
(* managed body of the hosts file.                                         *)
(*                                                                         *)
(* Networks, addresses, aliases and hostnames are numbers, ordered as the  *)
(* code orders the strings; an alias is a hostname too.  An alias may be   *)
(* empty or, if it contains white space, a control character or "#",       *)
(* Delimited.  Joining alias and network is any function: "a-b" may come   *)
(* before "a.n" though "a" comes before "a-b", and the alias "a.n" is the  *)
(* same hostname as the alias "a" on network "n".                          *)
(***************************************************************************)
EXTENDS Integers, Sequences, SequencesExt, FiniteSets

CONSTANTS
  Alias, Network,   \* the names of containers and of networks
  Qualified,        \* Qualified[<<a, n>>]: the hostname "a.n"
  Delimited,        \* the aliases with a character that ends a name or a line
  DefaultNetwork,   \* the network whose aliases are also published bare
  Failed            \* an error in the place of a result

Empty == 0          \* the empty alias
NoIP  == 0          \* the zero netip.Addr

ASSUME RenderAssumption ==
  Alias \subseteq Nat /\ Network \subseteq Nat /\ Qualified \in [Alias \X Network -> Nat]

\* daemon.Endpoint.
Endpoint == [network : Network, ip : Nat, aliases : Seq(Alias)]

(***************************************************************************)
(* slices.Sort and slices.SortFunc: S enumerated so that nothing comes     *)
(* before something less, where less is a set of pairs.  The sort is not   *)
(* stable: elements that tie come in some order, the same for the same     *)
(* input.                                                                  *)
(***************************************************************************)
Arrange(S, less) ==
  CHOOSE f \in [1..Cardinality(S) -> S] :
    /\ IsInjective(f)
    /\ \A i, j \in DOMAIN f : i < j => <<f[j], f[i]>> \notin less

Ascending(S) == Arrange(S, {p \in S \X S : p[1] < p[2]})

\* cmp.Compare of two strings, or slices.Compare: -1, 0 or 1.
Compare(x, y) == IF x < y THEN -1 ELSE IF x > y THEN 1 ELSE 0

LexLess(s, t) ==
  \E i \in 1..Len(t) :
    /\ i <= Len(s) => s[i] < t[i]
    /\ \A j \in 1..(i - 1) : j <= Len(s) /\ s[j] = t[j]

CompareSeq(s, t) == IF LexLess(s, t) THEN -1 ELSE IF LexLess(t, s) THEN 1 ELSE 0

\* cmp.Or of the comparisons cs, as "less".
FirstNonZero(cs) ==
  \E i \in DOMAIN cs : cs[i] < 0 /\ \A j \in 1..(i - 1) : cs[j] = 0

validateHostnamePartNonEmpty(alias) == alias # Empty

validateHostnamePart(alias) == alias # Empty /\ alias \notin Delimited

validateEndpoint(e) ==
  /\ e.ip # NoIP
  /\ e.aliases # <<>>
  /\ \A i \in DOMAIN e.aliases : validateHostnamePart(e.aliases[i])

\* The distinct names of an endpoint, sorted.
hostnames(e) ==
  LET bare == IF e.network = DefaultNetwork THEN ToSet(e.aliases) ELSE {}
  IN  Ascending(bare \cup {Qualified[<<a, e.network>>] : a \in ToSet(e.aliases)})

renderLess(e, f) ==
  FirstNonZero(<<Compare(hostnames(e)[1], hostnames(f)[1]),
                 Compare(e.network, f.network), Compare(e.ip, f.ip)>>)

\* A line of the body.  A delimiter in a name would start something new: at
\* worst a line that reads as a marker.
Line(e) == [ip |-> e.ip, names |-> hostnames(e),
            marker |-> \E i \in DOMAIN e.aliases : e.aliases[i] \in Delimited]

\* The body, or Failed if any endpoint is invalid.
renderEndpoints(endpoints) ==
  IF \E i \in DOMAIN endpoints : ~validateEndpoint(endpoints[i]) THEN Failed
  ELSE LET I     == DOMAIN endpoints
           order == Arrange(I, {p \in I \X I : renderLess(endpoints[p[1]], endpoints[p[2]])})
       IN  [i \in DOMAIN order |-> Line(endpoints[order[i]])]
=============================================================================
