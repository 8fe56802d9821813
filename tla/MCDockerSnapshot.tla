-------------------------- MODULE MCDockerSnapshot --------------------------
(***************************************************************************)
(* Three containers on two networks, m (1) and n (2), for TLC.  The        *)
(* settings include two that share network, address and first hostname,    *)
(* one on both networks with an IPv6 address, duplicate and empty aliases  *)
(* and a name that another has too, one without an address, and one with   *)
(* an alias that the hosts file cannot hold.                               *)
(***************************************************************************)
EXTENDS DockerSnapshot

\* In their order: a, a-b, a-b.m, a-b.n, a.m, a.n, a.n.m, a.n.n, b#, b#.m, b#.n.
MCAlias == {Empty, 1, 2, 6, 9}
MCQualified == [p \in MCAlias \X {1, 2} |->
                  CASE p[1] = Empty -> p[2]
                    [] p[1] = 1 -> 4 + p[2]
                    [] p[1] = 2 -> 2 + p[2]
                    [] p[1] = 6 -> 6 + p[2]
                    [] p[1] = 9 -> 9 + p[2]]

MCNetworks == <<2, 1>>
EP(v4, v6, aliases) == [v4 |-> v4, v6 |-> v6, aliases |-> aliases]
On(n, e) == [m \in {1, 2} |-> IF m = n THEN e ELSE NoEndpoint]

MCSettings == {On(2, EP(1, NoIP, <<1>>)),
               On(2, EP(1, NoIP, <<2, 1>>)),
               [On(1, EP(2, 5, <<1, 0, 1>>)) EXCEPT ![2] = EP(NoIP, 5, <<6>>)],
               On(1, EP(NoIP, NoIP, <<1>>)),
               On(2, EP(3, NoIP, <<9>>))}

\* Nothing tells the containers apart.
Symmetry == Permutations(Container)
=============================================================================
