----------------------------- MODULE MCHostsLock -----------------------------
(***************************************************************************)
(* A small file system for TLC.  The hosts file is /a/hosts, /a/b/hosts is *)
(* a symbolic link to it, /short is one to /a and /deep one to /a/b.       *)
(***************************************************************************)
EXTENDS HostsLock, TLC

MCEnter == [x \in Dir \X (Name \cup {Up}) |->
              CASE x \in {<<"/", "a">>, <<"/", "short">>, <<"/a/b", Up>>} -> "/a"
                [] x \in {<<"/a", "b">>, <<"/", "deep">>} -> "/a/b"
                [] x \in {<<"/", Up>>, <<"/a", Up>>} -> "/"
                [] OTHER -> Nowhere]
MCLinkTo == [e \in Entry |-> IF e[1] = "/a/b" THEN <<"/a", e[2]>> ELSE e]

AbsolutePath(dirs) ==
  [pwd |-> <<>>, absolute |-> TRUE, up |-> 0, dirs |-> dirs, file |-> "hosts"]
RelativePath(pwd, up) ==
  [pwd |-> pwd, absolute |-> FALSE, up |-> up, dirs |-> <<>>, file |-> "hosts"]

\* /a/hosts, /deep/hosts, hosts in /short, and ../hosts in /short/b.
MCStraightPaths ==
  {AbsolutePath(<<"a">>), AbsolutePath(<<"deep">>),
   RelativePath(<<"short">>, 0), RelativePath(<<"short", "b">>, 1)}

\* /a/hosts, and ../hosts in /deep: the lock is /hosts.sdhm.lock.
MCPathsOutOfLink == {AbsolutePath(<<"a">>), RelativePath(<<"deep">>, 1)}

ASSUME MCStraight == \A q \in MCStraightPaths : Straight(q)
ASSUME MCCrooked == \E q \in MCPathsOutOfLink : ~Straight(q)

\* Nothing tells the processes apart.
Symmetry == Permutations(Process)
=============================================================================
