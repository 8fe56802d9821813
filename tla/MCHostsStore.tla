---------------------------- MODULE MCHostsStore ----------------------------
(***************************************************************************)
(* HostsStore for TLC.  "u" and "v" are lines of the user, "u-" is "u"     *)
(* without its newline, "B-cr" the BEGIN marker with a carriage return,    *)
(* "d" a rendered endpoint, "l" the regenerated baseline.                  *)
(***************************************************************************)
EXTENDS HostsStore, FiniteSets

MCTerminate == [l \in Line |-> IF l = "u-" THEN "u" ELSE l]
MCBaseline  == <<"l">>

Unmarked == RegularFile(<<"u-">>, "root")
Managed  == RegularFile(<<"u", "B-cr", "E", "v">>, "other")
Corrupt  == RegularFile(<<"E", "B">>, "root")
Stale    == RegularFile(<<"B", "E">>, "root")

Files(h, b) == [p \in Path |-> IF p = "hosts" THEN h ELSE b]

\* Bound: not more than MaxVersions versions of a path wait for a directory sync.
MaxVersions == 2
FewVersions == \A p \in Path : Cardinality(pend[p]) <= MaxVersions

\* Without foreign edits: every pair of files SDHM may find.
FaultBodies == {<<>>, <<"d">>}
FaultInit   == {Files(h, b) : h \in {Unmarked, Managed, Corrupt, Absent, Irregular},
                              b \in {Corrupt, Stale, Absent, Irregular}}
FaultEdits  == Files({}, {})

\* With foreign edits at every step; all files have one owner.
RaceBodies == {<<>>, <<"d">>}
RaceInit   == {Files(Unmarked, Absent)}
RaceEdits  == Files({[Managed EXCEPT !.meta = "root"], Corrupt, Absent}, {Corrupt})
=============================================================================
