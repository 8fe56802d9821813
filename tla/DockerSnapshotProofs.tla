------------------------ MODULE DockerSnapshotProofs ------------------------
(***************************************************************************)
(* A snapshot is faithful to the containers, two snapshots of the same     *)
(* containers render the same body, and a body contains no marker: for any *)
(* containers, networks and settings and any number of changes.            *)
(***************************************************************************)
EXTENDS DockerSnapshot, FiniteSetTheorems, WellFoundedInduction, TLAPS

-----------------------------------------------------------------------------
(***************************************************************************)
(* Sorting.  Arrange is a CHOOSE: it means something only if a finite set  *)
(* can be arranged.  Under a strict partial order it can.                  *)
(***************************************************************************)
Strict(R, S) ==
  /\ \A x \in S : <<x, x>> \notin R
  /\ \A x, y, z \in S : <<x, y>> \in R /\ <<y, z>> \in R => <<x, z>> \in R

Sorted(f, R) == \A i, j \in DOMAIN f : i < j => <<f[j], f[i]>> \notin R

\* A nonempty set of naturals has a least member.
LEMMA Least ==
  ASSUME NEW S, S \subseteq Nat, S # {}
  PROVE  \E m \in S : \A x \in S : m <= x
<1>1. PICK m \in S : \A x \in S : ~(<<x, m>> \in OpToRel(<, Nat))
  BY WFMin, NatLessThanWellFounded
<1>2. \A x \in S : ~(x < m)
  BY <1>1 DEF OpToRel
<1> QED
  BY <1>2

\* A finite nonempty set has an element that nothing in it is above: one with
\* the fewest elements above it.
LEMMA Maximal ==
  ASSUME NEW S, IsFiniteSet(S), S # {}, NEW R, Strict(R, S)
  PROVE  \E x \in S : \A y \in S : <<x, y>> \notin R
<1> DEFINE Above(x) == {y \in S : <<x, y>> \in R}
           Counts   == {Cardinality(Above(x)) : x \in S}
<1>1. \A x \in S : IsFiniteSet(Above(x)) /\ Cardinality(Above(x)) \in Nat
  BY FS_Subset, FS_CardinalityType
<1>2. Counts \subseteq Nat /\ Counts # {}
  BY <1>1
<1>3. PICK m \in Counts : \A n \in Counts : m <= n
  <2> HIDE DEF Counts
  <2> QED
    BY <1>2, Least
<1>4. PICK x \in S : m = Cardinality(Above(x))
  OBVIOUS
<1>5. ASSUME NEW y \in S, <<x, y>> \in R PROVE FALSE
  <2>1. Above(y) \subseteq Above(x) /\ y \in Above(x) /\ y \notin Above(y)
    BY <1>5 DEF Strict
  <2>2. Above(x) # Above(y)
    BY <2>1
  <2>3. /\ Cardinality(Above(y)) <= Cardinality(Above(x))
        /\ Cardinality(Above(x)) # Cardinality(Above(y))
    <3> HIDE DEF Above
    <3> QED
      BY <1>1, <2>1, <2>2, FS_Subset
  <2>4. m <= Cardinality(Above(y))
    BY <1>3
  <2> HIDE DEF Above
  <2> QED
    BY <1>1, <1>4, <2>3, <2>4
<1> QED
  BY <1>5

Arrangement(f, S, R) ==
  f \in [1..Cardinality(S) -> S] /\ IsInjective(f) /\ Sorted(f, R)

\* Every finite set can be arranged: a maximal element last, the others before.
LEMMA ArrangementExists ==
  ASSUME NEW S, IsFiniteSet(S), NEW R, Strict(R, S)
  PROVE  \E f : Arrangement(f, S, R)
<1> DEFINE Bad == {n \in Nat : \E T \in SUBSET S :
                     Cardinality(T) = n /\ ~\E f : Arrangement(f, T, R)}
<1> SUFFICES ASSUME ~\E f : Arrangement(f, S, R) PROVE FALSE
  OBVIOUS
<1>1. Bad # {} /\ Bad \subseteq Nat
  BY FS_CardinalityType
<1>2. PICK n \in Bad : \A k \in Bad : n <= k
  <2> HIDE DEF Bad
  <2> QED
    BY <1>1, Least
<1>3. PICK T \in SUBSET S : Cardinality(T) = n /\ ~\E f : Arrangement(f, T, R)
  OBVIOUS
<1>4. IsFiniteSet(T) /\ n \in Nat
  BY FS_Subset
<1>5. T # {}
  <2> SUFFICES ASSUME T = {} PROVE FALSE
    OBVIOUS
  <2>1. Cardinality(T) = 0
    BY FS_EmptySet
  <2>2. Arrangement([i \in {} |-> i], T, R)
    BY <2>1 DEF Arrangement, IsInjective, Sorted
  <2> QED
    BY <1>3, <2>2
<1>6. PICK x \in T : \A y \in T : <<x, y>> \notin R
  <2>1. Strict(R, T)
    BY DEF Strict
  <2> QED
    BY <1>4, <1>5, <2>1, Maximal
<1> DEFINE U == T \ {x}
<1>7. Cardinality(U) = n - 1 /\ n - 1 \in Nat
  <2>1. Cardinality(U) = n - 1 /\ IsFiniteSet(U)
    BY <1>3, <1>4, FS_RemoveElement
  <2>2. Cardinality(U) \in Nat
    BY <2>1, FS_CardinalityType
  <2> QED
    BY <2>1, <2>2
<1>8. n - 1 \notin Bad
  BY <1>2, <1>4
<1>9. PICK f : Arrangement(f, U, R)
  BY <1>7, <1>8
<1> DEFINE g == [i \in 1..n |-> IF i = n THEN x ELSE f[i]]
<1>10. f \in [1..(n - 1) -> U] /\ IsInjective(f) /\ Sorted(f, R)
  BY <1>7, <1>9 DEF Arrangement
<1>11. \A i \in 1..n : i # n => i \in 1..(n - 1)
  BY <1>4
<1>12. g \in [1..n -> T]
  BY <1>10, <1>11
<1>13. IsInjective(g)
  BY <1>10, <1>11 DEF IsInjective
<1>14. Sorted(g, R)
  <2> SUFFICES ASSUME NEW i \in 1..n, NEW j \in 1..n, i < j PROVE <<g[j], g[i]>> \notin R
    BY DEF Sorted
  <2>1. i \in 1..(n - 1) /\ g[i] = f[i] /\ f[i] \in T
    BY <1>4, <1>10, <1>11
  <2>2. CASE j = n
    BY <1>6, <2>1, <2>2
  <2>3. CASE j # n
    BY <1>10, <1>11, <2>1, <2>3 DEF Sorted
  <2> QED
    BY <2>2, <2>3
<1> QED
  BY <1>3, <1>12, <1>13, <1>14 DEF Arrangement

\* Arrange yields an arrangement, and it leaves nothing of the set out.
LEMMA ArrangeWorks ==
  ASSUME NEW S, IsFiniteSet(S), NEW R, Strict(R, S)
  PROVE  /\ Arrange(S, R) \in [1..Cardinality(S) -> S]
         /\ Cardinality(S) \in Nat
         /\ IsInjective(Arrange(S, R))
         /\ Sorted(Arrange(S, R), R)
         /\ \A x \in S : \E i \in 1..Cardinality(S) : Arrange(S, R)[i] = x
<1>1. Arrangement(Arrange(S, R), S, R)
  <2>1. \E f : Arrangement(f, S, R)
    BY ArrangementExists
  <2> QED
    BY <2>1, Zenon DEF Arrange, Arrangement, Sorted
<1>2. Cardinality(S) \in Nat
  BY FS_CardinalityType
<1> DEFINE f == Arrange(S, R)
           n == Cardinality(S)
<1>3. f \in Injection(1..n, S)
  BY <1>1 DEF Arrangement, Injection
<1>4. Cardinality(1..n) = n
  BY <1>2, FS_Interval
<1>5. f \in Surjection(1..n, S)
  BY <1>3, <1>4, FS_Injection
<1> QED
  BY <1>1, <1>2, <1>5 DEF Arrangement, Surjection

Total(R, S) == \A x, y \in S : x = y \/ <<x, y>> \in R \/ <<y, x>> \in R

\* Of two sorted sequences, one of which has every element of the other, the
\* first is nowhere less: it would need k places among the first k - 1.
LEMMA NowhereLess ==
  ASSUME NEW n \in Nat, NEW E, NEW R, Strict(R, E), Total(R, E),
         NEW s \in [1..n -> E], NEW t \in [1..n -> E], Sorted(s, R), Sorted(t, R),
         NEW g \in [1..n -> 1..n], IsInjective(g), \A i \in 1..n : t[g[i]] = s[i],
         NEW k \in 1..n
  PROVE  <<s[k], t[k]>> \notin R
<1> SUFFICES ASSUME <<s[k], t[k]>> \in R PROVE FALSE
  OBVIOUS
<1>1. ASSUME NEW i \in 1..k PROVE g[i] \in 1..(k - 1)
  <2>1. i \in 1..n /\ g[i] \in 1..n /\ s[i] \in E /\ s[k] \in E /\ t[k] \in E
    OBVIOUS
  <2>2. <<s[k], s[i]>> \notin R
    BY <2>1 DEF Sorted, Strict
  <2> SUFFICES ASSUME ~(g[i] < k) PROVE FALSE
    BY <2>1
  <2>3. g[i] = k \/ k < g[i]
    BY <2>1
  <2>4. <<t[g[i]], t[k]>> \notin R
    BY <2>1, <2>3 DEF Sorted, Strict
  <2>5. s[i] = t[k] \/ <<t[k], s[i]>> \in R
    BY <2>1, <2>4 DEF Total
  <2> QED
    BY <2>1, <2>2, <2>5 DEF Strict
<1> DEFINE h == [i \in 1..k |-> g[i]]
<1>2. h \in [1..k -> 1..(k - 1)]
  BY <1>1
<1>3. /\ IsFiniteSet(1..k) /\ IsFiniteSet(1..(k - 1))
      /\ Cardinality(1..(k - 1)) = k - 1 /\ Cardinality(1..k) = k
  <2>1. k \in Int /\ k - 1 \in Int /\ 1 \in Int /\ k >= 1
    OBVIOUS
  <2>2. IsFiniteSet(1..k) /\ Cardinality(1..k) = k
    BY <2>1, FS_Interval
  <2>3. IsFiniteSet(1..(k - 1)) /\ Cardinality(1..(k - 1)) = k - 1
    <3>1. Cardinality(1..(k - 1)) = IF 1 > k - 1 THEN 0 ELSE (k - 1) - 1 + 1
      BY <2>1, FS_Interval
    <3> QED
      BY <2>1, <3>1, FS_Interval
  <2> QED
    BY <2>1, <2>2, <2>3
<1>4. h \in Injection(1..k, 1..(k - 1))
  <2>1. \A i \in 1..k : i \in 1..n
    OBVIOUS
  <2> QED
    BY <1>2, <2>1 DEF Injection, IsInjective
<1>5. Cardinality(1..k) <= Cardinality(1..(k - 1))
  <2> HIDE DEF h
  <2> QED
    BY <1>3, <1>4, FS_Injection
<1> QED
  BY <1>3, <1>5

(***************************************************************************)
(* A sort by a total order forgets the order of its input: two finite sets *)
(* of places that hold the same values, each as often, give one sequence.  *)
(***************************************************************************)
LEMMA SortForgetsOrder ==
  ASSUME NEW E, NEW R, Strict(R, E), Total(R, E),
         NEW A, IsFiniteSet(A), NEW va \in [A -> E],
         NEW B, IsFiniteSet(B), NEW vb \in [B -> E],
         NEW phi \in Bijection(A, B), \A a \in A : vb[phi[a]] = va[a],
         NEW RA, \A x, y \in A : <<x, y>> \in RA <=> <<va[x], va[y]>> \in R,
         NEW RB, \A x, y \in B : <<x, y>> \in RB <=> <<vb[x], vb[y]>> \in R
  PROVE  [k \in DOMAIN Arrange(A, RA) |-> va[Arrange(A, RA)[k]]] =
         [k \in DOMAIN Arrange(B, RB) |-> vb[Arrange(B, RB)[k]]]
<1> DEFINE n  == Cardinality(A)
           fa == Arrange(A, RA)
           fb == Arrange(B, RB)
           s  == [k \in 1..n |-> va[fa[k]]]
           t  == [k \in 1..n |-> vb[fb[k]]]
<1>1. phi \in [A -> B] /\ IsInjective(phi) /\ \A b \in B : \E a \in A : phi[a] = b
  BY DEF Bijection, Injection, Surjection
<1>2. Cardinality(B) = n
  BY FS_Bijection DEF ExistsBijection
<1>3. Strict(RA, A) /\ Strict(RB, B)
  BY DEF Strict
<1>4. /\ n \in Nat
      /\ fa \in [1..n -> A] /\ IsInjective(fa) /\ Sorted(fa, RA)
      /\ \A a \in A : \E i \in 1..n : fa[i] = a
  BY <1>3, ArrangeWorks
<1>5. /\ fb \in [1..n -> B] /\ IsInjective(fb) /\ Sorted(fb, RB)
      /\ \A b \in B : \E i \in 1..n : fb[i] = b
  BY <1>2, <1>3, ArrangeWorks
<1> HIDE DEF n, fa, fb
<1>6. s \in [1..n -> E] /\ t \in [1..n -> E]
  BY <1>4, <1>5
<1>7. Sorted(s, R)
  <2> SUFFICES ASSUME NEW i \in 1..n, NEW j \in 1..n, i < j PROVE <<va[fa[j]], va[fa[i]]>> \notin R
    BY DEF Sorted
  <2>1. fa[i] \in A /\ fa[j] \in A /\ <<fa[j], fa[i]>> \notin RA
    BY <1>4 DEF Sorted
  <2> QED
    BY <2>1
<1>8. Sorted(t, R)
  <2> SUFFICES ASSUME NEW i \in 1..n, NEW j \in 1..n, i < j PROVE <<vb[fb[j]], vb[fb[i]]>> \notin R
    BY DEF Sorted
  <2>1. fb[i] \in B /\ fb[j] \in B /\ <<fb[j], fb[i]>> \notin RB
    BY <1>5 DEF Sorted
  <2> QED
    BY <2>1
<1> DEFINE g == [i \in 1..n |-> CHOOSE j \in 1..n : fb[j] = phi[fa[i]]]
           h == [j \in 1..n |-> CHOOSE i \in 1..n : phi[fa[i]] = fb[j]]
<1>9. \A i \in 1..n : g[i] \in 1..n /\ fb[g[i]] = phi[fa[i]]
  BY <1>1, <1>4, <1>5
<1>10. \A j \in 1..n : h[j] \in 1..n /\ phi[fa[h[j]]] = fb[j]
  <2> SUFFICES ASSUME NEW j \in 1..n PROVE \E i \in 1..n : phi[fa[i]] = fb[j]
    OBVIOUS
  <2>1. PICK a \in A : phi[a] = fb[j]
    BY <1>1, <1>5
  <2>2. PICK i \in 1..n : fa[i] = a
    BY <1>4
  <2> QED
    BY <2>1, <2>2
<1> HIDE DEF g, h
<1>11. g \in [1..n -> 1..n] /\ h \in [1..n -> 1..n]
  BY <1>9, <1>10 DEF g, h
<1>12. IsInjective(g)
  <2> SUFFICES ASSUME NEW i \in 1..n, NEW j \in 1..n, g[i] = g[j] PROVE i = j
    BY <1>11 DEF IsInjective
  <2>1. phi[fa[i]] = phi[fa[j]]
    BY <1>9
  <2>2. fa[i] = fa[j]
    BY <1>1, <1>4, <2>1 DEF IsInjective
  <2> QED
    BY <1>4, <2>2 DEF IsInjective
<1>13. IsInjective(h)
  <2> SUFFICES ASSUME NEW i \in 1..n, NEW j \in 1..n, h[i] = h[j] PROVE i = j
    BY <1>11 DEF IsInjective
  <2>1. fb[i] = fb[j]
    BY <1>10
  <2> QED
    BY <1>5, <2>1 DEF IsInjective
<1>14. \A i \in 1..n : t[g[i]] = s[i]
  BY <1>4, <1>5, <1>9
<1>15. \A i \in 1..n : s[h[i]] = t[i]
  <2> SUFFICES ASSUME NEW i \in 1..n PROVE va[fa[h[i]]] = vb[fb[i]]
    BY <1>10
  <2>1. h[i] \in 1..n /\ fa[h[i]] \in A
    BY <1>4, <1>10
  <2> QED
    BY <1>10, <2>1
<1> HIDE DEF s, t
<1>16. ASSUME NEW k \in 1..n PROVE s[k] = t[k]
  <2>1. <<s[k], t[k]>> \notin R
    BY <1>4, <1>6, <1>7, <1>8, <1>11, <1>12, <1>14, NowhereLess
  <2>2. <<t[k], s[k]>> \notin R
    BY <1>4, <1>6, <1>7, <1>8, <1>11, <1>13, <1>15, NowhereLess
  <2> QED
    BY <1>6, <2>1, <2>2 DEF Total
<1>17. s = t
  <2>1. DOMAIN s = 1..n /\ DOMAIN t = 1..n
    BY DEF s, t
  <2>2. s = [k \in 1..n |-> s[k]] /\ t = [k \in 1..n |-> t[k]]
    BY DEF s, t
  <2>3. [k \in 1..n |-> s[k]] = [k \in 1..n |-> t[k]]
    BY <1>16, Zenon
  <2> QED
    BY <2>2, <2>3, Zenon
<1> QED
  BY <1>4, <1>5, <1>17 DEF s, t, fa, fb

-----------------------------------------------------------------------------
(***************************************************************************)
(* The comparisons are orders.                                             *)
(***************************************************************************)
LEMMA LexIrreflexive ==
  ASSUME NEW s \in Seq(Nat)
  PROVE  ~LexLess(s, s)
  BY DEF LexLess

LEMMA LexTransitive ==
  ASSUME NEW s \in Seq(Nat), NEW t \in Seq(Nat), NEW u \in Seq(Nat),
         LexLess(s, t), LexLess(t, u)
  PROVE  LexLess(s, u)
<1>0. /\ Len(s) \in Nat /\ Len(t) \in Nat /\ Len(u) \in Nat
      /\ \A i \in 1..Len(s) : s[i] \in Nat
      /\ \A i \in 1..Len(t) : t[i] \in Nat
      /\ \A i \in 1..Len(u) : u[i] \in Nat
  OBVIOUS
<1>1. PICK i \in 1..Len(t) : /\ i <= Len(s) => s[i] < t[i]
                             /\ \A j \in 1..(i - 1) : j <= Len(s) /\ s[j] = t[j]
  BY DEF LexLess
<1>2. PICK k \in 1..Len(u) : /\ k <= Len(t) => t[k] < u[k]
                             /\ \A j \in 1..(k - 1) : j <= Len(t) /\ t[j] = u[j]
  BY DEF LexLess
<1>3. CASE i < k
  <2>1. i \in 1..Len(u) /\ t[i] = u[i] /\ \A j \in 1..(i - 1) : j \in 1..(k - 1)
    BY <1>0, <1>2, <1>3
  <2>2. (i <= Len(s) => s[i] < u[i]) /\ \A j \in 1..(i - 1) : j <= Len(s) /\ s[j] = u[j]
    BY <1>1, <1>2, <2>1
  <2> QED
    BY <2>1, <2>2 DEF LexLess
<1>4. CASE k < i
  <2>1. k <= Len(s) /\ s[k] = t[k] /\ k <= Len(t) /\ \A j \in 1..(k - 1) : j \in 1..(i - 1)
    BY <1>0, <1>1, <1>4
  <2>2. s[k] < u[k] /\ \A j \in 1..(k - 1) : j <= Len(s) /\ s[j] = u[j]
    BY <1>1, <1>2, <2>1
  <2> QED
    BY <2>2 DEF LexLess
<1>5. CASE i = k
  <2>1. i <= Len(s) => s[i] < u[i]
    <3>1. t[i] < u[i] /\ t[i] \in Nat /\ u[i] \in Nat
      BY <1>0, <1>2, <1>5
    <3>2. ASSUME i <= Len(s) PROVE s[i] < t[i] /\ s[i] \in Nat
      BY <1>0, <1>1, <3>2
    <3>3. \A x, y, z \in Nat : x < y /\ y < z => x < z
      OBVIOUS
    <3> QED
      BY <3>1, <3>2, <3>3, Zenon
  <2>2. \A j \in 1..(i - 1) : j <= Len(s) /\ s[j] = u[j]
    BY <1>1, <1>2, <1>5
  <2> QED
    BY <1>5, <2>1, <2>2 DEF LexLess
<1> QED
  BY <1>0, <1>3, <1>4, <1>5

\* At the first difference, or where the shorter of the two ends.
LEMMA LexTotal ==
  ASSUME NEW s \in Seq(Nat), NEW t \in Seq(Nat), s # t
  PROVE  LexLess(s, t) \/ LexLess(t, s)
<1>0. /\ Len(s) \in Nat /\ Len(t) \in Nat
      /\ DOMAIN s = 1..Len(s) /\ DOMAIN t = 1..Len(t)
      /\ \A i \in 1..Len(s) : s[i] \in Nat
      /\ \A i \in 1..Len(t) : t[i] \in Nat
  OBVIOUS
<1> DEFINE Differ == {i \in Nat : i \in 1..Len(s) /\ i \in 1..Len(t) /\ s[i] # t[i]}
<1>1. CASE Differ # {}
  <2>1. PICK i \in Differ : \A j \in Differ : i <= j
    <3>1. Differ \subseteq Nat
      OBVIOUS
    <3> HIDE DEF Differ
    <3> QED
      BY <1>1, <3>1, Least
  <2>2. i \in 1..Len(s) /\ i \in 1..Len(t) /\ s[i] # t[i]
    BY <2>1
  <2>3. \A j \in 1..(i - 1) : j \in 1..Len(s) /\ j \in 1..Len(t) /\ j \notin Differ
    BY <1>0, <2>1, <2>2
  <2>4. \A j \in 1..(i - 1) : j <= Len(s) /\ j <= Len(t) /\ s[j] = t[j]
    BY <1>0, <2>3
  <2>5. s[i] < t[i] \/ t[i] < s[i]
    BY <1>0, <2>2
  <2> QED
    BY <2>2, <2>4, <2>5 DEF LexLess
<1>2. CASE Differ = {}
  <2>1. ASSUME NEW i \in 1..Len(s), i \in 1..Len(t) PROVE s[i] = t[i]
    <3>1. i \notin Differ
      BY <1>2, Zenon
    <3>2. i \in Nat
      BY <1>0
    <3> QED
      BY <2>1, <3>1, <3>2
  <2>2. Len(s) # Len(t)
    <3> SUFFICES ASSUME Len(s) = Len(t) PROVE s = t
      OBVIOUS
    <3> QED
      BY <1>0, <2>1
  <2> HIDE DEF Differ
  <2>3. CASE Len(s) < Len(t)
    <3>1. Len(s) + 1 \in 1..Len(t) /\ ~(Len(s) + 1 <= Len(s))
      BY <1>0, <2>3
    <3>2. \A j \in 1..((Len(s) + 1) - 1) : j <= Len(s) /\ s[j] = t[j]
      BY <1>0, <2>1, <2>3
    <3> QED
      BY <3>1, <3>2 DEF LexLess
  <2>4. CASE Len(t) < Len(s)
    <3>1. Len(t) + 1 \in 1..Len(s) /\ ~(Len(t) + 1 <= Len(t))
      BY <1>0, <2>4
    <3>2. \A j \in 1..((Len(t) + 1) - 1) : j <= Len(t) /\ t[j] = s[j]
      BY <1>0, <2>1, <2>4
    <3> QED
      BY <3>1, <3>2 DEF LexLess
  <2>5. Len(s) < Len(t) \/ Len(t) < Len(s)
    <3>1. \A m, n \in Nat : m # n => m < n \/ n < m
      OBVIOUS
    <3> QED
      BY <1>0, <2>2, <3>1, Zenon
  <2> QED
    BY <2>3, <2>4, <2>5
<1> QED
  BY <1>1, <1>2

LEMMA CompareIsOrder ==
  ASSUME NEW x \in Int, NEW y \in Int
  PROVE  /\ Compare(x, y) \in Int
         /\ Compare(x, y) < 0 <=> x < y
         /\ Compare(x, y) = 0 <=> x = y
  BY DEF Compare

LEMMA CompareSeqIsOrder ==
  ASSUME NEW s \in Seq(Nat), NEW t \in Seq(Nat)
  PROVE  /\ CompareSeq(s, t) \in Int
         /\ CompareSeq(s, t) < 0 <=> LexLess(s, t)
         /\ CompareSeq(s, t) = 0 <=> s = t
<1>1. s = t => ~LexLess(s, t) /\ ~LexLess(t, s)
  BY LexIrreflexive
<1>2. s # t => LexLess(s, t) \/ LexLess(t, s)
  BY LexTotal
<1> QED
  BY <1>1, <1>2 DEF CompareSeq

LEMMA FirstOfThree ==
  ASSUME NEW a \in Int, NEW b \in Int, NEW c \in Int
  PROVE  FirstNonZero(<<a, b, c>>) <=>
           \/ a < 0
           \/ a = 0 /\ b < 0
           \/ a = 0 /\ b = 0 /\ c < 0
<1> DEFINE cs == <<a, b, c>>
<1>1. DOMAIN cs = 1..3 /\ cs[1] = a /\ cs[2] = b /\ cs[3] = c
  OBVIOUS
<1> HIDE DEF cs
<1>2. FirstNonZero(cs) <=> \E i \in 1..3 : cs[i] < 0 /\ \A j \in 1..(i - 1) : cs[j] = 0
  BY <1>1 DEF FirstNonZero
<1>3. 1..3 = {1, 2, 3} /\ 1..(1 - 1) = {} /\ 1..(2 - 1) = {1} /\ 1..(3 - 1) = {1, 2}
  OBVIOUS
<1>4. FirstNonZero(cs) <=> \/ a < 0
                           \/ a = 0 /\ b < 0
                           \/ a = 0 /\ b = 0 /\ c < 0
  BY <1>1, <1>2, <1>3
<1> QED
  BY <1>4 DEF cs

\* The places a network has in the order, and that they tell networks apart.
LEMMA NetworkOrderWorks ==
  ASSUME NEW n \in ToSet(networks)
  PROVE  networkOrder(n) \in Nat /\ networkOrder(n) \in DOMAIN networks
         /\ networks[networkOrder(n)] = n
<1> DEFINE At == {i \in Nat : i \in DOMAIN networks /\ networks[i] = n}
<1>1. networks \in Seq(Network) /\ DOMAIN networks = 1..Len(networks) /\ Len(networks) \in Nat
  BY SnapshotAssumption
<1>2. At # {} /\ At \subseteq Nat
  BY <1>1 DEF ToSet
<1>3. PICK i \in At : \A j \in At : i <= j
  <2> HIDE DEF At
  <2> QED
    BY <1>2, Least
<1>4. i \in DOMAIN networks /\ networks[i] = n /\ i \in Nat
  BY <1>3
<1>5. \A j \in 1..(i - 1) : j \in DOMAIN networks /\ j \notin At /\ j \in Nat
  BY <1>1, <1>3, <1>4
<1>6. \A j \in 1..(i - 1) : networks[j] # n
  BY <1>5
<1>7. \E k \in DOMAIN networks : networks[k] = n /\ \A j \in 1..(k - 1) : networks[j] # n
  BY <1>4, <1>6
<1>8. networkOrder(n) \in DOMAIN networks /\ networks[networkOrder(n)] = n
  <2> HIDE DEF At
  <2> QED
    BY <1>7, Zenon DEF networkOrder
<1> QED
  BY <1>1, <1>8

LEMMA FunctionIsSeq ==
  ASSUME NEW X, NEW Y, Y \subseteq X, NEW n \in Nat, NEW f \in [1..n -> Y]
  PROVE  f \in Seq(X) /\ Len(f) = n
  OBVIOUS

LEMMA AliasesComparable == Seq(Alias) \subseteq Seq(Nat)
<1> SUFFICES ASSUME NEW s \in Seq(Alias) PROVE s \in Seq(Nat)
  OBVIOUS
<1>1. Len(s) \in Nat /\ s \in [1..Len(s) -> Alias]
  OBVIOUS
<1>2. Alias \subseteq Nat
  BY RenderAssumption
<1>3. s \in [1..Len(s) -> Nat]
  BY <1>1, <1>2
<1> QED
  BY <1>1, <1>3, FunctionIsSeq

\* An endpoint of a configured network.
Known == {e \in Endpoint : e.network \in ToSet(networks)}

LEMMA SnapshotLessMeans ==
  ASSUME NEW e \in Known, NEW f \in Known
  PROVE  snapshotLess(e, f) <=>
           \/ networkOrder(e.network) < networkOrder(f.network)
           \/ e.network = f.network /\ e.ip < f.ip
           \/ e.network = f.network /\ e.ip = f.ip /\ LexLess(e.aliases, f.aliases)
<1> DEFINE a == networkOrder(e.network) - networkOrder(f.network)
           b == Compare(e.ip, f.ip)
           c == CompareSeq(e.aliases, f.aliases)
<1>1. /\ e.network \in ToSet(networks) /\ f.network \in ToSet(networks)
      /\ e.ip \in Int /\ f.ip \in Int /\ e.aliases \in Seq(Nat) /\ f.aliases \in Seq(Nat)
  BY AliasesComparable DEF Known, Endpoint
<1>2. /\ networkOrder(e.network) \in Nat /\ networkOrder(f.network) \in Nat
      /\ networkOrder(e.network) = networkOrder(f.network) <=> e.network = f.network
  BY <1>1, NetworkOrderWorks
<1>3. /\ a \in Int
      /\ a < 0 <=> networkOrder(e.network) < networkOrder(f.network)
      /\ a = 0 <=> e.network = f.network
  BY <1>2
<1>4. b \in Int /\ (b < 0 <=> e.ip < f.ip) /\ (b = 0 <=> e.ip = f.ip)
  BY <1>1, CompareIsOrder
<1>5. c \in Int /\ (c < 0 <=> LexLess(e.aliases, f.aliases))
  BY <1>1, CompareSeqIsOrder
<1> HIDE DEF a, b, c
<1>6. FirstNonZero(<<a, b, c>>) <=> \/ a < 0
                                    \/ a = 0 /\ b < 0
                                    \/ a = 0 /\ b = 0 /\ c < 0
  BY <1>3, <1>4, <1>5, FirstOfThree
<1>7. snapshotLess(e, f) <=> FirstNonZero(<<a, b, c>>)
  BY DEF snapshotLess, a, b, c
<1> QED
  BY <1>3, <1>4, <1>5, <1>6, <1>7, Zenon

SnapshotOrder == {p \in Known \X Known : snapshotLess(p[1], p[2])}

(***************************************************************************)
(* The comparison of Snapshot's sort is a total order of the endpoints:    *)
(* only equal ones tie, so the sort determines the result.                 *)
(***************************************************************************)
LEMMA SnapshotOrderTotal == Strict(SnapshotOrder, Known) /\ Total(SnapshotOrder, Known)
<1>0. \A e, f \in Known : <<e, f>> \in SnapshotOrder <=> snapshotLess(e, f)
  BY DEF SnapshotOrder
<1>1. \A e \in Known : /\ networkOrder(e.network) \in Nat /\ e.ip \in Nat /\ e.aliases \in Seq(Nat)
                       /\ e.network \in ToSet(networks)
  BY NetworkOrderWorks, AliasesComparable DEF Known, Endpoint
<1>2. ASSUME NEW e \in Known PROVE ~snapshotLess(e, e)
  BY <1>1, SnapshotLessMeans, LexIrreflexive
<1>3. ASSUME NEW e \in Known, NEW f \in Known, NEW g \in Known,
             snapshotLess(e, f), snapshotLess(f, g)
      PROVE  snapshotLess(e, g)
  <2> DEFINE ne == networkOrder(e.network)
             nf == networkOrder(f.network)
             ng == networkOrder(g.network)
  <2>1. /\ ne < nf \/ e.network = f.network
        /\ nf < ng \/ f.network = g.network
    BY <1>3, SnapshotLessMeans
  <2>2. CASE ne < nf \/ nf < ng
    <3>1. ne \in Nat /\ nf \in Nat /\ ng \in Nat
      BY <1>1
    <3>2. ne < nf \/ ne = nf
      BY <2>1
    <3>3. nf < ng \/ nf = ng
      BY <2>1
    <3> HIDE DEF ne, nf, ng
    <3>4. ne < ng
      BY <2>2, <3>1, <3>2, <3>3
    <3> QED
      BY <3>4, SnapshotLessMeans DEF ne, ng
  <2>3. CASE ~(ne < nf) /\ ~(nf < ng)
    <3>1. e.network = f.network /\ f.network = g.network
      BY <2>1, <2>3
    <3>2. e.ip < f.ip \/ (e.ip = f.ip /\ LexLess(e.aliases, f.aliases))
      BY <1>3, <2>3, SnapshotLessMeans
    <3>3. f.ip < g.ip \/ (f.ip = g.ip /\ LexLess(f.aliases, g.aliases))
      BY <1>3, <2>3, SnapshotLessMeans
    <3>4. e.ip < g.ip \/ (e.ip = g.ip /\ LexLess(e.aliases, g.aliases))
      BY <1>1, <3>2, <3>3, LexTransitive
    <3> QED
      BY <3>1, <3>4, SnapshotLessMeans
  <2> QED
    BY <2>2, <2>3
<1>4. ASSUME NEW e \in Known, NEW f \in Known, e # f PROVE snapshotLess(e, f) \/ snapshotLess(f, e)
  <2>1. e.network # f.network \/ e.ip # f.ip \/ e.aliases # f.aliases
    BY <1>4 DEF Known, Endpoint
  <2>2. CASE e.network # f.network
    <3>1. networkOrder(e.network) # networkOrder(f.network)
      BY <1>1, <2>2, NetworkOrderWorks
    <3>2. networkOrder(e.network) < networkOrder(f.network)
          \/ networkOrder(f.network) < networkOrder(e.network)
      BY <1>1, <3>1
    <3> QED
      BY <3>2, SnapshotLessMeans
  <2>3. CASE e.network = f.network /\ e.ip # f.ip
    <3>1. e.ip < f.ip \/ f.ip < e.ip
      BY <1>1, <2>3
    <3> QED
      BY <2>3, <3>1, SnapshotLessMeans
  <2>4. CASE e.network = f.network /\ e.ip = f.ip /\ e.aliases # f.aliases
    <3>1. LexLess(e.aliases, f.aliases) \/ LexLess(f.aliases, e.aliases)
      BY <1>1, <2>4, LexTotal
    <3> QED
      BY <2>4, <3>1, SnapshotLessMeans
  <2> QED
    BY <2>1, <2>2, <2>3, <2>4
<1>5. Strict(SnapshotOrder, Known)
  BY <1>0, <1>2, <1>3 DEF Strict
<1>6. Total(SnapshotOrder, Known)
  BY <1>0, <1>4 DEF Total
<1> QED
  BY <1>5, <1>6

-----------------------------------------------------------------------------
(***************************************************************************)
(* What the operators of the model return.                                 *)
(***************************************************************************)
LEMMA RangeFinite ==
  ASSUME NEW X, NEW s \in Seq(X)
  PROVE  IsFiniteSet(ToSet(s)) /\ ToSet(s) \subseteq X
<1>1. Len(s) \in Nat /\ DOMAIN s = 1..Len(s) /\ \A i \in 1..Len(s) : s[i] \in X
  OBVIOUS
<1>2. s \in Surjection(1..Len(s), ToSet(s))
  BY <1>1 DEF Surjection, ToSet
<1>3. IsFiniteSet(1..Len(s))
  BY <1>1, FS_Interval
<1> QED
  BY <1>1, <1>2, <1>3, FS_Surjection DEF ToSet

LEMMA AscendingWorks ==
  ASSUME NEW S, IsFiniteSet(S), S \subseteq Nat
  PROVE  /\ Cardinality(S) \in Nat /\ Ascending(S) \in [1..Cardinality(S) -> S]
         /\ S # {} => Cardinality(S) >= 1
<1> DEFINE less == {p \in S \X S : p[1] < p[2]}
<1>1. Strict(less, S)
  BY DEF Strict
<1>2. Ascending(S) = Arrange(S, less)
  BY DEF Ascending
<1> HIDE DEF less
<1>3. Ascending(S) \in [1..Cardinality(S) -> S] /\ Cardinality(S) \in Nat
  BY <1>1, <1>2, ArrangeWorks
<1>4. S # {} => Cardinality(S) # 0
  BY FS_EmptySet
<1> QED
  BY <1>3, <1>4

LEMMA NormalizedAliases ==
  ASSUME NEW aliases \in Seq(Alias)
  PROVE  normalizeAliases(aliases) \in Seq(Alias)
<1> DEFINE names == ToSet(aliases) \ {Empty}
<1>1. IsFiniteSet(names) /\ names \subseteq Alias /\ names \subseteq Nat
  BY RangeFinite, FS_Subset, RenderAssumption
<1>2. normalizeAliases(aliases) = Ascending(names)
  BY DEF normalizeAliases
<1> HIDE DEF names
<1>3. Ascending(names) \in [1..Cardinality(names) -> names] /\ Cardinality(names) \in Nat
  BY <1>1, AscendingWorks
<1> QED
  BY <1>1, <1>2, <1>3, FunctionIsSeq

\* The set of the names that hostnames sorts.
Names(e) ==
  (IF e.network = DefaultNetwork THEN ToSet(e.aliases) ELSE {})
    \cup {Qualified[<<a, e.network>>] : a \in ToSet(e.aliases)}

LEMMA HostnamesWork ==
  ASSUME NEW e \in Endpoint
  PROVE  /\ ToSet(hostnames(e)) \subseteq Names(e)
         /\ e.aliases # <<>> => hostnames(e)[1] \in Nat
<1> DEFINE as    == ToSet(e.aliases)
           long  == [a \in as |-> Qualified[<<a, e.network>>]]
           longs == {Qualified[<<a, e.network>>] : a \in as}
           names == Names(e)
<1>1. e.aliases \in Seq(Alias) /\ e.network \in Network
  BY DEF Endpoint
<1>2. IsFiniteSet(as) /\ as \subseteq Alias /\ as \subseteq Nat
  BY <1>1, RangeFinite, RenderAssumption
<1>3. IsFiniteSet(longs)
  <2>1. long \in Surjection(as, longs)
    BY DEF Surjection
  <2> HIDE DEF long, longs, as
  <2> QED
    BY <1>2, <2>1, FS_Surjection
<1>4. longs \subseteq Nat
  BY <1>1, <1>2, RenderAssumption
<1>5. names = as \cup longs \/ names = longs
  BY DEF Names
<1>6. IsFiniteSet(names) /\ names \subseteq Nat
  <2> HIDE DEF as, longs
  <2> QED
    BY <1>2, <1>3, <1>4, <1>5, FS_Union
<1>7. hostnames(e) = Ascending(names)
  BY DEF hostnames, Names
<1>8. as # {} => names # {}
  BY <1>5
<1> HIDE DEF names
<1>9. /\ Cardinality(names) \in Nat /\ hostnames(e) \in [1..Cardinality(names) -> names]
      /\ names # {} => Cardinality(names) >= 1
  BY <1>6, <1>7, AscendingWorks
<1>10. ASSUME e.aliases # <<>> PROVE hostnames(e)[1] \in Nat
  <2>1. e.aliases[1] \in as
    BY <1>1, <1>10 DEF ToSet
  <2>2. names # {}
    <3> HIDE DEF as
    <3> QED
      BY <1>8, <2>1
  <2>3. 1 \in 1..Cardinality(names)
    BY <1>9, <2>2
  <2>4. hostnames(e)[1] \in names
    BY <1>9, <2>3
  <2> QED
    BY <1>6, <2>4
<1>11. ToSet(hostnames(e)) \subseteq names
  BY <1>9 DEF ToSet
<1> QED
  BY <1>10, <1>11 DEF names

\* An endpoint that renders.
Named == {e \in Endpoint : e.aliases # <<>>}

LEMMA RenderLessMeans ==
  ASSUME NEW e \in Named, NEW f \in Named
  PROVE  renderLess(e, f) <=>
           \/ hostnames(e)[1] < hostnames(f)[1]
           \/ hostnames(e)[1] = hostnames(f)[1] /\ e.network < f.network
           \/ hostnames(e)[1] = hostnames(f)[1] /\ e.network = f.network /\ e.ip < f.ip
<1> DEFINE a == Compare(hostnames(e)[1], hostnames(f)[1])
           b == Compare(e.network, f.network)
           c == Compare(e.ip, f.ip)
<1>1. /\ e \in Endpoint /\ f \in Endpoint /\ e.aliases # <<>> /\ f.aliases # <<>>
      /\ e.ip \in Int /\ f.ip \in Int /\ e.network \in Int /\ f.network \in Int
  <2>1. /\ e.network \in Network /\ f.network \in Network
        /\ e.ip \in Nat /\ f.ip \in Nat
    BY DEF Named, Endpoint
  <2>2. Network \subseteq Nat
    BY RenderAssumption
  <2>3. \A n \in Nat : n \in Int
    OBVIOUS
  <2>4. e \in Endpoint /\ f \in Endpoint /\ e.aliases # <<>> /\ f.aliases # <<>>
    BY DEF Named
  <2> QED
    BY <2>1, <2>2, <2>3, <2>4, Zenon
<1>2. hostnames(e)[1] \in Int /\ hostnames(f)[1] \in Int
  BY <1>1, HostnamesWork
<1>3. /\ a \in Int
      /\ a < 0 <=> hostnames(e)[1] < hostnames(f)[1]
      /\ a = 0 <=> hostnames(e)[1] = hostnames(f)[1]
  BY <1>2, CompareIsOrder
<1>4. b \in Int /\ (b < 0 <=> e.network < f.network) /\ (b = 0 <=> e.network = f.network)
  BY <1>1, CompareIsOrder
<1>5. c \in Int /\ (c < 0 <=> e.ip < f.ip)
  BY <1>1, CompareIsOrder
<1> HIDE DEF a, b, c
<1>6. FirstNonZero(<<a, b, c>>) <=> \/ a < 0
                                    \/ a = 0 /\ b < 0
                                    \/ a = 0 /\ b = 0 /\ c < 0
  BY <1>3, <1>4, <1>5, FirstOfThree
<1>7. renderLess(e, f) <=> FirstNonZero(<<a, b, c>>)
  BY DEF renderLess, a, b, c
<1> QED
  BY <1>3, <1>4, <1>5, <1>6, <1>7, Zenon

\* The comparison of the render sort orders the lines, with ties.
LEMMA RenderLessOrder ==
  /\ \A e \in Named : ~renderLess(e, e)
  /\ \A e, f, g \in Named : renderLess(e, f) /\ renderLess(f, g) => renderLess(e, g)
<1> DEFINE h(e) == hostnames(e)[1]
<1>1. \A e \in Named : h(e) \in Nat /\ e.network \in Nat /\ e.ip \in Nat
  BY HostnamesWork, RenderAssumption DEF Named, Endpoint
<1>2. ASSUME NEW e \in Named PROVE ~renderLess(e, e)
  BY <1>1, RenderLessMeans
<1>3. ASSUME NEW e \in Named, NEW f \in Named, NEW g \in Named,
             renderLess(e, f), renderLess(f, g)
      PROVE  renderLess(e, g)
  <2>1. \/ h(e) < h(f)
        \/ h(e) = h(f) /\ e.network < f.network
        \/ h(e) = h(f) /\ e.network = f.network /\ e.ip < f.ip
    BY <1>3, RenderLessMeans
  <2>2. \/ h(f) < h(g)
        \/ h(f) = h(g) /\ f.network < g.network
        \/ h(f) = h(g) /\ f.network = g.network /\ f.ip < g.ip
    BY <1>3, RenderLessMeans
  <2>3. \/ h(e) < h(g)
        \/ h(e) = h(g) /\ e.network < g.network
        \/ h(e) = h(g) /\ e.network = g.network /\ e.ip < g.ip
    <3> HIDE DEF h
    <3> QED
      BY <1>1, <2>1, <2>2
  <2> QED
    BY <2>3, RenderLessMeans
<1> QED
  BY <1>2, <1>3

LEMMA EndpointsTyped ==
  ASSUME NEW s \in Settings
  PROVE  /\ DOMAIN EndpointsOf(s) \subseteq DOMAIN networks
         /\ \A i \in DOMAIN EndpointsOf(s) : EndpointsOf(s)[i] \in Known
<1>1. DOMAIN EndpointsOf(s) \subseteq DOMAIN networks
  BY DEF EndpointsOf
<1>2. ASSUME NEW i \in DOMAIN EndpointsOf(s) PROVE EndpointsOf(s)[i] \in Known
  <2> DEFINE n == networks[i]
  <2>1. EndpointsOf(s)[i] = EndpointAt(s, n)
    BY DEF EndpointsOf
  <2>2. n \in ToSet(networks) /\ n \in Network
    BY <1>1, SnapshotAssumption DEF ToSet
  <2>3. s[n] \in [v4 : Nat, v6 : Nat, aliases : Seq(Alias)]
    BY <2>2, SnapshotAssumption
  <2> HIDE DEF n
  <2>4. normalizeAliases(s[n].aliases) \in Seq(Alias)
    BY <2>3, NormalizedAliases
  <2>5. (IF s[n].v4 # NoIP THEN s[n].v4 ELSE s[n].v6) \in Nat
    BY <2>3
  <2>6. EndpointAt(s, n) \in Endpoint /\ EndpointAt(s, n).network = n
    BY <2>2, <2>4, <2>5 DEF EndpointAt, Endpoint
  <2> QED
    BY <2>1, <2>2, <2>6 DEF Known
<1> QED
  BY <1>1, <1>2

\* Where an endpoint was found: the container's place in the list and the
\* network's position; and which endpoint it is.
Places(os) == {a \in {i \in DOMAIN os : os[i] # Gone} \X DOMAIN networks :
                 a[2] \in DOMAIN EndpointsOf(os[a[1]])}

PlaceEndpoint(os) == [a \in Places(os) |-> EndpointsOf(os[a[1]])[a[2]]]

PlaceLess(os) ==
  {p \in Places(os) \X Places(os) :
     snapshotLess(EndpointsOf(os[p[1][1]])[p[1][2]], EndpointsOf(os[p[2][1]])[p[2][2]])}

\* The answers of a snapshot in which no inspection failed.
Answers(os) == IsFiniteSet(DOMAIN os) /\ \A i \in DOMAIN os : os[i] \in Settings \cup {Gone}

LEMMA PlacesWork ==
  ASSUME NEW os, Answers(os)
  PROVE  /\ IsFiniteSet(Places(os)) /\ PlaceEndpoint(os) \in [Places(os) -> Known]
         /\ \A x, y \in Places(os) : <<x, y>> \in PlaceLess(os) <=>
              <<PlaceEndpoint(os)[x], PlaceEndpoint(os)[y]>> \in SnapshotOrder
<1> DEFINE found == {i \in DOMAIN os : os[i] # Gone}
<1>1. IsFiniteSet(Places(os))
  <2>1. IsFiniteSet(found)
    BY FS_Subset DEF Answers
  <2>2. IsFiniteSet(DOMAIN networks)
    BY SnapshotAssumption, FS_Interval
  <2>3. IsFiniteSet(found \X DOMAIN networks)
    <3> HIDE DEF found
    <3> QED
      BY <2>1, <2>2, FS_Product
  <2>4. Places(os) \subseteq found \X DOMAIN networks
    BY DEF Places
  <2> HIDE DEF found
  <2> QED
    BY <2>3, <2>4, FS_Subset
<1>2. ASSUME NEW a \in Places(os)
      PROVE  PlaceEndpoint(os)[a] = EndpointsOf(os[a[1]])[a[2]] /\ PlaceEndpoint(os)[a] \in Known
  <2>1. os[a[1]] \in Settings /\ a[2] \in DOMAIN EndpointsOf(os[a[1]])
    BY DEF Places, Answers
  <2>2. PlaceEndpoint(os)[a] = EndpointsOf(os[a[1]])[a[2]]
    BY DEF PlaceEndpoint
  <2> QED
    BY <2>1, <2>2, EndpointsTyped
<1>3. PlaceEndpoint(os) \in [Places(os) -> Known]
  BY <1>2 DEF PlaceEndpoint
<1>4. ASSUME NEW x \in Places(os), NEW y \in Places(os)
      PROVE  <<x, y>> \in PlaceLess(os) <=>
               <<PlaceEndpoint(os)[x], PlaceEndpoint(os)[y]>> \in SnapshotOrder
  <2>1. <<x, y>> \in PlaceLess(os) <=>
          snapshotLess(EndpointsOf(os[x[1]])[x[2]], EndpointsOf(os[y[1]])[y[2]])
    BY DEF PlaceLess
  <2>2. \A e, f \in Known : <<e, f>> \in SnapshotOrder <=> snapshotLess(e, f)
    BY DEF SnapshotOrder
  <2> QED
    BY <1>2, <2>1, <2>2
<1> QED
  BY <1>1, <1>3, <1>4

LEMMA PlacesOrdered ==
  ASSUME NEW os, Answers(os)
  PROVE  Strict(PlaceLess(os), Places(os))
<1>1. Strict(SnapshotOrder, Known)
  BY SnapshotOrderTotal
<1>2. \A a \in Places(os) : PlaceEndpoint(os)[a] \in Known
  BY PlacesWork
<1> QED
  BY <1>1, <1>2, PlacesWork DEF Strict

LEMMA SortedEndpointsMeans ==
  ASSUME NEW os, Answers(os)
  PROVE  SortedEndpoints(os) =
           [k \in DOMAIN Arrange(Places(os), PlaceLess(os)) |->
              PlaceEndpoint(os)[Arrange(Places(os), PlaceLess(os))[k]]]
<1> DEFINE order == Arrange(Places(os), PlaceLess(os))
<1>1. SortedEndpoints(os) = [k \in DOMAIN order |-> EndpointsOf(os[order[k][1]])[order[k][2]]]
  BY Zenon DEF SortedEndpoints, Places, PlaceLess
<1>2. order \in [1..Cardinality(Places(os)) -> Places(os)]
  BY PlacesWork, PlacesOrdered, ArrangeWorks
<1> HIDE DEF order
<1>3. \A k \in DOMAIN order :
        PlaceEndpoint(os)[order[k]] = EndpointsOf(os[order[k][1]])[order[k][2]]
  BY <1>2 DEF PlaceEndpoint
<1>4. [k \in DOMAIN order |-> EndpointsOf(os[order[k][1]])[order[k][2]]] =
        [k \in DOMAIN order |-> PlaceEndpoint(os)[order[k]]]
  BY <1>3
<1> QED
  BY <1>1, <1>4 DEF order

(***************************************************************************)
(* The sorted snapshot has exactly the endpoints of the containers found.  *)
(***************************************************************************)
LEMMA SortedEndpointsWork ==
  ASSUME NEW os, Answers(os)
  PROVE  /\ SortedEndpoints(os) \in Seq(Endpoint)
         /\ ToSet(SortedEndpoints(os)) =
              UNION {ToSet(EndpointsOf(os[i])) : i \in {i \in DOMAIN os : os[i] # Gone}}
<1> DEFINE order == Arrange(Places(os), PlaceLess(os))
           n     == Cardinality(Places(os))
           r     == SortedEndpoints(os)
           found == {i \in DOMAIN os : os[i] # Gone}
<1>1. /\ n \in Nat /\ order \in [1..n -> Places(os)]
      /\ \A a \in Places(os) : \E k \in 1..n : order[k] = a
  BY PlacesWork, PlacesOrdered, ArrangeWorks
<1>2. r = [k \in 1..n |-> PlaceEndpoint(os)[order[k]]]
  <2>1. DOMAIN order = 1..n
    BY <1>1
  <2> QED
    BY <2>1, SortedEndpointsMeans
<1> HIDE DEF order, n, r
<1>3. \A k \in 1..n : r[k] \in Known
  BY <1>1, <1>2, PlacesWork
<1>4. r \in [1..n -> Endpoint]
  BY <1>2, <1>3 DEF Known
<1>5. r \in Seq(Endpoint)
  BY <1>1, <1>4, FunctionIsSeq
<1>6. ASSUME NEW e \in ToSet(r) PROVE \E i \in found : e \in ToSet(EndpointsOf(os[i]))
  <2>1. PICK k \in 1..n : e = PlaceEndpoint(os)[order[k]]
    BY <1>2 DEF ToSet
  <2>2. order[k] \in Places(os)
    BY <1>1
  <2>3. /\ e = EndpointsOf(os[order[k][1]])[order[k][2]] /\ order[k][1] \in found
        /\ order[k][2] \in DOMAIN EndpointsOf(os[order[k][1]])
    BY <2>1, <2>2 DEF PlaceEndpoint, Places
  <2> QED
    BY <2>3 DEF ToSet
<1>7. ASSUME NEW i \in found, NEW e \in ToSet(EndpointsOf(os[i])) PROVE e \in ToSet(r)
  <2>1. PICK m \in DOMAIN EndpointsOf(os[i]) : e = EndpointsOf(os[i])[m]
    BY DEF ToSet
  <2>2. os[i] \in Settings
    BY DEF Answers
  <2>3. m \in DOMAIN networks
    BY <2>2, EndpointsTyped
  <2>4. <<i, m>> \in Places(os) /\ PlaceEndpoint(os)[<<i, m>>] = e
    BY <2>1, <2>3 DEF Places, PlaceEndpoint
  <2>5. PICK k \in 1..n : order[k] = <<i, m>>
    BY <1>1, <2>4
  <2>6. r[k] = e /\ k \in DOMAIN r
    BY <1>2, <2>4, <2>5
  <2> QED
    BY <2>6 DEF ToSet
<1> HIDE DEF found
<1>8. ToSet(r) = UNION {ToSet(EndpointsOf(os[i])) : i \in found}
  BY <1>6, <1>7
<1> QED
  BY <1>5, <1>8 DEF r, found

(***************************************************************************)
(* Every line of a body is the line of a valid endpoint of the snapshot.   *)
(***************************************************************************)
LEMMA RenderWorks ==
  ASSUME NEW r \in Seq(Endpoint), renderEndpoints(r) # Failed,
         NEW i \in DOMAIN renderEndpoints(r)
  PROVE  \E j \in DOMAIN r : validateEndpoint(r[j]) /\ renderEndpoints(r)[i] = Line(r[j])
<1> DEFINE I     == DOMAIN r
           less  == {p \in I \X I : renderLess(r[p[1]], r[p[2]])}
           order == Arrange(I, less)
<1>1. \A j \in I : validateEndpoint(r[j])
  BY DEF renderEndpoints
<1>2. renderEndpoints(r) = [k \in DOMAIN order |-> Line(r[order[k]])]
  BY <1>1, Zenon DEF renderEndpoints
<1>3. \A j \in I : r[j] \in Named
  BY <1>1 DEF validateEndpoint, Named
<1>4. IsFiniteSet(I)
  BY FS_Interval
<1>5. Strict(less, I)
  <2>1. \A x, y \in I : <<x, y>> \in less <=> renderLess(r[x], r[y])
    OBVIOUS
  <2> HIDE DEF I, less
  <2> QED
    BY <1>3, <2>1, RenderLessOrder DEF Strict
<1> HIDE DEF less
<1>6. order \in [1..Cardinality(I) -> I]
  <2> HIDE DEF I
  <2> QED
    BY <1>4, <1>5, ArrangeWorks
<1> HIDE DEF order
<1>7. i \in DOMAIN order /\ order[i] \in I /\ renderEndpoints(r)[i] = Line(r[order[i]])
  BY <1>2, <1>6
<1> QED
  BY <1>1, <1>7

-----------------------------------------------------------------------------
(***************************************************************************)
(* The inductive invariant.                                                *)
(***************************************************************************)
\* The containers that ContainerList returns.
Attached == {c \in Running : \E n \in ToSet(networks) : docker[c][n] # NoEndpoint}

TypeOK ==
  /\ docker \in [Container -> Settings \cup {Gone}]
  /\ pc \in {"idle", "list", "inspect"}
  /\ launched \in Nat
  /\ touched \subseteq Container
  /\ pc = "inspect" =>
       /\ Len(listed) \in Nat /\ listed \in [1..Len(listed) -> Container]
       /\ outcomes \in [1..Len(listed) -> Settings \cup {Gone, None, Failed}]
       /\ launched <= Len(listed)
  /\ pc # "inspect" => launched = 0

\* An answer was true when it was given, and still is if nobody touched the
\* container; an error was an inspection's own.
AnswersTrue ==
  pc = "inspect" =>
    \A i \in 1..Len(listed) :
      /\ outcomes[i] = Failed => faulty
      /\ outcomes[i] \in Settings => ToSet(EndpointsOf(outcomes[i])) \subseteq existed
      /\ outcomes[i] \in Settings \cup {Gone} /\ listed[i] \notin touched =>
           outcomes[i] = docker[listed[i]]

\* The list misses no endpoint but those of containers touched since.
ListComplete ==
  pc = "inspect" =>
    /\ \A c \in Container \ touched :
         Endpoints(c) # {} => \E i \in 1..Len(listed) : listed[i] = c
    /\ touched = {} => listed \in SetToSeqs(Attached)

\* The history has what exists now.
NowExisted == pc # "idle" => \A c \in Container : Endpoints(c) \subseteq existed

\* The last body is the last result's.
BodyOfResult ==
  result \notin {None, Failed} =>
    result \in Seq(Endpoint) /\ body = renderEndpoints(result)

\* The body of a list l of containers as they are now.
InspectAll(l) == [i \in DOMAIN l |-> docker[l[i]]]
BodyOf(l) == renderEndpoints(SortedEndpoints(InspectAll(l)))

\* While Docker does not change, the last body is one of the containers as
\* they are now, listed in some order.
LastBodyCurrent == lastBody # None => \E l \in SetToSeqs(Attached) : lastBody = BodyOf(l)

IInv == /\ TypeOK /\ AnswersTrue /\ ListComplete /\ NowExisted /\ BodyOfResult
        /\ LastBodyCurrent

-----------------------------------------------------------------------------
(***************************************************************************)
(* Two lists of the same containers give the same snapshot.                *)
(***************************************************************************)
LEMMA ListOrderIrrelevant ==
  ASSUME NEW d \in [Container -> Settings \cup {Gone}], NEW T, T \subseteq Container,
         NEW l \in SetToSeqs(T), NEW m \in SetToSeqs(T),
         NEW dl, dl = [i \in DOMAIN l |-> d[l[i]]],
         NEW dm, dm = [i \in DOMAIN m |-> d[m[i]]]
  PROVE  Answers(dl) /\ Answers(dm) /\ SortedEndpoints(dl) = SortedEndpoints(dm)
<1> DEFINE n  == Cardinality(T)
           A  == Places(dl)
           B  == Places(dm)
           va == PlaceEndpoint(dl)
           vb == PlaceEndpoint(dm)
<1>1. IsFiniteSet(T) /\ n \in Nat
  BY SnapshotAssumption, FS_Subset, FS_CardinalityType
<1>2. /\ l \in [1..n -> T] /\ \A i, j \in 1..n : l[i] = l[j] => i = j
      /\ m \in [1..n -> T] /\ \A i, j \in 1..n : m[i] = m[j] => i = j
  BY DEF SetToSeqs
<1>3. \A c \in T : (\E i \in 1..n : l[i] = c) /\ (\E i \in 1..n : m[i] = c)
  <2>1. l \in Injection(1..n, T) /\ m \in Injection(1..n, T)
    BY <1>2 DEF Injection, IsInjective
  <2>2. Cardinality(1..n) = n
    BY <1>1, FS_Interval
  <2> HIDE DEF n
  <2>3. l \in Surjection(1..n, T) /\ m \in Surjection(1..n, T)
    BY <1>1, <2>1, <2>2, FS_Injection DEF n
  <2> QED
    BY <2>3 DEF Surjection
<1> HIDE DEF n
<1>4. /\ DOMAIN dl = 1..n /\ DOMAIN dm = 1..n
      /\ \A i \in 1..n : dl[i] = d[l[i]] /\ dm[i] = d[m[i]]
      /\ \A i \in 1..n : dl[i] \in Settings \cup {Gone} /\ dm[i] \in Settings \cup {Gone}
  BY <1>2
<1>5. Answers(dl) /\ Answers(dm)
  BY <1>1, <1>4, FS_Interval DEF Answers
<1> DEFINE at   == [i \in 1..n |-> CHOOSE j \in 1..n : m[j] = l[i]]
           phi  == [a \in A |-> <<at[a[1]], a[2]>>]
<1>6. \A i \in 1..n : at[i] \in 1..n /\ m[at[i]] = l[i] /\ dm[at[i]] = dl[i]
  <2>1. \A i \in 1..n : at[i] \in 1..n /\ m[at[i]] = l[i]
    BY <1>2, <1>3
  <2> HIDE DEF at
  <2> QED
    BY <1>4, <2>1
<1> HIDE DEF at
<1>7. \A i, k : <<i, k>> \in A <=> /\ i \in 1..n /\ k \in DOMAIN networks /\ dl[i] # Gone
                                  /\ k \in DOMAIN EndpointsOf(dl[i])
  BY <1>4 DEF Places
<1>8. \A i, k : <<i, k>> \in B <=> /\ i \in 1..n /\ k \in DOMAIN networks /\ dm[i] # Gone
                                  /\ k \in DOMAIN EndpointsOf(dm[i])
  BY <1>4 DEF Places
<1>9. /\ \A a \in A : a = <<a[1], a[2]>> /\ a[1] \in 1..n
      /\ \A b \in B : b = <<b[1], b[2]>> /\ b[1] \in 1..n
  BY <1>4 DEF Places
<1>10. \A a \in A : va[a] = EndpointsOf(dl[a[1]])[a[2]]
  BY DEF PlaceEndpoint
<1>11. \A b \in B : vb[b] = EndpointsOf(dm[b[1]])[b[2]]
  BY DEF PlaceEndpoint
<1>12. /\ IsFiniteSet(A) /\ va \in [A -> Known]
       /\ \A x, y \in A : <<x, y>> \in PlaceLess(dl) <=> <<va[x], va[y]>> \in SnapshotOrder
  BY <1>5, PlacesWork
<1>13. /\ IsFiniteSet(B) /\ vb \in [B -> Known]
       /\ \A x, y \in B : <<x, y>> \in PlaceLess(dm) <=> <<vb[x], vb[y]>> \in SnapshotOrder
  BY <1>5, PlacesWork
<1>14. [k \in DOMAIN Arrange(A, PlaceLess(dl)) |-> va[Arrange(A, PlaceLess(dl))[k]]] =
         SortedEndpoints(dl)
  BY <1>5, SortedEndpointsMeans
<1>15. [k \in DOMAIN Arrange(B, PlaceLess(dm)) |-> vb[Arrange(B, PlaceLess(dm))[k]]] =
         SortedEndpoints(dm)
  BY <1>5, SortedEndpointsMeans
<1> HIDE DEF A, B, va, vb
<1>16. \A a \in A : phi[a] \in B /\ vb[phi[a]] = va[a]
  <2> SUFFICES ASSUME NEW a \in A PROVE <<at[a[1]], a[2]>> \in B /\ vb[<<at[a[1]], a[2]>>] = va[a]
    OBVIOUS
  <2>1. /\ a[1] \in 1..n /\ a[2] \in DOMAIN networks /\ dl[a[1]] # Gone
        /\ a[2] \in DOMAIN EndpointsOf(dl[a[1]])
    BY <1>7, <1>9
  <2>2. at[a[1]] \in 1..n /\ dm[at[a[1]]] = dl[a[1]]
    BY <1>6, <2>1
  <2>3. <<at[a[1]], a[2]>> \in B
    BY <1>8, <2>1, <2>2
  <2> QED
    BY <1>10, <1>11, <2>2, <2>3
<1>17. \A a, b \in A : phi[a] = phi[b] => a = b
  <2> SUFFICES ASSUME NEW a \in A, NEW b \in A, <<at[a[1]], a[2]>> = <<at[b[1]], b[2]>> PROVE a = b
    OBVIOUS
  <2>1. at[a[1]] = at[b[1]] /\ a[2] = b[2]
    OBVIOUS
  <2>2. l[a[1]] = l[b[1]]
    BY <1>6, <1>9, <2>1
  <2>3. a[1] = b[1]
    BY <1>2, <1>9, <2>2
  <2> QED
    BY <1>9, <2>1, <2>3
<1>18. \A b \in B : \E a \in A : phi[a] = b
  <2> SUFFICES ASSUME NEW b \in B PROVE \E a \in A : <<at[a[1]], a[2]>> = b
    OBVIOUS
  <2>1. PICK i \in 1..n : l[i] = m[b[1]]
    BY <1>2, <1>3, <1>9
  <2>2. at[i] = b[1]
    BY <1>2, <1>6, <1>9, <2>1
  <2>3. <<i, b[2]>> \in A
    <3>1. /\ b[2] \in DOMAIN networks /\ dm[b[1]] # Gone /\ b[2] \in DOMAIN EndpointsOf(dm[b[1]])
      BY <1>8, <1>9
    <3>2. dl[i] = dm[b[1]]
      BY <1>6, <2>2
    <3> QED
      BY <1>7, <3>1, <3>2
  <2> WITNESS <<i, b[2]>> \in A
  <2> QED
    BY <1>9, <2>2
<1>19. phi \in Bijection(A, B)
  <2>1. phi \in [A -> B]
    BY <1>16
  <2>2. DOMAIN phi = A
    OBVIOUS
  <2> HIDE DEF phi
  <2> QED
    BY <1>17, <1>18, <2>1, <2>2 DEF Bijection, Injection, Surjection, IsInjective
<1>20. Strict(SnapshotOrder, Known) /\ Total(SnapshotOrder, Known)
  BY SnapshotOrderTotal
<1> HIDE DEF phi
<1>21. [k \in DOMAIN Arrange(A, PlaceLess(dl)) |-> va[Arrange(A, PlaceLess(dl))[k]]] =
       [k \in DOMAIN Arrange(B, PlaceLess(dm)) |-> vb[Arrange(B, PlaceLess(dm))[k]]]
  BY <1>12, <1>13, <1>16, <1>19, <1>20, SortForgetsOrder
<1> QED
  BY <1>5, <1>14, <1>15, <1>21

-----------------------------------------------------------------------------
(***************************************************************************)
(* What a snapshot ends with: an error that an inspection met, or the      *)
(* sorted endpoints of the answers and the body rendered from them.        *)
(***************************************************************************)
LEMMA CollectMeans ==
  ASSUME IInv, Collect
  PROVE  /\ pc = "inspect" /\ UNCHANGED <<docker, changes>> /\ pc' = "idle"
         /\ \/ result' = Failed /\ body' = Failed /\ faulty /\ lastBody' = lastBody
            \/ /\ Answers(outcomes)
               /\ \A i \in 1..Len(listed) : outcomes[i] \in Settings \cup {Gone}
               /\ result' = SortedEndpoints(outcomes) /\ result' \in Seq(Endpoint)
               /\ result' \notin {None, Failed}
               /\ body' = renderEndpoints(result')
               /\ lastBody' = IF body' = Failed THEN lastBody
                              ELSE IF touched = {} THEN body' ELSE None
<1>1. /\ pc = "inspect" /\ launched = Len(listed) /\ Return(collect(outcomes))
      /\ \A i \in 1..Len(listed) : outcomes[i] # None
  BY DEF Collect, InFlight
<1>2. /\ Len(listed) \in Nat /\ DOMAIN outcomes = 1..Len(listed)
      /\ \A i \in 1..Len(listed) : outcomes[i] \in Settings \cup {Gone, None, Failed}
  BY <1>1 DEF IInv, TypeOK
<1>3. /\ UNCHANGED <<docker, changes>> /\ pc' = "idle" /\ result' = collect(outcomes)
      /\ body' = IF result' = Failed THEN Failed ELSE renderEndpoints(result')
      /\ lastBody' = IF body' = Failed THEN lastBody ELSE IF touched = {} THEN body' ELSE None
  BY <1>1 DEF Return
<1>4. CASE \E i \in DOMAIN outcomes : outcomes[i] = Failed
  <2>1. result' = Failed /\ body' = Failed /\ lastBody' = lastBody
    BY <1>3, <1>4 DEF collect
  <2>2. faulty
    BY <1>1, <1>2, <1>4 DEF IInv, AnswersTrue
  <2> QED
    BY <1>1, <1>3, <2>1, <2>2
<1>5. CASE ~\E i \in DOMAIN outcomes : outcomes[i] = Failed
  <2>1. \A i \in 1..Len(listed) : outcomes[i] \in Settings \cup {Gone}
    BY <1>1, <1>2, <1>5
  <2>2. IsFiniteSet(1..Len(listed))
    BY <1>2, FS_Interval
  <2>3. Answers(outcomes)
    BY <1>2, <2>1, <2>2 DEF Answers
  <2>4. result' = SortedEndpoints(outcomes)
    BY <1>3, <1>5 DEF collect
  <2>5. result' \in Seq(Endpoint)
    BY <2>3, <2>4, SortedEndpointsWork
  <2>6. result' \notin {None, Failed}
    BY <2>5, SnapshotAssumption
  <2>7. body' = renderEndpoints(result')
    BY <1>3, <2>6
  <2> QED
    BY <1>1, <1>3, <2>1, <2>3, <2>4, <2>5, <2>6, <2>7
<1> QED
  BY <1>4, <1>5

\* Answers that nobody touched are what the containers show now.
LEMMA UntouchedAnswers ==
  ASSUME IInv, pc = "inspect", touched = {},
         \A i \in 1..Len(listed) : outcomes[i] \in Settings \cup {Gone}
  PROVE  outcomes = InspectAll(listed) /\ listed \in SetToSeqs(Attached)
<1>1. \A i \in 1..Len(listed) : outcomes[i] = docker[listed[i]]
  BY DEF IInv, AnswersTrue
<1>2. DOMAIN listed = 1..Len(listed) /\ outcomes = [i \in 1..Len(listed) |-> outcomes[i]]
  BY DEF IInv, TypeOK
<1>3. outcomes = InspectAll(listed)
  BY <1>1, <1>2 DEF InspectAll
<1> QED
  BY <1>3 DEF IInv, ListComplete

LEMMA AttachedContainers == Attached \subseteq Container
  BY DEF Attached, Running

-----------------------------------------------------------------------------
(***************************************************************************)
(* Every step preserves the invariant.                                     *)
(***************************************************************************)
LEMMA ListMeans ==
  ASSUME IInv, List
  PROVE  /\ Len(listed') \in Nat /\ listed' \in [1..Len(listed') -> Attached]
         /\ \A c \in Attached : \E i \in 1..Len(listed') : listed'[i] = c
         /\ outcomes' = [i \in 1..Len(listed') |-> None]
         /\ listed' \in SetToSeqs(Attached)
<1> DEFINE n == Cardinality(Attached)
<1>1. listed' \in SetToSeqs(Attached) /\ outcomes' = [i \in DOMAIN listed' |-> None]
  BY Zenon DEF List, Attached
<1>2. IsFiniteSet(Attached) /\ n \in Nat
  BY AttachedContainers, SnapshotAssumption, FS_Subset, FS_CardinalityType
<1>3. listed' \in [1..n -> Attached] /\ IsInjective(listed')
  BY <1>1 DEF SetToSeqs, IsInjective
<1>4. Len(listed') = n
  BY <1>2, <1>3, FunctionIsSeq
<1>5. listed' \in Surjection(1..n, Attached)
  <2>1. listed' \in Injection(1..n, Attached)
    BY <1>3 DEF Injection
  <2>2. Cardinality(1..n) = n
    BY <1>2, FS_Interval
  <2> QED
    BY <1>2, <2>1, <2>2, FS_Injection
<1> QED
  BY <1>1, <1>2, <1>3, <1>4, <1>5 DEF Surjection

LEMMA TypeStep == IInv /\ [Next]_vars => TypeOK'
<1> SUFFICES ASSUME IInv, [Next]_vars PROVE TypeOK'
  OBVIOUS
<1> USE DEF TypeOK
<1>0. TypeOK
  BY DEF IInv
<1>1. CASE Call
  BY <1>0, <1>1 DEF Call
<1>2. CASE List
  <2>1. /\ pc = "list" /\ pc' = "inspect" /\ docker' = docker
        /\ launched' = launched /\ touched' = touched
    BY <1>2 DEF List
  <2>2. /\ Len(listed') \in Nat /\ listed' \in [1..Len(listed') -> Attached]
        /\ outcomes' = [i \in 1..Len(listed') |-> None]
    BY <1>2, ListMeans
  <2> QED
    BY <1>0, <2>1, <2>2, AttachedContainers
<1>3. CASE ListFails
  BY <1>0, <1>3 DEF ListFails, Return
<1>4. CASE Launch
  BY <1>0, <1>4 DEF Launch
<1>5. CASE Collect
  BY <1>0, <1>5 DEF Collect, Return
<1>6. ASSUME NEW i \in DOMAIN outcomes, Inspect(i) PROVE TypeOK'
  <2>1. /\ pc = "inspect" /\ i \in 1..launched
        /\ UNCHANGED <<docker, pc, listed, launched, touched>>
        /\ \/ outcomes' = [outcomes EXCEPT ![i] = docker[listed[i]]]
           \/ outcomes' = [outcomes EXCEPT ![i] = Failed]
    BY <1>6 DEF Inspect, InFlight
  <2>2. i \in 1..Len(listed) /\ docker[listed[i]] \in Settings \cup {Gone, None, Failed}
    BY <1>0, <2>1
  <2> QED
    BY <1>0, <2>1, <2>2
<1>7. ASSUME NEW c \in Container, DockerChanges(c) PROVE TypeOK'
  <2>1. /\ docker' \in [Container -> Settings \cup {Gone}]
        /\ UNCHANGED <<pc, listed, launched, outcomes>>
    BY <1>0, <1>7 DEF DockerChanges
  <2>2. touched' \subseteq Container
    BY <1>0, <1>7 DEF DockerChanges
  <2> QED
    BY <1>0, <2>1, <2>2
<1>8. CASE UNCHANGED vars
  BY <1>0, <1>8 DEF vars
<1> QED
  BY <1>1, <1>2, <1>3, <1>4, <1>5, <1>6, <1>7, <1>8 DEF Next

\* What a change of a container leaves alone while a snapshot is under way.
LEMMA ChangeMeans ==
  ASSUME IInv, NEW c \in Container, DockerChanges(c)
  PROVE  /\ \A d \in Container \ {c} : docker'[d] = docker[d] /\ Endpoints(d)' = Endpoints(d)
         /\ UNCHANGED <<pc, listed, launched, outcomes, result, body, faulty>>
         /\ lastBody' = None
         /\ pc # "idle" => touched' = touched \cup {c} /\ existed' = existed \cup Endpoints(c)'
<1>1. \A d \in Container \ {c} : docker'[d] = docker[d]
  BY DEF DockerChanges, IInv, TypeOK
<1>2. /\ UNCHANGED <<pc, listed, launched, outcomes, result, body, faulty>>
      /\ lastBody' = None
      /\ pc # "idle" => touched' = touched \cup {c} /\ existed' = existed \cup Endpoints(c)'
  BY DEF DockerChanges
<1>3. \A d \in Container \ {c} : Endpoints(d)' = Endpoints(d)
  BY <1>1 DEF Endpoints
<1> QED
  BY <1>1, <1>2, <1>3

LEMMA AnswersStep == IInv /\ [Next]_vars => AnswersTrue'
<1> SUFFICES ASSUME IInv, [Next]_vars PROVE AnswersTrue'
  OBVIOUS
<1> USE DEF AnswersTrue
<1>0. AnswersTrue
  BY DEF IInv
<1>1. CASE Call
  BY <1>1 DEF Call
<1>2. CASE List
  <2>1. \A i \in 1..Len(listed') : outcomes'[i] = None
    BY <1>2, ListMeans
  <2> QED
    BY <2>1, SnapshotAssumption
<1>3. CASE ListFails
  BY <1>3 DEF ListFails, Return
<1>4. CASE Launch
  BY <1>0, <1>4 DEF Launch
<1>5. CASE Collect
  BY <1>5 DEF Collect, Return
<1>6. ASSUME NEW i \in DOMAIN outcomes, Inspect(i) PROVE AnswersTrue'
  <2>1. /\ pc = "inspect" /\ UNCHANGED <<docker, pc, listed, touched, existed>>
        /\ \/ outcomes' = [outcomes EXCEPT ![i] = docker[listed[i]]] /\ faulty' = faulty
           \/ outcomes' = [outcomes EXCEPT ![i] = Failed] /\ faulty' = TRUE
    BY <1>6 DEF Inspect
  <2>2. /\ DOMAIN outcomes = 1..Len(listed) /\ listed[i] \in Container
        /\ docker[listed[i]] \in Settings \cup {Gone}
    BY <2>1 DEF IInv, TypeOK
  <2>3. \A k \in 1..Len(listed) : k # i => outcomes'[k] = outcomes[k]
    BY <2>1, <2>2
  <2>4. outcomes'[i] = docker[listed[i]] \/ (outcomes'[i] = Failed /\ faulty')
    BY <2>1, <2>2
  <2>5. outcomes'[i] \in Settings => ToSet(EndpointsOf(outcomes'[i])) \subseteq existed
    <3>1. CASE outcomes'[i] = docker[listed[i]] /\ outcomes'[i] \in Settings
      <4>1. Endpoints(listed[i]) = ToSet(EndpointsOf(docker[listed[i]]))
        BY <3>1, SnapshotAssumption DEF Endpoints
      <4>2. Endpoints(listed[i]) \subseteq existed
        BY <2>1, <2>2 DEF IInv, NowExisted
      <4> QED
        BY <3>1, <4>1, <4>2
    <3> QED
      BY <2>4, <3>1, SnapshotAssumption
  <2>6. outcomes'[i] = Failed => faulty'
    BY <2>2, <2>4, SnapshotAssumption
  <2>7. outcomes'[i] \in Settings \cup {Gone} => outcomes'[i] = docker[listed[i]]
    BY <2>4, SnapshotAssumption
  <2>8. faulty => faulty'
    BY <2>1
  <2> QED
    BY <1>0, <2>1, <2>3, <2>5, <2>6, <2>7, <2>8
<1>7. ASSUME NEW c \in Container, DockerChanges(c) PROVE AnswersTrue'
  <2> SUFFICES ASSUME pc = "inspect", NEW i \in 1..Len(listed)
               PROVE  /\ outcomes[i] = Failed => faulty
                      /\ outcomes[i] \in Settings =>
                            ToSet(EndpointsOf(outcomes[i])) \subseteq existed'
                      /\ outcomes[i] \in Settings \cup {Gone} /\ listed[i] \notin touched' =>
                           outcomes[i] = docker'[listed[i]]
    BY <1>7, ChangeMeans
  <2>1. existed \subseteq existed' /\ touched' = touched \cup {c}
    BY <1>7, ChangeMeans
  <2>2. listed[i] \in Container
    BY DEF IInv, TypeOK
  <2>3. listed[i] # c => docker'[listed[i]] = docker[listed[i]]
    BY <1>7, <2>2, ChangeMeans
  <2> QED
    BY <1>0, <2>1, <2>3
<1>8. CASE UNCHANGED vars
  BY <1>0, <1>8 DEF vars
<1> QED
  BY <1>1, <1>2, <1>3, <1>4, <1>5, <1>6, <1>7, <1>8 DEF Next

\* A container on none of the networks has no endpoint.
LEMMA DetachedEmpty ==
  ASSUME IInv, NEW c \in Container, Endpoints(c) # {}
  PROVE  c \in Attached
<1>1. docker[c] # Gone /\ c \in Running /\ \E i \in DOMAIN EndpointsOf(docker[c]) : TRUE
  BY DEF Endpoints, ToSet, Running
<1>2. PICK i \in DOMAIN EndpointsOf(docker[c]) : TRUE
  BY <1>1
<1>3. i \in DOMAIN networks /\ EndpointAt(docker[c], networks[i]).ip # NoIP
  BY <1>2 DEF EndpointsOf
<1>4. docker[c][networks[i]] # NoEndpoint
  BY <1>3 DEF EndpointAt, NoEndpoint
<1>5. networks[i] \in ToSet(networks)
  BY <1>3 DEF ToSet
<1> QED
  BY <1>1, <1>4, <1>5 DEF Attached

LEMMA ListStep == IInv /\ [Next]_vars => ListComplete'
<1> SUFFICES ASSUME IInv, [Next]_vars PROVE ListComplete'
  OBVIOUS
<1> USE DEF ListComplete
<1>0. ListComplete
  BY DEF IInv
<1>1. CASE Call
  BY <1>1 DEF Call
<1>2. CASE List
  <2>1. docker' = docker /\ touched' = touched
    BY <1>2 DEF List
  <2>2. Attached' = Attached /\ \A c \in Container : Endpoints(c)' = Endpoints(c)
    BY <2>1 DEF Attached, Running, Endpoints
  <2> QED
    BY <1>2, <2>1, <2>2, ListMeans, DetachedEmpty
<1>3. CASE ListFails
  BY <1>3 DEF ListFails, Return
<1>4. CASE Collect
  BY <1>4 DEF Collect, Return
<1>5. CASE UNCHANGED <<docker, pc, listed, touched>>
  BY <1>0, <1>5 DEF Attached, Running, Endpoints
<1>6. CASE Launch
  BY <1>5, <1>6 DEF Launch
<1>7. ASSUME NEW i \in DOMAIN outcomes, Inspect(i) PROVE ListComplete'
  BY <1>5, <1>7 DEF Inspect
<1>8. ASSUME NEW c \in Container, DockerChanges(c) PROVE ListComplete'
  <2> SUFFICES ASSUME pc = "inspect"
               PROVE  /\ \A d \in Container \ touched' :
                           Endpoints(d)' # {} => \E i \in 1..Len(listed) : listed[i] = d
                      /\ touched' # {}
    BY <1>8, ChangeMeans
  <2>1. touched' = touched \cup {c}
    BY <1>8, ChangeMeans
  <2>2. \A d \in Container \ touched' : d \in Container \ touched /\ Endpoints(d)' = Endpoints(d)
    BY <1>8, <2>1, ChangeMeans
  <2> QED
    BY <1>0, <2>1, <2>2
<1>9. CASE UNCHANGED vars
  BY <1>5, <1>9 DEF vars
<1> QED
  BY <1>1, <1>2, <1>3, <1>4, <1>6, <1>7, <1>8, <1>9 DEF Next

LEMMA ExistedStep == IInv /\ [Next]_vars => NowExisted'
<1> SUFFICES ASSUME IInv, [Next]_vars PROVE NowExisted'
  OBVIOUS
<1> USE DEF NowExisted
<1>0. NowExisted
  BY DEF IInv
<1>1. CASE Call
  <2>1. existed' = AllEndpoints /\ \A c \in Container : Endpoints(c)' = Endpoints(c)
    BY <1>1 DEF Call, Endpoints
  <2> QED
    BY <2>1 DEF AllEndpoints
<1>2. CASE ListFails \/ Collect
  BY <1>2 DEF ListFails, Collect, Return
<1>3. CASE UNCHANGED <<docker, existed>> /\ (pc' # "idle" => pc # "idle")
  BY <1>0, <1>3 DEF Endpoints
<1>4. CASE List \/ Launch
  BY <1>3, <1>4 DEF List, Launch
<1>5. ASSUME NEW i \in DOMAIN outcomes, Inspect(i) PROVE NowExisted'
  BY <1>3, <1>5 DEF Inspect
<1>6. ASSUME NEW c \in Container, DockerChanges(c) PROVE NowExisted'
  <2> SUFFICES ASSUME pc # "idle", NEW d \in Container PROVE Endpoints(d)' \subseteq existed'
    BY <1>6, ChangeMeans
  <2>1. existed' = existed \cup Endpoints(c)'
    BY <1>6, ChangeMeans
  <2>2. d # c => Endpoints(d)' = Endpoints(d)
    BY <1>6, ChangeMeans
  <2> QED
    BY <1>0, <2>1, <2>2
<1>7. CASE UNCHANGED vars
  BY <1>3, <1>7 DEF vars
<1> QED
  BY <1>1, <1>2, <1>4, <1>5, <1>6, <1>7 DEF Next

LEMMA BodyStep == IInv /\ [Next]_vars => BodyOfResult'
<1> SUFFICES ASSUME IInv, [Next]_vars PROVE BodyOfResult'
  OBVIOUS
<1> USE DEF BodyOfResult
<1>0. BodyOfResult
  BY DEF IInv
<1>1. CASE Call
  BY <1>1 DEF Call
<1>2. CASE ListFails
  BY <1>2 DEF ListFails, Return
<1>3. CASE Collect
  BY <1>3, CollectMeans
<1>4. CASE UNCHANGED <<result, body>>
  BY <1>0, <1>4
<1>5. CASE List \/ Launch
  BY <1>4, <1>5 DEF List, Launch
<1>6. ASSUME NEW i \in DOMAIN outcomes, Inspect(i) PROVE BodyOfResult'
  BY <1>4, <1>6 DEF Inspect
<1>7. ASSUME NEW c \in Container, DockerChanges(c) PROVE BodyOfResult'
  BY <1>4, <1>7 DEF DockerChanges
<1>8. CASE UNCHANGED vars
  BY <1>4, <1>8 DEF vars
<1> QED
  BY <1>1, <1>2, <1>3, <1>5, <1>6, <1>7, <1>8 DEF Next

LEMMA LastStep == IInv /\ [Next]_vars => LastBodyCurrent'
<1> SUFFICES ASSUME IInv, [Next]_vars PROVE LastBodyCurrent'
  OBVIOUS
<1>0. LastBodyCurrent
  BY DEF IInv
<1>1. CASE UNCHANGED docker
  <2>1. Attached' = Attached /\ \A l : BodyOf(l)' = BodyOf(l)
    BY <1>1 DEF Attached, Running, BodyOf, InspectAll
  <2>2. CASE lastBody' = lastBody
    BY <1>0, <2>1, <2>2 DEF LastBodyCurrent
  <2>3. CASE Collect
    <3>1. CASE lastBody' \in {lastBody, None}
      BY <1>0, <2>1, <3>1 DEF LastBodyCurrent
    <3>2. CASE lastBody' \notin {lastBody, None}
      <4>1. /\ touched = {} /\ lastBody' = renderEndpoints(SortedEndpoints(outcomes))
            /\ pc = "inspect" /\ \A i \in 1..Len(listed) : outcomes[i] \in Settings \cup {Gone}
        BY <2>3, <3>2, CollectMeans
      <4>2. outcomes = InspectAll(listed) /\ listed \in SetToSeqs(Attached)
        BY <4>1, UntouchedAnswers
      <4>3. lastBody' = BodyOf(listed)
        BY <4>1, <4>2 DEF BodyOf
      <4> QED
        BY <2>1, <4>2, <4>3 DEF LastBodyCurrent
    <3> QED
      BY <3>1, <3>2
  <2>4. CASE ListFails
    BY <2>2, <2>4 DEF ListFails, Return
  <2>5. CASE Call \/ List \/ Launch
    BY <2>2, <2>5 DEF Call, List, Launch
  <2>6. ASSUME NEW i \in DOMAIN outcomes, Inspect(i) PROVE LastBodyCurrent'
    BY <2>2, <2>6 DEF Inspect
  <2>7. ASSUME NEW c \in Container, DockerChanges(c) PROVE LastBodyCurrent'
    BY <2>7 DEF DockerChanges, LastBodyCurrent
  <2>8. CASE UNCHANGED vars
    BY <2>2, <2>8 DEF vars
  <2> QED
    BY <2>3, <2>4, <2>5, <2>6, <2>7, <2>8 DEF Next
<1>2. CASE docker' # docker
  <2>1. \E c \in Container : DockerChanges(c)
    BY <1>2 DEF Next, vars, Call, List, ListFails, Launch, Collect, Return, Inspect
  <2> QED
    BY <2>1 DEF DockerChanges, LastBodyCurrent
<1> QED
  BY <1>1, <1>2

LEMMA Initially == Init => IInv
<1> SUFFICES ASSUME Init PROVE IInv
  OBVIOUS
<1>1. TypeOK
  BY DEF Init, TypeOK
<1>2. AnswersTrue /\ ListComplete /\ NowExisted
  BY DEF Init, AnswersTrue, ListComplete, NowExisted
<1>3. BodyOfResult /\ LastBodyCurrent
  BY DEF Init, BodyOfResult, LastBodyCurrent
<1> QED
  BY <1>1, <1>2, <1>3 DEF IInv

(***************************************************************************)
(* The invariant holds in every reachable state.                           *)
(***************************************************************************)
THEOREM SnapshotInvariant == Spec => []IInv
<1>1. IInv /\ [Next]_vars => IInv'
  BY TypeStep, AnswersStep, ListStep, ExistedStep, BodyStep, LastStep DEF IInv
<1> QED
  BY Initially, <1>1, PTL DEF Spec

-----------------------------------------------------------------------------
(***************************************************************************)
(* A body that is written has no marker line, whatever aliases Docker      *)
(* reports, and every name in it leads to an endpoint that has that name.  *)
(***************************************************************************)
THEOREM BodiesWellFormed == Spec => []BodyWellFormed
<1>1. IInv => BodyWellFormed
  <2> SUFFICES ASSUME IInv, Succeeded, body # Failed, NEW i \in DOMAIN body
               PROVE  /\ ~body[i].marker
                      /\ \A n \in ToSet(body[i].names) : \E e \in ToSet(result) :
                           /\ e.ip = body[i].ip
                           /\ \E a \in ToSet(e.aliases) :
                                \/ n = Qualified[<<a, e.network>>]
                                \/ n = a /\ e.network = DefaultNetwork
    BY DEF BodyWellFormed
  <2>1. result \in Seq(Endpoint) /\ body = renderEndpoints(result)
    BY DEF IInv, BodyOfResult, Succeeded
  <2>2. PICK j \in DOMAIN result : validateEndpoint(result[j]) /\ body[i] = Line(result[j])
    BY <2>1, RenderWorks
  <2> DEFINE e == result[j]
  <2>3. e \in Endpoint /\ e \in ToSet(result)
    BY <2>1 DEF ToSet
  <2> HIDE DEF e
  <2>4. /\ body[i].ip = e.ip /\ body[i].names = hostnames(e)
        /\ body[i].marker = (\E k \in DOMAIN e.aliases : e.aliases[k] \in Delimited)
    BY <2>2 DEF Line, e
  <2>5. \A k \in DOMAIN e.aliases : e.aliases[k] \notin Delimited
    BY <2>2 DEF validateEndpoint, validateHostnamePart, e
  <2>6. \A n \in ToSet(hostnames(e)) : \E a \in ToSet(e.aliases) :
          n = Qualified[<<a, e.network>>] \/ (n = a /\ e.network = DefaultNetwork)
    BY <2>3, HostnamesWork DEF Names
  <2> QED
    BY <2>3, <2>4, <2>5, <2>6
<1> QED
  BY <1>1, SnapshotInvariant, PTL

(***************************************************************************)
(* A snapshot that succeeds has every endpoint of the containers nobody    *)
(* touched meanwhile and only endpoints that existed meanwhile; one that   *)
(* fails after the list has met an error that is not a vanished container. *)
(***************************************************************************)
THEOREM SnapshotsFaithful == Spec => SnapshotFaithful
<1>1. ASSUME IInv, [Next]_vars, pc = "inspect", pc' = "idle"
      PROVE  \/ result' = Failed /\ faulty
             \/ /\ Succeeded'
                /\ UNION {Endpoints(c) : c \in Container \ touched} \subseteq ToSet(result')
                /\ ToSet(result') \subseteq existed
  <2>1. Collect
    BY <1>1 DEF Next, vars, Call, List, ListFails, Launch, Inspect, DockerChanges
  <2>2. CASE result' = Failed /\ faulty
    BY <2>2
  <2>3. CASE ~(result' = Failed /\ faulty)
    <3>1. /\ Answers(outcomes) /\ \A i \in 1..Len(listed) : outcomes[i] \in Settings \cup {Gone}
          /\ result' = SortedEndpoints(outcomes) /\ result' \notin {None, Failed}
      BY <1>1, <2>1, <2>3, CollectMeans
    <3>2. ToSet(result') = UNION {ToSet(EndpointsOf(outcomes[i])) :
                                    i \in {i \in DOMAIN outcomes : outcomes[i] # Gone}}
      BY <3>1, SortedEndpointsWork
    <3>3. DOMAIN outcomes = 1..Len(listed)
      BY <1>1 DEF IInv, TypeOK
    <3>4. ASSUME NEW e \in ToSet(result') PROVE e \in existed
      <4>1. PICK i \in 1..Len(listed) : outcomes[i] # Gone /\ e \in ToSet(EndpointsOf(outcomes[i]))
        BY <3>2, <3>3
      <4> QED
        BY <1>1, <3>1, <4>1 DEF IInv, AnswersTrue
    <3>5. ASSUME NEW c \in Container \ touched, NEW e \in Endpoints(c) PROVE e \in ToSet(result')
      <4>1. PICK i \in 1..Len(listed) : listed[i] = c
        BY <1>1 DEF IInv, ListComplete
      <4>2. outcomes[i] = docker[c]
        BY <1>1, <3>1, <4>1 DEF IInv, AnswersTrue
      <4>3. docker[c] # Gone /\ e \in ToSet(EndpointsOf(docker[c]))
        BY DEF Endpoints
      <4> QED
        BY <3>2, <3>3, <4>2, <4>3
    <3> QED
      BY <3>1, <3>4, <3>5 DEF Succeeded
  <2> QED
    BY <2>2, <2>3
<1>2. IInv /\ [Next]_vars => [pc = "inspect" /\ pc' = "idle" =>
                                \/ result' = Failed /\ faulty
                                \/ /\ Succeeded'
                                   /\ UNION {Endpoints(c) : c \in Container \ touched}
                                        \subseteq ToSet(result')
                                   /\ ToSet(result') \subseteq existed]_vars
  BY <1>1
<1> QED
  BY <1>2, SnapshotInvariant, PTL DEF Spec, SnapshotFaithful

(***************************************************************************)
(* Two successful snapshots of the same containers render the same body,   *)
(* in whatever order Docker lists and answers.                             *)
(***************************************************************************)
THEOREM SameBodies == Spec => SameDockerSameBody
<1>1. ASSUME IInv, [Next]_vars, pc = "inspect", pc' = "idle", body' # Failed, touched = {},
             lastBody # None
      PROVE  body' = lastBody
  <2>1. Collect
    BY <1>1 DEF Next, vars, Call, List, ListFails, Launch, Inspect, DockerChanges
  <2>2. /\ \A i \in 1..Len(listed) : outcomes[i] \in Settings \cup {Gone}
        /\ body' = renderEndpoints(SortedEndpoints(outcomes))
    BY <1>1, <2>1, CollectMeans
  <2>3. outcomes = InspectAll(listed) /\ listed \in SetToSeqs(Attached)
    BY <1>1, <2>2, UntouchedAnswers
  <2>4. PICK l \in SetToSeqs(Attached) : lastBody = BodyOf(l)
    BY <1>1 DEF IInv, LastBodyCurrent
  <2>5. docker \in [Container -> Settings \cup {Gone}]
    BY <1>1 DEF IInv, TypeOK
  <2>6. SortedEndpoints(InspectAll(listed)) = SortedEndpoints(InspectAll(l))
    BY <2>3, <2>4, <2>5, AttachedContainers, ListOrderIrrelevant DEF InspectAll
  <2> QED
    BY <2>2, <2>3, <2>4, <2>6 DEF BodyOf
<1>2. IInv /\ [Next]_vars => [pc = "inspect" /\ pc' = "idle" /\ body' # Failed /\ touched = {}
                                /\ lastBody # None => body' = lastBody]_vars
  BY <1>1
<1> QED
  BY <1>2, SnapshotInvariant, PTL DEF Spec, SameDockerSameBody
=============================================================================
