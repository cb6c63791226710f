----------------------- MODULE RouteConflicts_proofs -----------------------
(***************************************************************************)
(* Theorems about patterns and Build's conflict detection.  First the      *)
(* relation between two patterns, of every length and over paths of every  *)
(* length: comparePaths says what holds of the sets of paths the two       *)
(* match, so a conflict is an ambiguity.  Then a table of every size and   *)
(* every PairwiseLimit: exactly its ambiguous pairs are reported, because  *)
(* splitting a group never keeps apart two patterns that conflict.         *)
(***************************************************************************)
EXTENDS RouteConflicts, LeastNumber, FiniteSetTheorems, TLAPS

\* The strings.  The provers do not know that a literal is one of them.
Texts == STRING \cup {"", "*", "a", "b"}

\* Everything a pattern matches.
PathsOf(segs) == {path \in Seq(Texts) : PathMatches(segs, path)}

\* What parsePattern builds: at least one segment, and a multi only at the end.
SegLists ==
    {segs \in Seq([kind : {"lit", "single", "multi"}, text : Texts]) :
        segs # <<>> /\ \A i \in 1..(Len(segs) - 1) : ~IsMulti(segs[i])}

LEMMA RouteFacts ==
    ASSUME NEW p \in SegLists
    PROVE  /\ Len(p) \in Nat /\ Len(p) >= 1
           /\ \A i \in 1..Len(p) : /\ p[i].kind \in {"lit", "single", "multi"}
                                   /\ p[i].text \in Texts
           /\ \A i \in 1..Len(p) : IsMulti(p[i]) => i = Len(p)
<1> DEFINE D == [kind : {"lit", "single", "multi"}, text : Texts]
<1>1. p \in Seq(D) /\ p # <<>> /\ \A i \in 1..(Len(p) - 1) : ~IsMulti(p[i])
  BY DEF SegLists
<1>2. \A i \in 1..Len(p) : p[i] \in D
  <2> HIDE DEF D
  <2> QED
    BY <1>1
<1>3. Len(p) \in Nat /\ Len(p) >= 1
  <2> HIDE DEF D
  <2> QED
    BY <1>1
<1> QED
  BY <1>1, <1>2, <1>3

-----------------------------------------------------------------------------
(* The loop. *)

LEMMA RelStep ==
    ASSUME NEW p, NEW q, Common(p, q) \in Nat
    PROVE  /\ relAfter(p, q)[0] = "equivalent"
           /\ \A i \in 1..Common(p, q) :
                relAfter(p, q)[i] = combineRel(relAfter(p, q)[i - 1], compareAt(p, q, i))
<1> DEFINE Of(r, k) == [i \in 0..k |-> IF i = 0 THEN "equivalent"
                                       ELSE combineRel(r[i - 1], compareAt(p, q, i))]
           n == Common(p, q)
           S == {k \in 0..n : \E r : r = Of(r, k)}
<1>1. 0 \in S
  <2> DEFINE r == [i \in 0..0 |-> "equivalent"]
  <2>1. r = Of(r, 0)
    OBVIOUS
  <2>2. \E m : m = Of(m, 0)
    <3> HIDE DEF r
    <3> QED
      BY <2>1
  <2> QED
    BY <2>2
<1>2. ASSUME NEW k \in 1..n, k - 1 \in S PROVE k \in S
  <2>1. PICK r : r = Of(r, k - 1)
    BY <1>2
  <2> DEFINE e == [i \in 0..k |-> IF i = k THEN combineRel(r[k - 1], compareAt(p, q, k))
                                  ELSE r[i]]
  <2>2. \A i \in 0..k - 1 : e[i] = r[i]
    OBVIOUS
  <2>3. ASSUME NEW i \in 0..k PROVE e[i] = Of(e, k)[i]
    <3>1. CASE i = k
      BY <2>2, <3>1
    <3>2. CASE i # k
      <4>1. e[i] = IF i = 0 THEN "equivalent" ELSE combineRel(r[i - 1], compareAt(p, q, i))
        BY <2>1, <2>2, <3>2
      <4>2. i # 0 => e[i - 1] = r[i - 1]
        BY <2>2, <3>2
      <4> QED
        BY <4>1, <4>2
    <3> QED
      BY <3>1, <3>2
  <2>4. e = Of(e, k)
    BY <2>3
  <2>5. \E m : m = Of(m, k)
    <3> HIDE DEF e
    <3> QED
      BY <2>4
  <2> QED
    BY <2>5
<1>3. n \in S
  <2> HIDE DEF S
  <2>1. 0..n \subseteq S
    BY <1>1, <1>2, Reaches
  <2> QED
    BY <2>1
<1>4. \E r : r = Of(r, n)
  BY <1>3
<1>5. relAfter(p, q) = Of(relAfter(p, q), n)
  BY <1>4 DEF relAfter
<1> QED
  BY <1>5

\* What combineRel makes of the verdicts on the first n positions.
Says(p, q, n, rel) == \E i \in 1..n : compareAt(p, q, i) = rel

Combined(p, q, n) ==
    IF Says(p, q, n, "disjoint") THEN "disjoint"
    ELSE IF Says(p, q, n, "moreGeneral")
         THEN IF Says(p, q, n, "moreSpecific") THEN "overlaps" ELSE "moreGeneral"
         ELSE IF Says(p, q, n, "moreSpecific") THEN "moreSpecific" ELSE "equivalent"

LEMMA VerdictKinds ==
    \A p, q, i : compareAt(p, q, i) \in {"equivalent", "moreGeneral", "moreSpecific", "disjoint"}
BY DEF compareAt, compareTails, compareSegs

LEMMA RelIsCombined ==
    ASSUME NEW p, NEW q, Common(p, q) \in Nat
    PROVE  \A n \in 0..Common(p, q) : relAfter(p, q)[n] = Combined(p, q, n)
<1> DEFINE S == {n \in 0..Common(p, q) : relAfter(p, q)[n] = Combined(p, q, n)}
<1>1. 0 \in S
  BY RelStep DEF Combined, Says
<1>2. ASSUME NEW n \in 1..Common(p, q), n - 1 \in S PROVE n \in S
  <2>1. PICK a, b : a = relAfter(p, q)[n - 1] /\ b = compareAt(p, q, n)
    OBVIOUS
  <2>2. a = Combined(p, q, n - 1) /\ relAfter(p, q)[n] = combineRel(a, b)
    BY <1>2, <2>1, RelStep
  <2>3. \A rel : Says(p, q, n, rel) <=> (Says(p, q, n - 1, rel) \/ b = rel)
    <3>1. \A i : i \in 1..n <=> (i \in 1..n - 1 \/ i = n)
      OBVIOUS
    <3> QED
      BY <2>1, <3>1 DEF Says
  <2>4. b \in {"equivalent", "moreGeneral", "moreSpecific", "disjoint"}
    BY <2>1, VerdictKinds
  <2>5. combineRel(a, b) = Combined(p, q, n)
    BY <2>2, <2>3, <2>4 DEF Combined, combineRel
  <2> QED
    BY <2>2, <2>5
<1>3. 0..Common(p, q) \subseteq S
  <2> HIDE DEF S
  <2> QED
    BY <1>1, <1>2, Reaches
<1> QED
  BY <1>3

-----------------------------------------------------------------------------
(* Where the loop stops. *)

\* The loop over p and q goes as far as position n.
Settled(p, q, n) ==
    /\ n \in Nat /\ n >= 1 /\ n <= Len(p) /\ n <= Len(q)
    /\ \A i \in 1..n - 1 : ~IsMulti(p[i]) /\ ~IsMulti(q[i])
    /\ \/ IsMulti(p[n]) /\ n = Len(p)
       \/ IsMulti(q[n]) /\ n = Len(q)
       \/ ~IsMulti(p[n]) /\ ~IsMulti(q[n]) /\ n = Len(p) /\ n = Len(q)

LEMMA Stops ==
    ASSUME NEW p \in SegLists, NEW q \in SegLists
    PROVE  \/ /\ comparePaths(p, q) = "disjoint" /\ Len(p) # Len(q)
              /\ \A i \in 1..Common(p, q) : ~IsMulti(p[i]) /\ ~IsMulti(q[i])
           \/ \E n \in Nat : Settled(p, q, n) /\ comparePaths(p, q) = Combined(p, q, n)
<1> DEFINE c == Common(p, q)
           multis == {i \in 1..c : IsMulti(p[i]) \/ IsMulti(q[i])}
<1>1. /\ Len(p) \in Nat /\ Len(p) >= 1 /\ Len(q) \in Nat /\ Len(q) >= 1
      /\ c \in Nat /\ c <= Len(p) /\ c <= Len(q) /\ c >= 1 /\ (c = Len(p) \/ c = Len(q))
  BY RouteFacts DEF Common
<1>2. \A n \in 0..c : relAfter(p, q)[n] = Combined(p, q, n)
  BY <1>1, RelIsCombined
<1>3. CASE multis = {}
  <2>1. \A i \in 1..c : ~IsMulti(p[i]) /\ ~IsMulti(q[i])
    BY <1>3
  <2>2. CASE Len(p) = Len(q)
    <3>1. c = Len(p) /\ c = Len(q)
      BY <1>1, <2>2
    <3>2. comparePaths(p, q) = relAfter(p, q)[c]
      BY <1>3, <2>2, <3>1 DEF comparePaths
    <3>3. comparePaths(p, q) = Combined(p, q, c)
      BY <1>1, <1>2, <3>2
    <3>4. Settled(p, q, c)
      <4>1. c \in 1..c /\ \A i \in 1..c - 1 : i \in 1..c
        BY <1>1
      <4> HIDE DEF c
      <4> QED
        BY <1>1, <2>1, <3>1, <4>1 DEF Settled
    <3> QED
      BY <1>1, <3>3, <3>4
  <2>3. CASE Len(p) # Len(q)
    BY <1>3, <2>1, <2>3 DEF comparePaths
  <2> QED
    BY <2>2, <2>3
<1>4. CASE multis # {}
  <2>1. PICK n : n = CHOOSE i \in multis : \A j \in multis : i <= j
    OBVIOUS
  <2>2. n \in multis /\ \A j \in multis : n <= j
    <3>1. multis \in SUBSET Nat
      OBVIOUS
    <3> HIDE DEF multis
    <3> QED
      BY <1>4, <2>1, <3>1, LeastNatural
  <2>3. comparePaths(p, q) = Combined(p, q, n)
    <3>1. comparePaths(p, q) = relAfter(p, q)[n]
      BY <1>4, <2>1 DEF comparePaths
    <3> QED
      BY <1>2, <2>2, <3>1
  <2>4. n \in 1..c /\ (IsMulti(p[n]) \/ IsMulti(q[n]))
    BY <2>2
  <2>5. \A i \in 1..n - 1 : ~IsMulti(p[i]) /\ ~IsMulti(q[i])
    <3>1. ASSUME NEW i \in 1..n - 1 PROVE i \in 1..c /\ ~(n <= i)
      BY <1>1, <2>4
    <3> QED
      BY <2>2, <3>1
  <2>6. n \in Nat /\ n >= 1 /\ n <= Len(p) /\ n <= Len(q)
    BY <1>1, <2>4
  <2>7. (IsMulti(p[n]) => n = Len(p)) /\ (IsMulti(q[n]) => n = Len(q))
    BY <2>6, RouteFacts
  <2>8. Settled(p, q, n)
    BY <2>4, <2>5, <2>6, <2>7 DEF Settled
  <2> QED
    BY <2>3, <2>6, <2>8
<1> QED
  BY <1>3, <1>4

\* What matching means position by position.
LEMMA MatchFacts ==
    ASSUME NEW p \in SegLists, NEW path \in Seq(Texts)
    PROVE  PathMatches(p, path) <=>
             /\ Len(path) = Len(p) \/ (IsMulti(p[Len(p)]) /\ Len(path) > Len(p))
             /\ \A i \in 1..Len(p) : IsMulti(p[i]) \/ SegMatches(p[i], path[i])
<1>1. /\ Len(p) \in Nat /\ Len(p) >= 1 /\ Len(path) \in Nat
      /\ \A i \in 1..Len(p) : IsMulti(p[i]) => i = Len(p)
  BY RouteFacts
<1>2. \A m, k \in Nat : m >= k <=> (m = k \/ m > k)
  OBVIOUS
<1>3. \A i : i \in 1..Len(p) <=> (i \in 1..Len(p) - 1 \/ i = Len(p))
  BY <1>1
<1>4. CASE IsMulti(p[Len(p)])
  BY <1>1, <1>2, <1>3, <1>4 DEF PathMatches
<1>5. CASE ~IsMulti(p[Len(p)])
  BY <1>1, <1>3, <1>5 DEF PathMatches
<1> QED
  BY <1>4, <1>5

\* The relation seen from the other pattern.
LEMMA Dual ==
    ASSUME NEW p, NEW q, NEW n \in Nat
    PROVE  /\ Settled(p, q, n) => Settled(q, p, n)
           /\ Says(p, q, n, "disjoint") <=> Says(q, p, n, "disjoint")
           /\ Says(p, q, n, "moreSpecific") <=> Says(q, p, n, "moreGeneral")
<1>1. \A i : /\ compareAt(p, q, i) = "disjoint" <=> compareAt(q, p, i) = "disjoint"
             /\ compareAt(p, q, i) = "moreSpecific" <=> compareAt(q, p, i) = "moreGeneral"
  BY DEF compareAt, compareTails, compareSegs
<1> QED
  BY <1>1 DEF Settled, Says

-----------------------------------------------------------------------------
(* What the verdicts say of the paths. *)

LEMMA Apart ==
    ASSUME NEW p \in SegLists, NEW q \in SegLists, NEW n \in Nat, Settled(p, q, n),
           Says(p, q, n, "disjoint"), NEW path \in Seq(Texts),
           PathMatches(p, path), PathMatches(q, path)
    PROVE  FALSE
<1>1. PICK i \in 1..n : compareAt(p, q, i) = "disjoint"
  BY DEF Says
<1>2. i \in 1..Len(p) /\ i \in 1..Len(q)
  BY RouteFacts DEF Settled
<1>3. ~IsMulti(p[i]) /\ ~IsMulti(q[i]) /\ compareSegs(p[i], q[i]) = "disjoint"
  BY <1>1 DEF compareAt, compareTails
<1>4. SegMatches(p[i], path[i]) /\ SegMatches(q[i], path[i])
  BY <1>2, <1>3, MatchFacts
<1>5. p[i].kind \in {"lit", "single", "multi"} /\ q[i].kind \in {"lit", "single", "multi"}
  BY <1>2, RouteFacts
<1> QED
  BY <1>3, <1>4, <1>5 DEF compareSegs, SegMatches

LEMMA Inside ==
    ASSUME NEW p \in SegLists, NEW q \in SegLists, NEW n \in Nat, Settled(p, q, n),
           ~Says(p, q, n, "disjoint"), ~Says(p, q, n, "moreGeneral"),
           NEW path \in Seq(Texts), PathMatches(p, path)
    PROVE  PathMatches(q, path)
<1>1. /\ Len(p) \in Nat /\ Len(q) \in Nat /\ Len(path) \in Nat
      /\ n >= 1 /\ n <= Len(p) /\ n <= Len(q)
      /\ \A i \in 1..Len(p) : IsMulti(p[i]) => i = Len(p)
      /\ \A i \in 1..Len(q) : IsMulti(q[i]) => i = Len(q)
  BY RouteFacts DEF Settled
<1>2. /\ Len(path) = Len(p) \/ (IsMulti(p[Len(p)]) /\ Len(path) > Len(p))
      /\ \A i \in 1..Len(p) : IsMulti(p[i]) \/ SegMatches(p[i], path[i])
  BY MatchFacts
<1>3. \A i \in 1..n : /\ i \in 1..Len(p) /\ i \in 1..Len(q)
                      /\ compareAt(p, q, i) # "disjoint"
                      /\ compareAt(p, q, i) # "moreGeneral"
  BY <1>1 DEF Says
<1>4. \A i \in 1..n : IsMulti(p[i]) => IsMulti(q[i])
  BY <1>3 DEF compareAt, compareTails
<1>5. ASSUME NEW i \in 1..n, ~IsMulti(q[i]) PROVE SegMatches(q[i], path[i])
  <2>1. ~IsMulti(p[i]) /\ SegMatches(p[i], path[i])
    BY <1>2, <1>3, <1>4, <1>5
  <2>2. compareSegs(p[i], q[i]) \notin {"disjoint", "moreGeneral"}
    BY <1>3, <1>5, <2>1 DEF compareAt
  <2>3. p[i].kind \in {"lit", "single", "multi"} /\ q[i].kind \in {"lit", "single", "multi"}
    BY <1>3, RouteFacts
  <2> QED
    BY <2>1, <2>2, <2>3 DEF compareSegs, SegMatches
<1>6. n \in 1..n
  BY <1>1
<1>7. n = Len(q) /\ (Len(path) = n \/ (IsMulti(q[n]) /\ Len(path) > n))
  <2>1. CASE IsMulti(q[n])
    <3>1. n = Len(q)
      BY <1>1, <2>1
    <3>2. Len(path) >= n
      BY <1>1, <1>2
    <3> QED
      BY <1>1, <2>1, <3>1, <3>2
  <2>2. CASE ~IsMulti(q[n])
    <3>1. ~IsMulti(p[n])
      BY <1>4, <1>6, <2>2
    <3>2. n = Len(p) /\ n = Len(q)
      BY <2>2, <3>1 DEF Settled
    <3> QED
      BY <1>2, <3>1, <3>2
  <2> QED
    BY <2>1, <2>2
<1> QED
  BY <1>5, <1>7, MatchFacts

\* A path both patterns match, unless a position keeps them apart.
LEMMA Meet ==
    ASSUME NEW p \in SegLists, NEW q \in SegLists, NEW n \in Nat, Settled(p, q, n),
           ~Says(p, q, n, "disjoint")
    PROVE  \E path \in Seq(Texts) : PathMatches(p, path) /\ PathMatches(q, path)
<1>1. /\ Len(p) \in Nat /\ Len(q) \in Nat
      /\ n >= 1 /\ n <= Len(p) /\ n <= Len(q)
      /\ \A i \in 1..Len(p) : IsMulti(p[i]) => i = Len(p)
      /\ \A i \in 1..Len(q) : IsMulti(q[i]) => i = Len(q)
  BY RouteFacts DEF Settled
<1> DEFINE m == IF Len(p) >= Len(q) THEN Len(p) ELSE Len(q)
           name(i) == IF i \in 1..Len(p) /\ p[i].kind = "lit" THEN p[i].text
                      ELSE IF i \in 1..Len(q) /\ q[i].kind = "lit" THEN q[i].text
                      ELSE "a"
           path == [i \in 1..m |-> name(i)]
<1>2. m \in Nat /\ m >= Len(p) /\ m >= Len(q) /\ (m = Len(p) \/ m = Len(q))
  BY <1>1
<1>3. \A i \in 1..m : name(i) \in Texts
  <2>1. "a" \in Texts
    BY DEF Texts
  <2> QED
    BY <2>1, RouteFacts
<1>4. path \in Seq(Texts) /\ Len(path) = m /\ \A i \in 1..m : path[i] = name(i)
  <2> HIDE DEF m, name
  <2> QED
    BY <1>2, <1>3
<1>5. \/ n = Len(p) /\ n = Len(q)
      \/ n = Len(p) /\ IsMulti(p[n])
      \/ n = Len(q) /\ IsMulti(q[n])
  BY DEF Settled
<1>6. ASSUME NEW i \in 1..Len(p), i \in 1..Len(q), ~IsMulti(p[i]), ~IsMulti(q[i])
      PROVE  compareSegs(p[i], q[i]) # "disjoint"
  <2>1. i \in 1..n
    BY <1>1, <1>5, <1>6
  <2> QED
    BY <1>6, <2>1 DEF Says, compareAt
<1>7. ASSUME NEW i \in 1..Len(p), ~IsMulti(p[i]) PROVE SegMatches(p[i], name(i))
  <2>1. p[i].kind \in {"lit", "single"}
    BY <1>7, RouteFacts DEF IsMulti
  <2>2. CASE i \in 1..Len(q) /\ q[i].kind = "lit"
    BY <1>6, <1>7, <2>1, <2>2 DEF compareSegs, SegMatches, IsMulti
  <2>3. CASE ~(i \in 1..Len(q) /\ q[i].kind = "lit")
    BY <2>1, <2>3 DEF SegMatches
  <2> QED
    BY <2>2, <2>3
<1>8. ASSUME NEW i \in 1..Len(q), ~IsMulti(q[i]) PROVE SegMatches(q[i], name(i))
  <2>1. q[i].kind \in {"lit", "single"}
    BY <1>8, RouteFacts DEF IsMulti
  <2>2. CASE i \in 1..Len(p) /\ p[i].kind = "lit"
    BY <1>6, <1>8, <2>1, <2>2 DEF compareSegs, SegMatches, IsMulti
  <2>3. CASE ~(i \in 1..Len(p) /\ p[i].kind = "lit")
    BY <2>1, <2>3 DEF SegMatches
  <2> QED
    BY <2>2, <2>3
<1>9. /\ m = Len(p) \/ (IsMulti(p[Len(p)]) /\ m > Len(p))
      /\ m = Len(q) \/ (IsMulti(q[Len(q)]) /\ m > Len(q))
  BY <1>1, <1>5
<1>10. (\A i \in 1..Len(p) : i \in 1..m) /\ (\A i \in 1..Len(q) : i \in 1..m)
  BY <1>1, <1>2
<1>11. PathMatches(p, path) /\ PathMatches(q, path)
  <2> HIDE DEF m, name, path
  <2> QED
    BY <1>4, <1>7, <1>8, <1>9, <1>10, MatchFacts
<1> QED
  BY <1>4, <1>11

\* A position where p is more general yields a path of p's that q does not match.
LEMMA Beyond ==
    ASSUME NEW p \in SegLists, NEW q \in SegLists, NEW n \in Nat, Settled(p, q, n),
           ~Says(p, q, n, "disjoint"), Says(p, q, n, "moreGeneral")
    PROVE  \E path \in Seq(Texts) : PathMatches(p, path) /\ ~PathMatches(q, path)
<1>1. PICK w \in Seq(Texts) : PathMatches(p, w) /\ PathMatches(q, w)
  BY Meet
<1>2. PICK g \in 1..n : compareAt(p, q, g) = "moreGeneral"
  BY DEF Says
<1>3. /\ g \in 1..Len(p) /\ g \in 1..Len(q) /\ Len(p) \in Nat /\ Len(q) \in Nat
      /\ p[g].kind \in {"lit", "single", "multi"} /\ q[g].kind \in {"lit", "single", "multi"}
  BY RouteFacts DEF Settled
<1>4. ~IsMulti(q[g])
  BY <1>2 DEF compareAt, compareTails
<1>5. PICK x \in Texts : ~SegMatches(q[g], x) /\ (IsMulti(p[g]) \/ SegMatches(p[g], x))
  <2>1. CASE IsMulti(p[g])
    <3>1. ~SegMatches(q[g], "") \/ ~SegMatches(q[g], "a")
      BY DEF SegMatches
    <3>2. "" \in Texts /\ "a" \in Texts
      BY DEF Texts
    <3> QED
      BY <2>1, <3>1, <3>2
  <2>2. CASE ~IsMulti(p[g])
    <3>1. p[g].kind = "single" /\ q[g].kind = "lit" /\ q[g].text # ""
      BY <1>2, <1>3, <1>4, <2>2 DEF compareAt, compareSegs, IsMulti
    <3>2. \E x \in Texts : x # "" /\ x # q[g].text
      <4>1. "a" # "b" /\ "a" # "" /\ "b" # "" /\ "a" \in Texts /\ "b" \in Texts
        BY DEF Texts
      <4> QED
        BY <4>1
    <3> QED
      BY <3>1, <3>2 DEF SegMatches
  <2> QED
    BY <2>1, <2>2
<1>6. /\ Len(w) \in Nat
      /\ Len(w) = Len(p) \/ (IsMulti(p[Len(p)]) /\ Len(w) > Len(p))
      /\ \A i \in 1..Len(p) : IsMulti(p[i]) \/ SegMatches(p[i], w[i])
  BY <1>1, MatchFacts
<1>7. g \in 1..Len(w) /\ \A i \in 1..Len(p) : i \in 1..Len(w)
  BY <1>3, <1>6
<1> DEFINE path == [w EXCEPT ![g] = x]
<1>8. /\ path \in Seq(Texts) /\ Len(path) = Len(w)
      /\ \A i \in 1..Len(w) : path[i] = IF i = g THEN x ELSE w[i]
  BY <1>7
<1>9. PathMatches(p, path)
  <2> HIDE DEF path
  <2> QED
    BY <1>5, <1>6, <1>7, <1>8, MatchFacts
<1>10. ~PathMatches(q, path)
  <2> HIDE DEF path
  <2> QED
    BY <1>3, <1>4, <1>5, <1>7, <1>8, MatchFacts
<1> QED
  BY <1>8, <1>9, <1>10

\* Patterns of different lengths, where the shorter has no multi.
LEMMA Unequal ==
    ASSUME NEW p \in SegLists, NEW q \in SegLists, Len(p) # Len(q),
           \A i \in 1..Common(p, q) : ~IsMulti(p[i]) /\ ~IsMulti(q[i]),
           NEW path \in Seq(Texts), PathMatches(p, path), PathMatches(q, path)
    PROVE  FALSE
<1>1. Len(p) \in Nat /\ Len(q) \in Nat /\ Len(path) \in Nat /\ Len(p) >= 1 /\ Len(q) >= 1
  BY RouteFacts
<1>2. CASE Len(p) < Len(q)
  <2>1. Common(p, q) = Len(p) /\ Len(p) \in 1..Common(p, q)
    BY <1>1, <1>2 DEF Common
  <2>2. Len(path) = Len(p)
    BY <2>1, MatchFacts
  <2> QED
    BY <1>1, <1>2, <2>2, MatchFacts
<1>3. CASE Len(q) < Len(p)
  <2>1. Common(p, q) = Len(q) /\ Len(q) \in 1..Common(p, q)
    BY <1>1, <1>3 DEF Common
  <2>2. Len(path) = Len(q)
    BY <2>1, MatchFacts
  <2> QED
    BY <1>1, <1>3, <2>2, MatchFacts
<1> QED
  BY <1>1, <1>2, <1>3

-----------------------------------------------------------------------------
(* The theorems. *)

\* Neither meaning decides between two patterns that share a path.
Clash(p, q) ==
    /\ PathsOf(p) \cap PathsOf(q) # {}
    /\ ~(PathsOf(p) \subseteq PathsOf(q) /\ PathsOf(p) # PathsOf(q))
    /\ ~(PathsOf(q) \subseteq PathsOf(p) /\ PathsOf(p) # PathsOf(q))

\* comparePaths (router.go:397-425) says what holds of the paths the two
\* patterns match, in each of its five verdicts.
THEOREM RelationTrue ==
    ASSUME NEW p \in SegLists, NEW q \in SegLists
    PROVE  LET rel == comparePaths(p, q) IN
           /\ rel \in Relations
           /\ rel = "disjoint"     => PathsOf(p) \cap PathsOf(q) = {}
           /\ rel = "equivalent"   => PathsOf(p) = PathsOf(q) /\ PathsOf(p) # {}
           /\ rel = "moreSpecific" => /\ PathsOf(p) \subseteq PathsOf(q)
                                      /\ PathsOf(p) # PathsOf(q) /\ PathsOf(p) # {}
           /\ rel = "moreGeneral"  => /\ PathsOf(q) \subseteq PathsOf(p)
                                      /\ PathsOf(p) # PathsOf(q) /\ PathsOf(q) # {}
           /\ rel = "overlaps"     => /\ PathsOf(p) \cap PathsOf(q) # {}
                                      /\ ~(PathsOf(p) \subseteq PathsOf(q))
                                      /\ ~(PathsOf(q) \subseteq PathsOf(p))
<1> DEFINE rel == comparePaths(p, q)
<1>1. CASE /\ rel = "disjoint" /\ Len(p) # Len(q)
           /\ \A i \in 1..Common(p, q) : ~IsMulti(p[i]) /\ ~IsMulti(q[i])
  <2>1. PathsOf(p) \cap PathsOf(q) = {}
    BY <1>1, Unequal DEF PathsOf
  <2> QED
    BY <1>1, <2>1 DEF Relations
<1>2. CASE \E n \in Nat : Settled(p, q, n) /\ rel = Combined(p, q, n)
  <2>1. PICK n \in Nat : Settled(p, q, n) /\ rel = Combined(p, q, n)
    BY <1>2
  <2> DEFINE apart   == Says(p, q, n, "disjoint")
             general == Says(p, q, n, "moreGeneral")
             special == Says(p, q, n, "moreSpecific")
  <2>2. /\ Settled(q, p, n)
        /\ apart <=> Says(q, p, n, "disjoint")
        /\ special <=> Says(q, p, n, "moreGeneral")
    BY <2>1, Dual
  <2>3. apart => PathsOf(p) \cap PathsOf(q) = {}
    BY <2>1, Apart DEF PathsOf
  <2>4. ~apart => PathsOf(p) \cap PathsOf(q) # {}
    BY <2>1, Meet DEF PathsOf
  <2>5. ~apart /\ ~general => PathsOf(p) \subseteq PathsOf(q)
    BY <2>1, Inside DEF PathsOf
  <2>6. ~apart /\ ~special => PathsOf(q) \subseteq PathsOf(p)
    BY <2>2, Inside DEF PathsOf
  <2>7. ~apart /\ general => ~(PathsOf(p) \subseteq PathsOf(q))
    BY <2>1, Beyond DEF PathsOf
  <2>8. ~apart /\ special => ~(PathsOf(q) \subseteq PathsOf(p))
    BY <2>2, Beyond DEF PathsOf
  <2>9. rel = IF apart THEN "disjoint"
              ELSE IF general THEN IF special THEN "overlaps" ELSE "moreGeneral"
                   ELSE IF special THEN "moreSpecific" ELSE "equivalent"
    BY <2>1 DEF Combined
  <2> HIDE DEF apart, general, special, rel
  <2>10. CASE apart
    BY <2>3, <2>9, <2>10 DEF Relations, rel
  <2>11. CASE ~apart /\ general /\ special
    BY <2>4, <2>7, <2>8, <2>9, <2>11 DEF Relations, rel
  <2>12. CASE ~apart /\ general /\ ~special
    BY <2>4, <2>6, <2>7, <2>9, <2>12 DEF Relations, rel
  <2>13. CASE ~apart /\ ~general /\ special
    BY <2>4, <2>5, <2>8, <2>9, <2>13 DEF Relations, rel
  <2>14. CASE ~apart /\ ~general /\ ~special
    BY <2>4, <2>5, <2>6, <2>9, <2>14 DEF Relations, rel
  <2> QED
    BY <2>10, <2>11, <2>12, <2>13, <2>14
<1> QED
  BY <1>1, <1>2, Stops

\* A registration as Handle receives it (router.go:75-92).
Registration ==
    [method : Texts, host : Texts,
     route : Seq([form : {"text", "param", "star", "end", "bad"}, text : Texts])]

LEMMA ParsedIsRoute ==
    ASSUME NEW reg \in Registration, ~PatternBad(reg)
    PROVE  Segments(reg) \in SegLists
<1> DEFINE Raw == [form : {"text", "param", "star", "end", "bad"}, text : Texts]
           D == [kind : {"lit", "single", "multi"}, text : Texts]
<1>1. PICK r : r = reg.route /\ r \in Seq(Raw)
  BY DEF Registration
<1>2. PICK n \in Nat : n = Len(r) /\ n # 0
  <2>1. Len(r) \in Nat
    <3> HIDE DEF Raw
    <3> QED
      BY <1>1
  <2> QED
    BY <1>1, <2>1 DEF PatternBad
<1>3. \A i \in 1..n : r[i] \in Raw
  <2> HIDE DEF Raw
  <2> QED
    BY <1>1, <1>2
<1>4. PICK segs : segs = Segments(reg)
  OBVIOUS
<1>5. \A i \in 1..n : segs[i] = IF r[i] = [form |-> "text", text |-> ""] THEN Multi("")
                                ELSE parseSegment(r[i])
  BY <1>1, <1>2, <1>4 DEF Segments
<1>6. \A i \in 1..n : segs[i] \in D
  <2>1. "*" \in Texts /\ "" \in Texts
    BY DEF Texts
  <2>2. \A t \in Texts : Multi(t) \in D /\ Single(t) \in D /\ Lit(t) \in D
    BY DEF Multi, Single, Lit
  <2>3. \A raw \in Raw : raw.text \in Texts /\ raw.form \in {"text", "param", "star", "end", "bad"}
    OBVIOUS
  <2>4. \A raw \in Raw : parseSegment(raw) \in D
    <3> HIDE DEF Raw, D
    <3> QED
      BY <2>1, <2>2, <2>3 DEF parseSegment
  <2> HIDE DEF Raw, D
  <2> QED
    BY <1>3, <1>5, <2>1, <2>2, <2>4
<1>7. segs \in Seq(D) /\ Len(segs) = n /\ segs # <<>>
  <2> HIDE DEF D
  <2>1. segs = [i \in 1..n |-> segs[i]]
    BY <1>1, <1>2, <1>4 DEF Segments
  <2>2. segs \in [1..n -> D]
    BY <1>6, <2>1
  <2> QED
    BY <1>2, <2>2
<1>8. ASSUME NEW i \in 1..n - 1 PROVE ~IsMulti(segs[i])
  <2>1. i \in 1..n
    BY <1>8
  <2>2. parseSegment(r[i]) # Lit("") /\ ~IsMulti(parseSegment(r[i]))
    BY <1>1, <1>2, <1>8, <2>1 DEF PatternBad
  <2>3. r[i] # [form |-> "text", text |-> ""]
    <3>1. PICK slash : slash = [form |-> "text", text |-> ""]
      OBVIOUS
    <3>2. slash.form = "text" /\ slash.text = ""
      BY <3>1
    <3>3. parseSegment(slash) = Lit("")
      BY <3>2 DEF parseSegment
    <3> QED
      BY <2>2, <3>1, <3>3
  <2> QED
    BY <1>5, <2>1, <2>2, <2>3
<1> QED
  BY <1>4, <1>7, <1>8 DEF SegLists

\* Two patterns that parsePattern accepted conflict (router.go:495-510) exactly
\* when some path matches both and neither is more specific.
THEOREM ConflictIsAmbiguity ==
    ASSUME NEW a \in Registration, NEW b \in Registration, ~PatternBad(a), ~PatternBad(b)
    PROVE  Conflicting(parsePattern(a), parsePattern(b))
             <=> Clash(Segments(a), Segments(b))
<1>1. PICK p \in SegLists, q \in SegLists : p = Segments(a) /\ q = Segments(b)
  BY ParsedIsRoute
<1>2. Conflicting(parsePattern(a), parsePattern(b))
        <=> comparePaths(p, q) \in {"equivalent", "overlaps"}
  BY <1>1 DEF Conflicting, parsePattern
<1>3. comparePaths(p, q) \in {"equivalent", "overlaps"} <=> Clash(p, q)
  BY RelationTrue DEF Clash, Relations
<1> QED
  BY <1>1, <1>2, <1>3

-----------------------------------------------------------------------------
(* Groups. *)

\* A parsed table: indexed by registrations, of patterns parsePattern built.
IsTable(table) ==
    \E n \in Nat : DOMAIN table \subseteq 1..n /\ \A i \in DOMAIN table : table[i].segs \in SegLists

\* Deepest is deeper than every pattern is long.
LEMMA DeepestBounds ==
    ASSUME NEW table, IsTable(table)
    PROVE  /\ Deepest(table) \in Nat /\ Deepest(table) >= 1
           /\ \A i \in DOMAIN table : Len(table[i].segs) < Deepest(table)
<1> DEFINE lens == {Len(table[i].segs) : i \in DOMAIN table} \cup {0}
           bounds == {m \in Nat : \A x \in lens : x <= m}
<1>1. PICK n \in Nat : DOMAIN table \subseteq 1..n /\ \A i \in DOMAIN table : table[i].segs \in SegLists
  BY DEF IsTable
<1>2. \A i \in DOMAIN table : Len(table[i].segs) \in Nat
  BY <1>1, RouteFacts
<1>3. bounds # {}
  <2> DEFINE S == {k \in 0..n : \E m \in Nat : \A i \in DOMAIN table :
                                   i <= k => Len(table[i].segs) <= m}
  <2>1. 0 \in S
    BY <1>1
  <2>2. ASSUME NEW k \in 1..n, k - 1 \in S PROVE k \in S
    <3>1. PICK m \in Nat : \A i \in DOMAIN table : i <= k - 1 => Len(table[i].segs) <= m
      BY <2>2
    <3>2. \A i \in DOMAIN table : i <= k => (i <= k - 1 \/ i = k)
      BY <1>1
    <3>3. CASE k \in DOMAIN table
      <4>1. PICK x \in Nat : x = Len(table[k].segs)
        BY <1>2, <3>3
      <4>2. m + x \in Nat /\ \A y \in Nat : y <= m => y <= m + x
        OBVIOUS
      <4>3. \A i \in DOMAIN table : i <= k => Len(table[i].segs) <= m + x
        <5>1. ASSUME NEW i \in DOMAIN table, i <= k PROVE Len(table[i].segs) <= m + x
          <6>1. CASE i = k
            BY <4>1, <6>1
          <6>2. CASE i # k
            BY <1>2, <3>1, <3>2, <4>2, <5>1, <6>2
          <6> QED
            BY <6>1, <6>2
        <5> QED
          BY <5>1
      <4> QED
        BY <4>2, <4>3
    <3>4. CASE k \notin DOMAIN table
      <4>1. \A i \in DOMAIN table : i <= k => Len(table[i].segs) <= m
        BY <3>1, <3>2, <3>4
      <4> QED
        BY <4>1
    <3> QED
      BY <3>3, <3>4
  <2>3. n \in S
    <3> HIDE DEF S
    <3>1. 0..n \subseteq S
      BY <2>1, <2>2, Reaches
    <3> QED
      BY <3>1
  <2>4. PICK m \in Nat : \A i \in DOMAIN table : i <= n => Len(table[i].segs) <= m
    BY <2>3
  <2>5. m \in bounds
    BY <1>1, <2>4
  <2> QED
    BY <2>5
<1>4. PICK u \in bounds : \A m \in bounds : u <= m
  <2>1. bounds \in SUBSET Nat
    OBVIOUS
  <2> HIDE DEF bounds
  <2> QED
    BY <1>3, <2>1, LeastNatural
<1>5. u \in Nat /\ \A x \in lens : x <= u
  BY <1>4
<1>6. \A x \in lens : x \in Nat
  BY <1>2
<1>7. u \in lens
  <2> HIDE DEF lens
  <2>1. SUFFICES ASSUME u \notin lens PROVE FALSE
    OBVIOUS
  <2>2. 0 \in lens
    BY DEF lens
  <2>3. u - 1 \in Nat /\ \A x \in lens : x <= u - 1
    BY <1>5, <1>6, <2>1, <2>2
  <2>4. u - 1 \in bounds
    BY <2>3
  <2> QED
    BY <1>4, <1>5, <2>4
<1>8. Max(lens) \in lens /\ \A x \in lens : Max(lens) >= x
  <2> HIDE DEF lens
  <2>1. \A x \in lens : u >= x
    BY <1>5, <1>6
  <2> QED
    BY <1>7, <2>1 DEF Max
<1>9. Deepest(table) = 1 + Max(lens)
  BY DEF Deepest
<1>10. \A i \in DOMAIN table : Len(table[i].segs) \in lens
  OBVIOUS
<1> HIDE DEF lens
<1> QED
  BY <1>6, <1>8, <1>9, <1>10

\* The recursion is what its definition says.
LEMMA CallsStep ==
    ASSUME NEW table, NEW g, Deepest(table) \in Nat
    PROVE  /\ Calls(table, g)[0] = {g}
           /\ \A d \in 1..Deepest(table) :
                Calls(table, g)[d] = SplitAll(table, Calls(table, g)[d - 1], d)
<1>0. PICK start : start = {g}
  OBVIOUS
<1> DEFINE Of(f, k) == [d \in 0..k |-> IF d = 0 THEN start
                                       ELSE SplitAll(table, f[d - 1], d)]
           n == Deepest(table)
           S == {k \in 0..n : \E f : f = Of(f, k)}
<1>1. 0 \in S
  <2> DEFINE f == [d \in 0..0 |-> start]
  <2>1. f = Of(f, 0)
    OBVIOUS
  <2>2. \E m : m = Of(m, 0)
    <3> HIDE DEF f
    <3> QED
      BY <2>1
  <2> QED
    BY <2>2
<1>2. ASSUME NEW k \in 1..n, k - 1 \in S PROVE k \in S
  <2>1. PICK f : f = Of(f, k - 1)
    BY <1>2
  <2> DEFINE e == [d \in 0..k |-> IF d = k THEN SplitAll(table, f[k - 1], k)
                                  ELSE f[d]]
  <2>2. \A d \in 0..k - 1 : e[d] = f[d]
    OBVIOUS
  <2>3. ASSUME NEW d \in 0..k PROVE e[d] = Of(e, k)[d]
    <3>1. CASE d = k
      BY <2>2, <3>1
    <3>2. CASE d # k
      <4>1. e[d] = IF d = 0 THEN start ELSE SplitAll(table, f[d - 1], d)
        BY <2>1, <2>2, <3>2
      <4>2. d # 0 => e[d - 1] = f[d - 1]
        BY <2>2, <3>2
      <4> QED
        BY <4>1, <4>2
    <3> QED
      BY <3>1, <3>2
  <2>4. e = Of(e, k)
    BY <2>3
  <2>5. \E m : m = Of(m, k)
    <3> HIDE DEF e
    <3> QED
      BY <2>4
  <2> QED
    BY <2>5
<1>3. n \in S
  <2> HIDE DEF S
  <2>1. 0..n \subseteq S
    BY <1>1, <1>2, Reaches
  <2> QED
    BY <2>1
<1>4. \E f : f = Of(f, n)
  BY <1>3
<1>5. Calls(table, g) = Of(Calls(table, g), n)
  BY <1>0, <1>4 DEF Calls
<1>6. /\ Calls(table, g)[0] = start
      /\ \A d \in 1..n : Calls(table, g)[d] = SplitAll(table, Calls(table, g)[d - 1], d)
  BY <1>5
<1> QED
  BY <1>0, <1>6

\* Splitting stays inside the group.
LEMMA CallsWithin ==
    ASSUME NEW table, NEW g, Deepest(table) \in Nat
    PROVE  \A d \in 0..Deepest(table) : \A c \in Calls(table, g)[d] : c \subseteq g
<1> DEFINE S == {d \in 0..Deepest(table) : \A c \in Calls(table, g)[d] : c \subseteq g}
<1>1. 0 \in S
  BY CallsStep
<1>2. ASSUME NEW d \in 1..Deepest(table), d - 1 \in S PROVE d \in S
  <2>1. ASSUME NEW c \in Calls(table, g)[d] PROVE c \subseteq g
    <3>1. PICK b \in Calls(table, g)[d - 1] : c \in Split(table, b, d)
      BY CallsStep DEF SplitAll
    <3>2. c \subseteq b
      BY <3>1 DEF Split
    <3> QED
      BY <1>2, <3>1, <3>2
  <2> QED
    BY <2>1
<1>3. 0..Deepest(table) \subseteq S
  <2> HIDE DEF S
  <2> QED
    BY <1>1, <1>2, Reaches
<1> QED
  BY <1>3

\* Patterns with different literals at one position have nothing in common.
LEMMA LiteralsApart ==
    ASSUME NEW p \in SegLists, NEW q \in SegLists, NEW d \in Nat, d >= 1,
           d <= Len(p), d <= Len(q), p[d].kind = "lit", q[d].kind = "lit",
           p[d].text # q[d].text
    PROVE  comparePaths(p, q) = "disjoint"
<1>1. compareAt(p, q, d) = "disjoint"
  BY DEF compareAt, compareSegs, IsMulti
<1>2. ASSUME NEW n \in Nat, Settled(p, q, n), comparePaths(p, q) = Combined(p, q, n)
      PROVE  comparePaths(p, q) = "disjoint"
  <2>1. d \in 1..n
    BY <1>2, RouteFacts DEF Settled
  <2> QED
    BY <1>1, <1>2, <2>1 DEF Combined, Says
<1> QED
  BY <1>2, Stops

\* A conflicting pair inside a group that is split stays together.
LEMMA SplitKeepsPairs ==
    ASSUME NEW table, IsTable(table), NEW d \in Nat, d >= 1,
           NEW c, c \subseteq DOMAIN table, NEW i \in c, NEW j \in c,
           Conflicting(table[i], table[j]), Split(table, c, d) # {}
    PROVE  \E b \in Split(table, c, d) : i \in b /\ j \in b
<1> DEFINE lits  == {k \in c : LitAt(table[k], d)}
           wild  == c \ lits
           bucket(t) == {k \in lits : table[k].segs[d].text = t} \cup wild
<1>1. /\ \A k \in lits : bucket(table[k].segs[d].text) \in Split(table, c, d)
      /\ wild \in Split(table, c, d)
  BY DEF Split
<1> HIDE DEF bucket
<1>2. table[i].segs \in SegLists /\ table[j].segs \in SegLists
  BY DEF IsTable
<1>3. CASE i \in lits /\ j \in lits
  <2>1. table[i].segs[d].text = table[j].segs[d].text
    <3>1. SUFFICES ASSUME table[i].segs[d].text # table[j].segs[d].text PROVE FALSE
      OBVIOUS
    <3>2. comparePaths(table[i].segs, table[j].segs) = "disjoint"
      BY <1>2, <1>3, <3>1, LiteralsApart DEF LitAt
    <3> QED
      BY <3>2 DEF Conflicting
  <2>2. i \in bucket(table[i].segs[d].text) /\ j \in bucket(table[i].segs[d].text)
    BY <1>3, <2>1 DEF bucket
  <2> HIDE DEF lits
  <2> QED
    BY <1>1, <1>3, <2>2
<1>4. CASE i \in lits /\ j \notin lits
  <2>1. i \in bucket(table[i].segs[d].text) /\ j \in bucket(table[i].segs[d].text)
    BY <1>4 DEF bucket
  <2> HIDE DEF lits
  <2> QED
    BY <1>1, <1>4, <2>1
<1>5. CASE i \notin lits /\ j \in lits
  <2>1. j \in bucket(table[j].segs[d].text) /\ i \in bucket(table[j].segs[d].text)
    BY <1>5 DEF bucket
  <2> HIDE DEF lits
  <2> QED
    BY <1>1, <1>5, <2>1
<1>6. CASE i \notin lits /\ j \notin lits
  <2>1. i \in wild /\ j \in wild
    BY <1>6
  <2> HIDE DEF lits, wild
  <2> QED
    BY <1>1, <2>1
<1> QED
  BY <1>3, <1>4, <1>5, <1>6

\* Below every pattern there is nothing left to split on.
LEMMA DeepestIsLeaf ==
    ASSUME NEW table, IsTable(table), NEW c, c \subseteq DOMAIN table
    PROVE  Split(table, c, Deepest(table)) = {}
<1> DEFINE n     == Deepest(table)
           lits  == {k \in c : LitAt(table[k], n)}
           texts == {table[k].segs[n].text : k \in lits}
<1>1. \A k \in c : Len(table[k].segs) < n /\ Len(table[k].segs) \in Nat /\ n \in Nat
  BY DeepestBounds, RouteFacts DEF IsTable
<1>2. lits = {}
  <2> HIDE DEF n
  <2> QED
    BY <1>1 DEF LitAt
<1>3. texts = {}
  BY <1>2
<1>4. Cardinality(texts) < 2
  BY <1>3, FS_EmptySet
<1> QED
  BY <1>4 DEF Split

\* However a group is split, what is found in it is every conflicting pair.
LEMMA ScanExact ==
    ASSUME NEW table, IsTable(table), NEW g, g \subseteq DOMAIN table
    PROVE  scanGroup(table, g) = pairwise(table, g)
<1> DEFINE n == Deepest(table)
           leaves == UNION {{x \in Calls(table, g)[d - 1] : Split(table, x, d) = {}} : d \in 1..n}
<1>1. n \in Nat /\ n >= 1
  BY DeepestBounds
<1>2. scanGroup(table, g) = UNION {pairwise(table, c) : c \in leaves}
  BY DEF scanGroup
<1>3. \A c \in leaves : c \subseteq g
  BY <1>1, CallsWithin
<1>4. ASSUME NEW i \in g, NEW j \in g, Conflicting(table[i], table[j])
      PROVE  \E c \in leaves : i \in c /\ j \in c
  <2> DEFINE found == \E c \in leaves : i \in c /\ j \in c
             S == {d \in 0..n : found \/ \E c \in Calls(table, g)[d] : i \in c /\ j \in c}
  <2>1. 0 \in S
    BY <1>1, CallsStep
  <2>2. ASSUME NEW d \in 1..n, d - 1 \in S PROVE d \in S
    <3>1. CASE found
      BY <3>1
    <3>2. CASE ~found
      <4>1. PICK c \in Calls(table, g)[d - 1] : i \in c /\ j \in c
        BY <2>2, <3>2
      <4>2. c \subseteq DOMAIN table
        BY <1>1, CallsWithin
      <4>3. Split(table, c, d) # {}
        <5>1. SUFFICES ASSUME Split(table, c, d) = {} PROVE FALSE
          OBVIOUS
        <5>2. c \in leaves
          BY <4>1, <5>1
        <5> QED
          BY <3>2, <4>1, <5>2
      <4>4. PICK b \in Split(table, c, d) : i \in b /\ j \in b
        BY <1>4, <4>1, <4>2, <4>3, SplitKeepsPairs
      <4>5. b \in Calls(table, g)[d]
        BY <1>1, <4>4, CallsStep DEF SplitAll
      <4> QED
        BY <4>4, <4>5
    <3> QED
      BY <3>1, <3>2
  <2>3. n \in S
    <3> HIDE DEF S, n
    <3>1. 0..n \subseteq S
      BY <1>1, <2>1, <2>2, Reaches
    <3> QED
      BY <1>1, <3>1
  <2>4. Calls(table, g)[n] = {}
    <3>1. n \in 1..n /\ n - 1 \in 0..n
      BY <1>1
    <3>2. Calls(table, g)[n] = SplitAll(table, Calls(table, g)[n - 1], n)
      BY <1>1, <3>1, CallsStep
    <3>3. \A c \in Calls(table, g)[n - 1] : Split(table, c, n) = {}
      BY <1>1, <3>1, CallsWithin, DeepestIsLeaf
    <3> QED
      BY <3>2, <3>3 DEF SplitAll
  <2> QED
    BY <2>3, <2>4
<1> HIDE DEF leaves, n
<1>5. ASSUME NEW pair \in pairwise(table, g) PROVE \E c \in leaves : pair \in pairwise(table, c)
  <2>1. PICK i \in g, j \in g : pair = {i, j} /\ i < j /\ Conflicting(table[i], table[j])
    BY DEF pairwise
  <2>2. PICK c \in leaves : i \in c /\ j \in c
    BY <1>4, <2>1
  <2>3. <<i, j>> \in {x \in c \X c : x[1] < x[2] /\ Conflicting(table[x[1]], table[x[2]])}
    BY <2>1, <2>2
  <2>4. pair \in pairwise(table, c)
    BY <2>1, <2>3 DEF pairwise
  <2> QED
    BY <2>4
<1>6. ASSUME NEW c \in leaves, NEW pair \in pairwise(table, c) PROVE pair \in pairwise(table, g)
  BY <1>3 DEF pairwise
<1> QED
  BY <1>2, <1>5, <1>6

\* Build's detection (router.go:432-511) over whatever Handle was given: it
\* names two routes exactly when they share method and host, some path matches
\* both, and neither is more specific.
THEOREM DetectionExact ==
    ASSUME NEW regs \in Seq(Registration)
    PROVE  LET good  == {k \in DOMAIN regs : ~PatternBad(regs[k])}
               table == [k \in good |-> parsePattern(regs[k])]
           IN  \A pair : pair \in detectConflicts(table) <=>
                 \E k, l \in good :
                   /\ pair = {k, l} /\ k < l
                   /\ regs[k].method = regs[l].method /\ regs[k].host = regs[l].host
                   /\ Clash(Segments(regs[k]), Segments(regs[l]))
<1> DEFINE good == {k \in DOMAIN regs : ~PatternBad(regs[k])}
<1>1. PICK table : table = [k \in good |-> parsePattern(regs[k])]
  OBVIOUS
<1>2. PICK n \in Nat : DOMAIN regs = 1..n
  OBVIOUS
<1>3. \A k \in good : regs[k] \in Registration /\ ~PatternBad(regs[k])
  <2>1. \A k \in DOMAIN regs : regs[k] \in Registration
    OBVIOUS
  <2> QED
    BY <2>1
<1>4. good \subseteq 1..n
  BY <1>2
<1> HIDE DEF good
<1>5. /\ DOMAIN table = good
      /\ \A k \in good : /\ table[k].method = regs[k].method /\ table[k].host = regs[k].host
                         /\ table[k].segs = Segments(regs[k]) /\ table[k].segs \in SegLists
                         /\ table[k] = parsePattern(regs[k])
  BY <1>1, <1>3, ParsedIsRoute DEF parsePattern
<1>6. IsTable(table)
  BY <1>4, <1>5 DEF IsTable
<1> DEFINE group(i) == {j \in good : table[j].method = table[i].method /\ table[j].host = table[i].host}
<1>7. detectConflicts(table) = UNION {pairwise(table, group(i)) : i \in good}
  <2>1. \A i \in good : scanGroup(table, group(i)) = pairwise(table, group(i))
    BY <1>5, <1>6, ScanExact
  <2>2. detectConflicts(table) = UNION {scanGroup(table, group(i)) : i \in good}
    BY <1>5 DEF detectConflicts
  <2> HIDE DEF group
  <2> QED
    BY <2>1, <2>2
<1>8. \A k, l \in good : Conflicting(table[k], table[l])
                           <=> Clash(Segments(regs[k]), Segments(regs[l]))
  BY <1>3, <1>5, ConflictIsAmbiguity
<1>9. ASSUME NEW pair \in detectConflicts(table)
      PROVE  \E k, l \in good :
               /\ pair = {k, l} /\ k < l
               /\ table[k].method = table[l].method /\ table[k].host = table[l].host
               /\ Conflicting(table[k], table[l])
  <2>1. PICK i \in good : pair \in pairwise(table, group(i))
    BY <1>7
  <2>2. PICK k \in group(i), l \in group(i) :
           pair = {k, l} /\ k < l /\ Conflicting(table[k], table[l])
    BY <2>1 DEF pairwise
  <2> QED
    BY <2>2
<1>10. ASSUME NEW k \in good, NEW l \in good, k < l,
              table[k].method = table[l].method, table[k].host = table[l].host,
              Conflicting(table[k], table[l])
       PROVE  {k, l} \in detectConflicts(table)
  <2>1. k \in group(l) /\ l \in group(l)
    BY <1>10
  <2> HIDE DEF group
  <2>2. <<k, l>> \in {x \in group(l) \X group(l) :
                        x[1] < x[2] /\ Conflicting(table[x[1]], table[x[2]])}
    BY <1>10, <2>1
  <2>3. {k, l} \in pairwise(table, group(l))
    BY <2>2 DEF pairwise
  <2> QED
    BY <1>7, <2>3
<1>11. \A pair : pair \in detectConflicts(table) <=>
         \E k, l \in good :
           /\ pair = {k, l} /\ k < l
           /\ regs[k].method = regs[l].method /\ regs[k].host = regs[l].host
           /\ Clash(Segments(regs[k]), Segments(regs[l]))
  BY <1>5, <1>8, <1>9, <1>10
<1> QED
  BY <1>1, <1>11 DEF good
=============================================================================
