-------------------------- MODULE RouteTrie_proofs --------------------------
(***************************************************************************)
(* Theorems about the walks over a trie, for tries of every shape, paths   *)
(* of every length and every size of the array: the walk finds the first,  *)
(* in the order of its edges, of the nodes that match the path and serve   *)
(* the method, with the values of that node's wildcards; and the methods   *)
(* collected are those of every node that matches.                         *)
(***************************************************************************)
EXTENDS RouteTrie, RouteConflicts_proofs

Wild(e) == e \in {<<"single">>, <<"multi">>}

Edges == {<<"lit", t>> : t \in Texts} \cup {<<"single">>, <<"multi">>}

\* The order in which the walk tries the edges of a node.
Rank(e) == IF e = <<"multi">> THEN 3 ELSE IF e = <<"single">> THEN 2 ELSE 1

LEMMA EdgeFacts ==
    /\ <<"single">> # <<"multi">>
    /\ \A t : <<"lit", t>> # <<"single">> /\ <<"lit", t>> # <<"multi">>
    /\ \A t, u : <<"lit", t>> = <<"lit", u>> => t = u
<1>1. <<"single">>[1] # <<"multi">>[1]
  OBVIOUS
<1>2. \A t : <<"lit", t>>[1] # <<"single">>[1] /\ <<"lit", t>>[1] # <<"multi">>[1]
  OBVIOUS
<1>3. \A t, u : <<"lit", t>> = <<"lit", u>> => t = u
  OBVIOUS
<1> QED
  BY <1>1, <1>2, <1>3

\* Two sequences with the same elements are the same.
LEMMA SameSeq ==
    ASSUME NEW T, NEW a \in Seq(T), NEW b \in Seq(T), Len(a) = Len(b),
           \A i \in 1..Len(a) : a[i] = b[i]
    PROVE  a = b
OBVIOUS

-----------------------------------------------------------------------------
(* Wildcards of a node, counted. *)

Wilds(n, i) == Cardinality({j \in 1..i : Wild(n[j])})

LEMMA WildsStep ==
    ASSUME NEW n, NEW i \in Nat
    PROVE  /\ IsFiniteSet({j \in 1..i : Wild(n[j])}) /\ Wilds(n, i) \in Nat
           /\ Wilds(n, 0) = 0
           /\ Wilds(n, i + 1) = Wilds(n, i) + (IF Wild(n[i + 1]) THEN 1 ELSE 0)
<1> DEFINE W(k) == {j \in 1..k : Wild(n[j])}
<1>1. IsFiniteSet(1..i)
  BY FS_Interval
<1>2. IsFiniteSet(W(i))
  BY <1>1, FS_Subset
<1>3. W(0) = {}
  OBVIOUS
<1>4. W(i + 1) = IF Wild(n[i + 1]) THEN W(i) \cup {i + 1} ELSE W(i)
  OBVIOUS
<1>5. i + 1 \notin W(i)
  OBVIOUS
<1>6. Cardinality(W(i)) \in Nat /\ Cardinality(W(0)) = 0
  BY <1>2, <1>3, FS_CardinalityType, FS_EmptySet
<1>7. Cardinality(W(i + 1)) = Cardinality(W(i)) + (IF Wild(n[i + 1]) THEN 1 ELSE 0)
  <2> HIDE DEF W
  <2>1. CASE Wild(n[i + 1])
    <3>1. Cardinality(W(i) \cup {i + 1}) = Cardinality(W(i)) + 1
      BY <1>2, <1>5, FS_AddElement
    <3> QED
      BY <1>4, <2>1, <3>1
  <2>2. CASE ~Wild(n[i + 1])
    BY <1>4, <1>6, <2>2
  <2> QED
    BY <2>1, <2>2
<1> QED
  BY <1>2, <1>6, <1>7 DEF Wilds

\* The count grows along the node, and a wildcard counts itself.
LEMMA WildsGrow ==
    ASSUME NEW n, NEW i \in Nat, NEW j \in Nat, j <= i
    PROVE  /\ Wilds(n, j) \in Nat /\ Wilds(n, i) \in Nat /\ Wilds(n, j) <= Wilds(n, i)
           /\ j < i /\ Wild(n[i]) => Wilds(n, j) < Wilds(n, i)
           /\ Wilds(n, j) <= j
<1> DEFINE W(k) == {x \in 1..k : Wild(n[x])}
<1>1. \A k \in Nat : IsFiniteSet(W(k)) /\ Wilds(n, k) \in Nat
  BY WildsStep
<1>2. \A k \in Nat : k <= i => W(k) \in SUBSET W(i)
  OBVIOUS
<1>3. \A k \in Nat : k <= i => Wilds(n, k) <= Wilds(n, i)
  <2> HIDE DEF W
  <2>1. \A k \in Nat : k <= i => Cardinality(W(k)) <= Cardinality(W(i))
    BY <1>1, <1>2, FS_Subset
  <2> QED
    BY <2>1 DEF Wilds, W
<1>4. ASSUME j < i, Wild(n[i]) PROVE Wilds(n, j) < Wilds(n, i)
  <2>1. i - 1 \in Nat /\ j <= i - 1 /\ (i - 1) + 1 = i
    BY <1>4
  <2>2. W(j) \in SUBSET W(i - 1)
    BY <2>1
  <2>3. Wilds(n, j) <= Wilds(n, i - 1)
    <3> HIDE DEF W
    <3>1. Cardinality(W(j)) <= Cardinality(W(i - 1))
      BY <1>1, <2>1, <2>2, FS_Subset
    <3> QED
      BY <3>1 DEF Wilds, W
  <2>4. Wilds(n, i) = Wilds(n, i - 1) + 1
    BY <1>4, <2>1, WildsStep
  <2>5. Wilds(n, j) \in Nat /\ Wilds(n, i - 1) \in Nat
    BY <1>1, <2>1
  <2> HIDE DEF W
  <2> QED
    BY <2>3, <2>4, <2>5
<1>5. Wilds(n, j) <= j
  <2>1. W(j) \in SUBSET (1..j) /\ IsFiniteSet(1..j) /\ Cardinality(1..j) = j
    BY FS_Interval
  <2>2. Cardinality(W(j)) <= Cardinality(1..j)
    <3> HIDE DEF W
    <3> QED
      BY <2>1, FS_Subset
  <2> QED
    BY <2>1, <2>2 DEF Wilds
<1> QED
  BY <1>1, <1>3, <1>4, <1>5

\* It looks at the edges up to i only.
LEMMA WildsLocal ==
    ASSUME NEW n, NEW m, NEW i \in Nat, \A j \in 1..i : n[j] = m[j]
    PROVE  \A j \in 0..i : Wilds(n, j) = Wilds(m, j)
<1>1. ASSUME NEW j \in 0..i PROVE {x \in 1..j : Wild(n[x])} = {x \in 1..j : Wild(m[x])}
  OBVIOUS
<1> QED
  BY <1>1 DEF Wilds

\* The walk is what its definition says.
LEMMA WalkStep ==
    ASSUME NEW trie, NEW path, NEW want, Len(path) \in Nat
    PROVE  /\ matchSegments(trie, path, want)[0] = Ends(trie, path, want)
           /\ \A d \in 1..Len(path) : matchSegments(trie, path, want)[d] = CallsAt(trie, path, want, matchSegments(trie, path, want)[d - 1], Len(path) - d + 1)
<1>0. PICK n, start : n = Len(path) /\ start = Ends(trie, path, want)
  OBVIOUS
<1> DEFINE Of(f, k) == [d \in 0..k |-> IF d = 0 THEN start
                                       ELSE CallsAt(trie, path, want, f[d - 1], n - d + 1)]
           S == {k \in 0..n : \E f : f = Of(f, k)}
<1>1. 0 \in S
  <2> DEFINE f == [d \in 0..0 |-> start]
  <2>1. f = Of(f, 0)
    OBVIOUS
  <2>2. \E m : m = Of(m, 0)
    <3> HIDE DEF f
    <3> QED
      BY <2>1
  <2> QED
    BY <1>0, <2>2
<1>2. ASSUME NEW k \in 1..n, k - 1 \in S PROVE k \in S
  <2>1. PICK f : f = Of(f, k - 1)
    BY <1>2
  <2> DEFINE e == [d \in 0..k |-> IF d = k THEN CallsAt(trie, path, want, f[k - 1], n - k + 1) ELSE f[d]]
  <2>2. \A d \in 0..k - 1 : e[d] = f[d]
    OBVIOUS
  <2>3. ASSUME NEW d \in 0..k PROVE e[d] = Of(e, k)[d]
    <3>1. CASE d = k
      BY <2>2, <3>1
    <3>2. CASE d # k
      <4>1. e[d] = IF d = 0 THEN start ELSE CallsAt(trie, path, want, f[d - 1], n - d + 1)
        BY <2>1, <2>2, <3>2
      <4>2. d # 0 => e[d - 1] = f[d - 1]
        BY <2>2, <3>2
      <4> QED
        BY <4>1, <4>2
    <3> QED
      BY <3>1, <3>2
  <2>4. e = Of(e, k)
    BY <2>3
  <2>5. \E m : m = Of(m, k)
    <3> HIDE DEF e
    <3> QED
      BY <2>4
  <2> QED
    BY <2>5
<1>3. n \in S
  <2> HIDE DEF S
  <2>1. n \in Nat
    BY <1>0
  <2>2. 0..n \subseteq S
    BY <1>1, <1>2, <2>1, Reaches
  <2> QED
    BY <2>1, <2>2
<1>4. \E f : f = Of(f, n)
  BY <1>3
<1>5. matchSegments(trie, path, want) = Of(matchSegments(trie, path, want), n)
  BY <1>0, <1>4 DEF matchSegments
<1>6. matchSegments(trie, path, want)[0] = start /\ \A d \in 1..n : matchSegments(trie, path, want)[d] = CallsAt(trie, path, want, matchSegments(trie, path, want)[d - 1], n - d + 1)
  <2>1. n \in Nat
    BY <1>0
  <2> QED
    BY <1>5, <2>1
<1> QED
  BY <1>0, <1>6

Adds(trie) == [n \in DOMAIN trie |-> addMethods(trie, n)]

\* So is the collection of methods.
LEMMA CollectStep ==
    ASSUME NEW trie, NEW path, Len(path) \in Nat
    PROVE  /\ collects(trie, path)[0] = Adds(trie)
           /\ \A d \in 1..Len(path) : collects(trie, path)[d] = CollectAt(trie, path, collects(trie, path)[d - 1], Len(path) - d + 1)
<1>0. PICK n, start : n = Len(path) /\ start = Adds(trie)
  OBVIOUS
<1> DEFINE Of(f, k) == [d \in 0..k |-> IF d = 0 THEN start
                                       ELSE CollectAt(trie, path, f[d - 1], n - d + 1)]
           S == {k \in 0..n : \E f : f = Of(f, k)}
<1>1. 0 \in S
  <2> DEFINE f == [d \in 0..0 |-> start]
  <2>1. f = Of(f, 0)
    OBVIOUS
  <2>2. \E m : m = Of(m, 0)
    <3> HIDE DEF f
    <3> QED
      BY <2>1
  <2> QED
    BY <1>0, <2>2
<1>2. ASSUME NEW k \in 1..n, k - 1 \in S PROVE k \in S
  <2>1. PICK f : f = Of(f, k - 1)
    BY <1>2
  <2> DEFINE e == [d \in 0..k |-> IF d = k THEN CollectAt(trie, path, f[k - 1], n - k + 1) ELSE f[d]]
  <2>2. \A d \in 0..k - 1 : e[d] = f[d]
    OBVIOUS
  <2>3. ASSUME NEW d \in 0..k PROVE e[d] = Of(e, k)[d]
    <3>1. CASE d = k
      BY <2>2, <3>1
    <3>2. CASE d # k
      <4>1. e[d] = IF d = 0 THEN start ELSE CollectAt(trie, path, f[d - 1], n - d + 1)
        BY <2>1, <2>2, <3>2
      <4>2. d # 0 => e[d - 1] = f[d - 1]
        BY <2>2, <3>2
      <4> QED
        BY <4>1, <4>2
    <3> QED
      BY <3>1, <3>2
  <2>4. e = Of(e, k)
    BY <2>3
  <2>5. \E m : m = Of(m, k)
    <3> HIDE DEF e
    <3> QED
      BY <2>4
  <2> QED
    BY <2>5
<1>3. n \in S
  <2> HIDE DEF S
  <2>1. n \in Nat
    BY <1>0
  <2>2. 0..n \subseteq S
    BY <1>1, <1>2, <2>1, Reaches
  <2> QED
    BY <2>1, <2>2
<1>4. \E f : f = Of(f, n)
  BY <1>3
<1>5. collects(trie, path) = Of(collects(trie, path), n)
  BY <1>0, <1>4 DEF collects, Adds
<1>6. collects(trie, path)[0] = start /\ \A d \in 1..n : collects(trie, path)[d] = CollectAt(trie, path, collects(trie, path)[d - 1], n - d + 1)
  <2>1. n \in Nat
    BY <1>0
  <2> QED
    BY <1>5, <2>1
<1> QED
  BY <1>0, <1>6

-----------------------------------------------------------------------------
(* What a node matches, and the order the walk keeps. *)

\* A trie with its root and every node above a node of it.
IsTrie(trie) ==
    /\ DOMAIN trie \subseteq Seq(Edges) /\ Root \in DOMAIN trie
    /\ \A n \in DOMAIN trie : \A j \in 0..Len(n) : SubSeq(n, 1, j) \in DOMAIN trie

EdgeTakes(e, seg) == e = <<"lit", seg>> \/ (e = <<"single">> /\ seg # "")

\* The first k edges of n take the first k segments.
Leads(n, path, k) == \A i \in 1..k : EdgeTakes(n[i], Decode(path[i]))

\* The meaning of a node: PathMatches for the patterns that end there.
NodeTakes(n, path) ==
    \/ Len(n) = Len(path) /\ Leads(n, path, Len(n))
    \/ Len(n) \in 1..Len(path) /\ n[Len(n)] = <<"multi">> /\ Leads(n, path, Len(n) - 1)

Takers(trie, path, want) == {n \in DOMAIN trie : NodeTakes(n, path) /\ serves(trie, n, want)}

\* Those at or below the node n.
Under(trie, path, want, n) ==
    {m \in Takers(trie, path, want) : Len(n) <= Len(m) /\ \A i \in 1..Len(n) : m[i] = n[i]}

\* The node a is tried before the node b.
Precedes(a, b) ==
    \E j \in 1..Len(a) : /\ j <= Len(b) /\ Rank(a[j]) < Rank(b[j])
                         /\ \A i \in 1..j - 1 : a[i] = b[i]

LEMMA EdgeOrder ==
    /\ \A seg : Rank(<<"lit", seg>>) = 1
    /\ Rank(<<"single">>) = 2 /\ Rank(<<"multi">>) = 3
    /\ \A seg : ~EdgeTakes(<<"multi">>, seg)
BY EdgeFacts DEF Rank, EdgeTakes

\* The node m, below n, goes on with one of the edges the walk tries at segment i.
Parts(trie, path, want, n, m, i, seg, L, S, M) ==
    /\ m \in Seq(Edges) /\ i <= Len(m) /\ \A j \in 1..Len(n) : m[j] = n[j]
    /\ \/ m \in Under(trie, path, want, Child(n, L)) /\ m[i] = L
       \/ m \in Under(trie, path, want, Child(n, S)) /\ seg # "" /\ m[i] = S
       \/ m = Child(n, M) /\ m[i] = M

\* What is below a node is below one of its edges.
LEMMA UnderSplits ==
    ASSUME NEW trie, IsTrie(trie), NEW path \in Seq(Texts), NEW want,
           NEW n \in DOMAIN trie, Len(n) < Len(path), Leads(n, path, Len(n)),
           NEW m \in Under(trie, path, want, n),
           NEW i, i = Len(n) + 1, NEW seg, seg = Decode(path[i]),
           NEW L, L = <<"lit", seg>>, NEW S, S = <<"single">>, NEW M, M = <<"multi">>
    PROVE  Parts(trie, path, want, n, m, i, seg, L, S, M)
<1>1. /\ n \in Seq(Edges) /\ m \in Seq(Edges) /\ m \in Takers(trie, path, want)
      /\ Len(n) \in Nat /\ Len(m) \in Nat /\ Len(path) \in Nat
      /\ Len(n) <= Len(m) /\ \A j \in 1..Len(n) : m[j] = n[j]
      /\ NodeTakes(m, path)
  BY DEF IsTrie, Under, Takers
<1>2. i <= Len(m)
  <2>1. SUFFICES ASSUME Len(m) = Len(n) PROVE FALSE
    BY <1>1
  <2>2. Len(m) \in 1..Len(path) /\ m[Len(m)] = <<"multi">>
    BY <1>1, <2>1 DEF NodeTakes
  <2>3. EdgeTakes(n[Len(n)], Decode(path[Len(n)])) /\ n[Len(n)] = <<"multi">>
    BY <1>1, <2>1, <2>2 DEF Leads
  <2> QED
    BY <2>3, EdgeOrder
<1>3. \/ EdgeTakes(m[i], seg)
      \/ m[i] = <<"multi">> /\ i = Len(m)
  BY <1>1, <1>2 DEF NodeTakes, Leads
<1>4. ASSUME NEW e, m[i] = e
      PROVE  m \in Under(trie, path, want, Child(n, e))
  <2>1. Len(Append(n, e)) = i /\ \A j \in 1..i : Append(n, e)[j] = IF j = i THEN e ELSE n[j]
    BY <1>1
  <2> QED
    BY <1>1, <1>2, <1>4, <2>1 DEF Under, Child
<1>5. CASE m[i] = M /\ i = Len(m)
  <2>1. M \in Edges
    BY DEF Edges
  <2>2. Append(n, M) \in Seq(Edges) /\ Len(Append(n, M)) = i /\ Append(n, M)[i] = M
        /\ \A j \in 1..Len(n) : Append(n, M)[j] = n[j]
    BY <1>1, <2>1
  <2>3. \A j \in 1..Len(m) : m[j] = Append(n, M)[j]
    <3> HIDE DEF Edges
    <3> SUFFICES ASSUME NEW j \in 1..Len(m) PROVE m[j] = Append(n, M)[j]
      OBVIOUS
    <3>1. j = i \/ j \in 1..Len(n)
      BY <1>1, <1>5
    <3> QED
      BY <1>1, <1>5, <2>2, <3>1
  <2>4. m = Append(n, M)
    BY <1>1, <1>5, <2>2, <2>3, SameSeq
  <2> QED
    BY <1>1, <1>2, <1>5, <2>4 DEF Child, Parts
<1>6. CASE EdgeTakes(m[i], seg)
  <2>1. m[i] = L \/ (m[i] = S /\ seg # "")
    BY <1>6 DEF EdgeTakes
  <2> QED
    BY <1>1, <1>2, <1>4, <2>1 DEF Parts
<1> QED
  BY <1>1, <1>2, <1>3, <1>5, <1>6 DEF Parts

\* What is below a child is below the node; nothing is below a child that is not
\* there.
LEMMA UnderChild ==
    ASSUME NEW trie, IsTrie(trie), NEW path, NEW want, NEW n \in DOMAIN trie, NEW e \in Edges
    PROVE  /\ Under(trie, path, want, Child(n, e)) \subseteq Under(trie, path, want, n)
           /\ Child(n, e) \notin DOMAIN trie => Under(trie, path, want, Child(n, e)) = {}
           /\ \A m \in Under(trie, path, want, Child(n, e)) : m[Len(n) + 1] = e
<1>1. n \in Seq(Edges) /\ Len(n) \in Nat
  BY DEF IsTrie
<1>2. /\ Child(n, e) \in Seq(Edges) /\ Len(Child(n, e)) = Len(n) + 1
      /\ Child(n, e)[Len(n) + 1] = e /\ \A j \in 1..Len(n) : Child(n, e)[j] = n[j]
  BY <1>1 DEF Child
<1>3. ASSUME NEW m \in Under(trie, path, want, Child(n, e))
      PROVE  m \in Under(trie, path, want, n) /\ Child(n, e) \in DOMAIN trie /\ m[Len(n) + 1] = e
  <2>1. /\ m \in DOMAIN trie /\ m \in Takers(trie, path, want) /\ m \in Seq(Edges) /\ Len(m) \in Nat
        /\ Len(n) + 1 <= Len(m) /\ \A j \in 1..Len(n) + 1 : m[j] = Child(n, e)[j]
    BY <1>2 DEF Under, Takers, IsTrie
  <2>2. SubSeq(m, 1, Len(n) + 1) \in DOMAIN trie
    BY <1>1, <2>1 DEF IsTrie
  <2>3. SubSeq(m, 1, Len(n) + 1) = Child(n, e)
    <3>1. SubSeq(m, 1, Len(n) + 1) \in Seq(Edges) /\ Len(SubSeq(m, 1, Len(n) + 1)) = Len(n) + 1
          /\ \A j \in 1..Len(n) + 1 : SubSeq(m, 1, Len(n) + 1)[j] = m[j]
      BY <1>1, <2>1
    <3> QED
      BY <1>2, <2>1, <3>1, SameSeq
  <2>4. m \in Under(trie, path, want, n)
    BY <1>1, <1>2, <2>1 DEF Under
  <2>5. m[Len(n) + 1] = e
    <3>1. Len(n) + 1 \in 1..Len(n) + 1
      BY <1>1
    <3> QED
      BY <1>2, <2>1, <3>1
  <2> QED
    BY <2>2, <2>3, <2>4, <2>5
<1> QED
  BY <1>3

-----------------------------------------------------------------------------
(* What the array holds. *)

Arrays(len) == [1..MaxInlineParams -> (1..len + 1) \X (0..len)]

\* The places of the path that the wildcard at edge i of a node takes.
Place(n, i, len) == IF n[i] = <<"multi">> THEN <<i, len>> ELSE <<i, i>>

\* The count is that of the node's wildcards, as far as the array goes, and the
\* array holds their values.
Holds(n, vals, nv, len) ==
    /\ nv = IF Wilds(n, Len(n)) < MaxInlineParams THEN Wilds(n, Len(n)) ELSE MaxInlineParams
    /\ \A i \in 1..Len(n) : Wild(n[i]) /\ Wilds(n, i) <= MaxInlineParams
                              => vals[Wilds(n, i)] = Place(n, i, len)

\* Writing never disturbs what is counted, and stays in the array.
LEMMA PutFacts ==
    ASSUME NEW len \in Nat, NEW vals \in Arrays(len), NEW nv \in 0..MaxInlineParams,
           NEW i \in 1..len, NEW j \in 1..len
    PROVE  /\ Put(vals, nv, <<i, j>>) \in Arrays(len) /\ Up(nv) \in 0..MaxInlineParams
           /\ \A k \in 1..nv : Put(vals, nv, <<i, j>>)[k] = vals[k]
           /\ nv < MaxInlineParams => /\ Put(vals, nv, <<i, j>>)[nv + 1] = <<i, j>>
                                      /\ Up(nv) = nv + 1
           /\ nv = MaxInlineParams => Up(nv) = nv
           /\ nv <= Up(nv)
<1>1. MaxInlineParams \in Nat
  BY TrieAssumption
<1>2. <<i, j>> \in (1..len + 1) \X (0..len)
  OBVIOUS
<1>3. CASE nv < MaxInlineParams
  <2>1. nv + 1 \in 1..MaxInlineParams
    BY <1>1, <1>3
  <2>2. Put(vals, nv, <<i, j>>) = [vals EXCEPT ![nv + 1] = <<i, j>>] /\ Up(nv) = nv + 1
    BY <1>3 DEF Put, Up
  <2>3. PICK T : T = (1..len + 1) \X (0..len)
    OBVIOUS
  <2>4. vals \in [1..MaxInlineParams -> T] /\ <<i, j>> \in T
    BY <1>2, <2>3 DEF Arrays
  <2>5. [vals EXCEPT ![nv + 1] = <<i, j>>] \in [1..MaxInlineParams -> T]
    BY <2>4
  <2>6. /\ [vals EXCEPT ![nv + 1] = <<i, j>>][nv + 1] = <<i, j>>
        /\ \A k \in 1..nv : [vals EXCEPT ![nv + 1] = <<i, j>>][k] = vals[k]
    BY <1>1, <2>1, <2>4
  <2>7. Put(vals, nv, <<i, j>>) \in Arrays(len)
    BY <2>2, <2>3, <2>5 DEF Arrays
  <2>8. \A k \in 1..nv : Put(vals, nv, <<i, j>>)[k] = vals[k]
    BY <2>2, <2>6
  <2>9. Put(vals, nv, <<i, j>>)[nv + 1] = <<i, j>>
    BY <2>2, <2>6
  <2> QED
    BY <1>1, <1>3, <2>2, <2>7, <2>8, <2>9
<1>4. CASE nv = MaxInlineParams
  BY <1>1, <1>4 DEF Put, Up
<1> QED
  BY <1>1, <1>3, <1>4

\* Going down a literal edge binds nothing.
LEMMA HoldsLiteral ==
    ASSUME NEW len \in Nat, NEW n \in Seq(Edges), NEW seg, NEW vals, NEW nv,
           Holds(n, vals, nv, len)
    PROVE  Holds(Append(n, <<"lit", seg>>), vals, nv, len)
<1> DEFINE c == Append(n, <<"lit", seg>>)
<1>1. Len(n) \in Nat /\ Len(c) = Len(n) + 1 /\ c[Len(n) + 1] = <<"lit", seg>>
      /\ \A i \in 1..Len(n) : c[i] = n[i]
  OBVIOUS
<1>2. ~Wild(c[Len(n) + 1])
  BY <1>1, EdgeFacts DEF Wild
<1> HIDE DEF c
<1>3. \A i \in 0..Len(n) : Wilds(c, i) = Wilds(n, i)
  BY <1>1, WildsLocal
<1>4. Wilds(c, Len(n) + 1) = Wilds(n, Len(n))
  <2>1. Wilds(c, Len(n) + 1) = Wilds(c, Len(n)) + 0 /\ Wilds(c, Len(n)) \in Nat
    BY <1>1, <1>2, WildsStep
  <2> QED
    BY <1>1, <1>3, <2>1
<1>5. ASSUME NEW i \in 1..Len(c), Wild(c[i]), Wilds(c, i) <= MaxInlineParams
      PROVE  vals[Wilds(c, i)] = Place(c, i, len)
  <2>1. i \in 1..Len(n)
    BY <1>1, <1>2, <1>5
  <2>2. Wilds(c, i) = Wilds(n, i) /\ c[i] = n[i]
    BY <1>1, <1>3, <2>1
  <2> QED
    BY <1>5, <2>1, <2>2 DEF Holds, Place
<1>6. Holds(c, vals, nv, len)
  BY <1>1, <1>4, <1>5 DEF Holds
<1> QED
  BY <1>6 DEF c

\* Going down a wildcard edge binds its value, if the array has room.
LEMMA HoldsWild ==
    ASSUME NEW len \in Nat, NEW n \in Seq(Edges), Len(n) < len,
           NEW e \in {<<"single">>, <<"multi">>},
           NEW vals \in Arrays(len), NEW nv \in 0..MaxInlineParams, Holds(n, vals, nv, len)
    PROVE  LET c == Append(n, e)
               v == Place(c, Len(n) + 1, len)
           IN  Holds(c, Put(vals, nv, v), Up(nv), len)
<1> DEFINE c == Append(n, e)
           v == Place(c, Len(n) + 1, len)
           after == Put(vals, nv, v)
<1>1. Len(n) \in Nat /\ Len(c) = Len(n) + 1 /\ c[Len(n) + 1] = e
      /\ \A i \in 1..Len(n) : c[i] = n[i]
  OBVIOUS
<1>2. Wild(c[Len(n) + 1])
  BY <1>1 DEF Wild
<1>3. PICK a \in 1..len, b \in 1..len : v = <<a, b>>
  <2>1. Len(n) + 1 \in 1..len /\ len \in 1..len
    BY <1>1
  <2> QED
    BY <2>1 DEF Place
<1> HIDE DEF c
<1>4. \A i \in 0..Len(n) : Wilds(c, i) = Wilds(n, i)
  BY <1>1, WildsLocal
<1>5. Wilds(c, Len(n) + 1) = Wilds(n, Len(n)) + 1 /\ Wilds(n, Len(n)) \in Nat
  <2>1. Wilds(c, Len(n) + 1) = Wilds(c, Len(n)) + 1 /\ Wilds(c, Len(n)) \in Nat
    BY <1>1, <1>2, WildsStep
  <2> QED
    BY <1>1, <1>4, <2>1
<1>6. /\ \A k \in 1..nv : after[k] = vals[k]
      /\ nv < MaxInlineParams => after[nv + 1] = v /\ Up(nv) = nv + 1
      /\ nv = MaxInlineParams => Up(nv) = nv
  <2>1. after = Put(vals, nv, <<a, b>>)
    BY <1>3
  <2> HIDE DEF after, v
  <2>2. \A k \in 1..nv : Put(vals, nv, <<a, b>>)[k] = vals[k]
    BY <1>3, PutFacts
  <2>3. nv < MaxInlineParams => Put(vals, nv, <<a, b>>)[nv + 1] = <<a, b>> /\ Up(nv) = nv + 1
    BY <1>3, PutFacts
  <2>4. nv = MaxInlineParams => Up(nv) = nv
    BY <1>3, PutFacts
  <2> QED
    BY <1>3, <2>1, <2>2, <2>3, <2>4
<1> HIDE DEF v, after
<1>7. MaxInlineParams \in Nat
  BY TrieAssumption
<1>8. nv = IF Wilds(n, Len(n)) < MaxInlineParams THEN Wilds(n, Len(n)) ELSE MaxInlineParams
  BY DEF Holds
<1>9. ASSUME NEW i \in 1..Len(c), Wild(c[i]), Wilds(c, i) <= MaxInlineParams
      PROVE  after[Wilds(c, i)] = Place(c, i, len)
  <2>1. CASE i \in 1..Len(n)
    <3>1. Wilds(c, i) = Wilds(n, i) /\ c[i] = n[i]
      BY <1>1, <1>4, <2>1
    <3>2. /\ Wilds(n, i) \in Nat /\ Wilds(n, i) <= Wilds(n, Len(n))
          /\ Wilds(n, 0) < Wilds(n, i) /\ Wilds(n, 0) \in Nat
      BY <1>1, <1>9, <2>1, <3>1, WildsGrow
    <3>3. Wilds(n, i) \in 1..nv
      BY <1>5, <1>7, <1>8, <1>9, <3>1, <3>2
    <3>4. vals[Wilds(n, i)] = Place(n, i, len)
      BY <1>9, <2>1, <3>1 DEF Holds
    <3> QED
      BY <1>6, <3>1, <3>3, <3>4 DEF Place
  <2>2. CASE i = Len(n) + 1
    <3>1. nv < MaxInlineParams /\ nv + 1 = Wilds(c, i)
      BY <1>5, <1>7, <1>8, <1>9, <2>2
    <3> QED
      BY <1>6, <2>2, <3>1 DEF v
  <2> QED
    BY <1>1, <1>9, <2>1, <2>2
<1>10. Up(nv) = IF Wilds(c, Len(c)) < MaxInlineParams THEN Wilds(c, Len(c)) ELSE MaxInlineParams
  BY <1>1, <1>5, <1>6, <1>7, <1>8
<1>11. Holds(c, after, Up(nv), len)
  BY <1>9, <1>10 DEF Holds
<1> QED
  BY <1>11 DEF c, v, after

-----------------------------------------------------------------------------
(* The walk. *)

\* A call of matchSegments at the end of a node that leads where it stands, with
\* that node's values in the array.
Reached(trie, path, at) ==
    /\ at \in Cursors(trie, Len(path)) /\ Len(at.node) <= Len(path)
    /\ Leads(at.node, path, Len(at.node)) /\ Holds(at.node, at.vals, at.nv, Len(path))

\* What such a call, made at the node n, has to answer: the first of the nodes
\* below that will do, bound; or that there is none.
Right(trie, path, want, n, vals, nv, r) ==
    /\ r.found \in BOOLEAN /\ r.vals \in Arrays(Len(path))
    /\ \A k \in 1..nv : r.vals[k] = vals[k]
    /\ r.found => /\ r.node \in Under(trie, path, want, n)
                  /\ \A m \in Under(trie, path, want, n) : m = r.node \/ Precedes(r.node, m)
                  /\ r.nv \in 0..MaxInlineParams
                  /\ Holds(r.node, r.vals, r.nv, Len(path))
    /\ ~r.found => Under(trie, path, want, n) = {}

\* Calls on the segments behind the first i that are all right.
BelowRight(trie, path, want, below, i) ==
    \A at : Reached(trie, path, at) /\ Len(at.node) = i
              => Right(trie, path, want, at.node, at.vals, at.nv, below[at])

LEMMA EndsRight ==
    ASSUME NEW trie, IsTrie(trie), NEW path \in Seq(Texts), NEW want
    PROVE  BelowRight(trie, path, want, Ends(trie, path, want), Len(path))
<1> SUFFICES ASSUME NEW at, Reached(trie, path, at), Len(at.node) = Len(path)
             PROVE  Right(trie, path, want, at.node, at.vals, at.nv, Ends(trie, path, want)[at])
  BY DEF BelowRight
<1>1. /\ at \in Cursors(trie, Len(path)) /\ at.node \in DOMAIN trie /\ at.node \in Seq(Edges)
      /\ at.vals \in Arrays(Len(path)) /\ at.nv \in 0..MaxInlineParams
      /\ Len(path) \in Nat
  BY DEF Reached, Cursors, Arrays, IsTrie
<1>2. \A m \in Under(trie, path, want, at.node) : m = at.node
  <2>1. SUFFICES ASSUME NEW m \in Under(trie, path, want, at.node) PROVE m = at.node
    OBVIOUS
  <2>2. /\ m \in Seq(Edges) /\ Len(at.node) <= Len(m) /\ Len(m) <= Len(path)
        /\ \A i \in 1..Len(at.node) : m[i] = at.node[i]
    BY <1>1 DEF Under, Takers, IsTrie, NodeTakes
  <2> QED
    BY <1>1, <2>2, SameSeq
<1>3. at.node \in Under(trie, path, want, at.node) <=> serves(trie, at.node, want)
  BY <1>1 DEF Under, Takers, NodeTakes, Reached
<1>4. CASE serves(trie, at.node, want)
  <2>1. Ends(trie, path, want)[at] = Match(at.node, at.vals, at.nv)
    BY <1>1, <1>4 DEF Ends
  <2> QED
    BY <1>1, <1>2, <1>3, <1>4, <2>1 DEF Right, Match, Reached
<1>5. CASE ~serves(trie, at.node, want)
  <2>1. Ends(trie, path, want)[at] = Miss(at.vals)
    BY <1>1, <1>5 DEF Ends
  <2> QED
    BY <1>1, <1>2, <1>3, <1>5, <2>1 DEF Right, Miss
<1> QED
  BY <1>4, <1>5

\* A call made on an edge that takes the segment is right, the child there or not.
LEMMA EnterRight ==
    ASSUME NEW trie, IsTrie(trie), NEW path \in Seq(Texts), NEW want, NEW below,
           NEW n \in DOMAIN trie, Len(n) < Len(path), Leads(n, path, Len(n)),
           BelowRight(trie, path, want, below, Len(n) + 1),
           NEW e \in Edges, EdgeTakes(e, Decode(path[Len(n) + 1])),
           NEW vals \in Arrays(Len(path)), NEW nv \in 0..MaxInlineParams,
           Holds(Child(n, e), vals, nv, Len(path))
    PROVE  Right(trie, path, want, Child(n, e), vals, nv,
                 Enter(trie, below, Child(n, e), vals, nv))
<1>1. n \in Seq(Edges) /\ Len(n) \in Nat /\ Len(path) \in Nat
  BY DEF IsTrie
<1>2. /\ Len(Child(n, e)) = Len(n) + 1 /\ Child(n, e)[Len(n) + 1] = e
      /\ \A j \in 1..Len(n) : Child(n, e)[j] = n[j]
  BY <1>1 DEF Child
<1>3. CASE Child(n, e) \in DOMAIN trie
  <2> DEFINE at == [node |-> Child(n, e), vals |-> vals, nv |-> nv]
  <2>1. at \in Cursors(trie, Len(path))
    BY <1>3 DEF Cursors, Arrays
  <2>2. Leads(Child(n, e), path, Len(n) + 1)
    BY <1>1, <1>2 DEF Leads
  <2>3. Reached(trie, path, at)
    BY <1>1, <1>2, <2>1, <2>2 DEF Reached
  <2>4. Right(trie, path, want, Child(n, e), vals, nv, below[at])
    BY <1>2, <2>3 DEF BelowRight
  <2> QED
    BY <1>3, <2>4 DEF Enter
<1>4. CASE Child(n, e) \notin DOMAIN trie
  <2>1. Enter(trie, below, Child(n, e), vals, nv) = Miss(vals)
    BY <1>4 DEF Enter
  <2>2. Under(trie, path, want, Child(n, e)) = {}
    BY <1>4, UnderChild
  <2> QED
    BY <2>1, <2>2 DEF Right, Miss
<1> QED
  BY <1>3, <1>4

\* Two nodes that part at an edge of n are tried in the order of their edges.
LEMMA PartHere ==
    ASSUME NEW n \in Seq(Edges), NEW a \in Seq(Edges), NEW b \in Seq(Edges),
           Len(n) + 1 <= Len(a), Len(n) + 1 <= Len(b),
           \A i \in 1..Len(n) : a[i] = n[i] /\ b[i] = n[i],
           Rank(a[Len(n) + 1]) < Rank(b[Len(n) + 1])
    PROVE  Precedes(a, b)
<1>1. Len(n) \in Nat /\ Len(n) + 1 \in 1..Len(a)
  OBVIOUS
<1> QED
  BY <1>1 DEF Precedes

LEMMA DecodeType ==
    ASSUME NEW path \in Seq(Texts), NEW i \in 1..Len(path)
    PROVE  path[i] \in Texts /\ Decode(path[i]) \in Texts
<1>1. path[i] \in Texts
  OBVIOUS
<1> QED
  BY <1>1, TrieAssumption DEF Decode, Texts

\* Only the values counted matter.
LEMMA HoldsKept ==
    ASSUME NEW len \in Nat, NEW n \in Seq(Edges), NEW vals, NEW after, NEW nv,
           Holds(n, vals, nv, len), \A k \in 1..nv : after[k] = vals[k]
    PROVE  Holds(n, after, nv, len)
<1>1. ASSUME NEW i \in 1..Len(n), Wild(n[i]), Wilds(n, i) <= MaxInlineParams
      PROVE  after[Wilds(n, i)] = Place(n, i, len)
  <2>1. /\ Wilds(n, i) \in Nat /\ Wilds(n, i) <= Wilds(n, Len(n)) /\ Wilds(n, Len(n)) \in Nat
        /\ Wilds(n, 0) < Wilds(n, i) /\ Wilds(n, 0) \in Nat
    BY <1>1, WildsGrow
  <2>2. Wilds(n, i) \in 1..nv
    <3>1. MaxInlineParams \in Nat
      BY TrieAssumption
    <3>2. nv = IF Wilds(n, Len(n)) < MaxInlineParams THEN Wilds(n, Len(n)) ELSE MaxInlineParams
      BY DEF Holds
    <3> QED
      BY <1>1, <2>1, <3>1, <3>2
  <2> QED
    BY <1>1, <2>2 DEF Holds
<1> QED
  BY <1>1 DEF Holds

\* One call is right when those behind it are: trying the edges in turn misses
\* nothing, keeps the order, and starts each from the values of its own node.
LEMMA TryRight ==
    ASSUME NEW trie, IsTrie(trie), NEW path \in Seq(Texts), NEW want, NEW below,
           NEW at, Reached(trie, path, at), Len(at.node) < Len(path),
           BelowRight(trie, path, want, below, Len(at.node) + 1)
    PROVE  Right(trie, path, want, at.node, at.vals, at.nv,
                 TryEdges(trie, path, want, below, Len(at.node) + 1, at))
<1>1. PICK n, vals, nv, len, i :
        /\ n = at.node /\ vals = at.vals /\ nv = at.nv /\ len = Len(path) /\ i = Len(n) + 1
  OBVIOUS
<1>2. /\ n \in DOMAIN trie /\ n \in Seq(Edges) /\ Len(n) \in Nat /\ len \in Nat
      /\ vals \in Arrays(len) /\ nv \in 0..MaxInlineParams
      /\ Leads(n, path, Len(n)) /\ Holds(n, vals, nv, len) /\ i \in 1..len /\ Len(n) < len
  BY <1>1 DEF Reached, Cursors, Arrays, IsTrie
<1>3. PICK seg \in Texts : seg = Decode(path[i])
  BY <1>1, <1>2, DecodeType
<1>4. PICK L, S, M : L = <<"lit", seg>> /\ S = <<"single">> /\ M = <<"multi">>
  OBVIOUS
<1>5. /\ L \in Edges /\ S \in Edges /\ M \in Edges /\ EdgeTakes(L, seg) /\ (seg # "" => EdgeTakes(S, seg))
  BY <1>4 DEF Edges, EdgeTakes
<1>22. Rank(L) = 1 /\ Rank(S) = 2 /\ Rank(M) = 3
  BY <1>4, EdgeOrder
<1> DEFINE param == seg # "" /\ Child(n, S) \in DOMAIN trie
           U(e) == Under(trie, path, want, Child(n, e))
<1>6. PICK lit : lit = Enter(trie, below, Child(n, L), vals, nv)
  OBVIOUS
<1>7. Right(trie, path, want, Child(n, L), vals, nv, lit)
  <2>1. Holds(Child(n, L), vals, nv, len)
    BY <1>2, <1>4, HoldsLiteral DEF Child
  <2> QED
    BY <1>1, <1>2, <1>3, <1>5, <1>6, <2>1, EnterRight
<1>8. lit.vals \in Arrays(len) /\ Holds(n, lit.vals, nv, len) /\ \A k \in 1..nv : lit.vals[k] = vals[k]
  BY <1>1, <1>2, <1>7, HoldsKept DEF Right
<1>9. PICK single : single = IF param THEN Enter(trie, below, Child(n, S),
                                                 Put(lit.vals, nv, <<i, i>>), Up(nv))
                             ELSE Miss(lit.vals)
  OBVIOUS
<1>10. /\ Put(lit.vals, nv, <<i, i>>) \in Arrays(len) /\ Up(nv) \in 0..MaxInlineParams
       /\ \A k \in 1..nv : Put(lit.vals, nv, <<i, i>>)[k] = lit.vals[k]
       /\ nv <= Up(nv)
  BY <1>2, <1>8, PutFacts
<1>11. ASSUME param
       PROVE  Right(trie, path, want, Child(n, S), Put(lit.vals, nv, <<i, i>>), Up(nv), single)
  <2>1. Child(n, S)[i] = S /\ S # M
    BY <1>1, <1>2, <1>4, EdgeFacts DEF Child
  <2>2. Place(Child(n, S), i, len) = <<i, i>>
    BY <1>4, <2>1 DEF Place
  <2>3. Holds(Child(n, S), Put(lit.vals, nv, <<i, i>>), Up(nv), len)
    BY <1>1, <1>2, <1>4, <1>8, <2>2, HoldsWild DEF Child
  <2> QED
    BY <1>1, <1>2, <1>3, <1>5, <1>9, <1>10, <1>11, <2>3, EnterRight
<1>12. /\ single.vals \in Arrays(len) /\ Holds(n, single.vals, nv, len)
       /\ \A k \in 1..nv : single.vals[k] = vals[k]
  <2>1. single.vals \in Arrays(len) /\ \A k \in 1..nv : single.vals[k] = lit.vals[k]
    <3>1. CASE param
      <4>1. \A k \in 1..nv : k \in 1..Up(nv)
        <5>1. MaxInlineParams \in Nat
          BY TrieAssumption
        <5>2. nv \in Nat /\ Up(nv) \in Nat /\ nv <= Up(nv)
          BY <1>2, <1>10, <5>1
        <5> QED
          BY <5>2
      <4> QED
        BY <1>1, <1>10, <1>11, <3>1, <4>1 DEF Right
    <3>2. CASE ~param
      BY <1>8, <1>9, <3>2 DEF Miss
    <3> QED
      BY <3>1, <3>2
  <2> QED
    BY <1>2, <1>8, <2>1, HoldsKept
<1>13. ASSUME NEW m \in Under(trie, path, want, n)
       PROVE  /\ i <= Len(m) /\ m \in Seq(Edges) /\ \A j \in 1..Len(n) : m[j] = n[j]
              /\ \/ m \in U(L) /\ m[i] = L
                 \/ m \in U(S) /\ seg # "" /\ m[i] = S
                 \/ m = Child(n, M) /\ m[i] = M
  <2>1. IsTrie(trie) /\ Len(n) < Len(path)
    BY <1>1, <1>2
  <2>2. /\ n \in DOMAIN trie /\ Leads(n, path, Len(n)) /\ i = Len(n) + 1 /\ seg = Decode(path[i])
        /\ L = <<"lit", seg>> /\ S = <<"single">> /\ M = <<"multi">>
    BY <1>1, <1>2, <1>3, <1>4
  <2>3. Parts(trie, path, want, n, m, i, seg, L, S, M)
    BY <1>13, <2>1, <2>2, UnderSplits
  <2> QED
    BY <2>3 DEF Parts
<1>14. ASSUME NEW e \in Edges, NEW m \in U(e)
       PROVE  m \in Under(trie, path, want, n) /\ m[i] = e
  <2>1. n \in DOMAIN trie /\ i = Len(n) + 1
    BY <1>1, <1>2
  <2>2. /\ Under(trie, path, want, Child(n, e)) \subseteq Under(trie, path, want, n)
        /\ \A o \in Under(trie, path, want, Child(n, e)) : o[Len(n) + 1] = e
    BY <2>1, UnderChild
  <2> QED
    BY <1>14, <2>1, <2>2
<1>15. ASSUME NEW e \in Edges, NEW m \in Under(trie, path, want, n), m[i] = e,
              NEW o \in Under(trie, path, want, n), Rank(e) < Rank(o[i])
       PROVE  Precedes(m, o)
  <2>1. /\ m \in Seq(Edges) /\ o \in Seq(Edges) /\ Len(n) + 1 <= Len(m) /\ Len(n) + 1 <= Len(o)
        /\ \A j \in 1..Len(n) : m[j] = n[j] /\ o[j] = n[j]
    BY <1>1, <1>13
  <2>2. Rank(m[Len(n) + 1]) < Rank(o[Len(n) + 1])
    BY <1>1, <1>15
  <2> QED
    BY <1>2, <2>1, <2>2, PartHere
<1>16. PICK r : r = TryEdges(trie, path, want, below, Len(at.node) + 1, at)
  OBVIOUS
<1>17. r = IF lit.found THEN lit ELSE IF single.found THEN single
           ELSE TryMulti(trie, path, want, i, at, single.vals, nv)
  BY <1>1, <1>3, <1>4, <1>6, <1>9, <1>16 DEF TryEdges
<1> HIDE DEF param, U
<1>18. CASE lit.found
  <2>1. r = lit /\ r.node \in U(L)
    BY <1>7, <1>17, <1>18 DEF Right, U
  <2>2. r.node \in Under(trie, path, want, n) /\ r.node[i] = L
    BY <1>5, <1>14, <2>1
  <2>3. ASSUME NEW m \in Under(trie, path, want, n) PROVE m = r.node \/ Precedes(r.node, m)
    <3>1. CASE m \in U(L)
      BY <1>7, <1>18, <2>1, <3>1 DEF Right, U
    <3>2. CASE m[i] \in {S, M}
      <4>1. Rank(m[i]) = 2 \/ Rank(m[i]) = 3
        BY <1>22, <3>2
      <4> QED
        <5>1. Rank(L) < Rank(m[i])
          BY <1>22, <4>1
        <5> QED
          BY <1>5, <1>15, <2>2, <2>3, <5>1
    <3> QED
      BY <1>13, <2>3, <3>1, <3>2
  <2> QED
    BY <1>1, <1>7, <1>8, <1>16, <1>18, <2>1, <2>2, <2>3 DEF Right
<1>19. CASE ~lit.found /\ single.found
  <2>1. r = single /\ param
    BY <1>9, <1>17, <1>19 DEF Miss
  <2>2. r.node \in U(S)
    BY <1>11, <1>19, <2>1 DEF Right, U
  <2>3. r.node \in Under(trie, path, want, n) /\ r.node[i] = S
    BY <1>5, <1>14, <2>2
  <2>4. U(L) = {}
    BY <1>7, <1>19 DEF Right, U
  <2>5. ASSUME NEW m \in Under(trie, path, want, n) PROVE m = r.node \/ Precedes(r.node, m)
    <3>1. CASE m \in U(S)
      BY <1>11, <1>19, <2>1, <3>1 DEF Right, U
    <3>2. CASE m[i] = M
      <4>1. Rank(m[i]) = 3
        BY <1>22, <3>2
      <4> QED
        <5>1. Rank(S) < Rank(m[i])
          BY <1>22, <4>1
        <5> QED
          BY <1>5, <1>15, <2>3, <2>5, <5>1
    <3> QED
      BY <1>13, <2>4, <2>5, <3>1, <3>2
  <2> QED
    BY <1>1, <1>11, <1>12, <1>16, <1>19, <2>1, <2>3, <2>5 DEF Right
<1>20. CASE ~lit.found /\ ~single.found
  <2>1. U(L) = {}
    BY <1>7, <1>20 DEF Right, U
  <2>2. seg # "" => U(S) = {}
    <3>1. CASE param
      BY <1>11, <1>20, <3>1 DEF Right, U
    <3>2. CASE Child(n, S) \notin DOMAIN trie
      BY <1>2, <1>5, <3>2, UnderChild DEF U
    <3> QED
      BY <3>1, <3>2 DEF param
  <2>3. \A m \in Under(trie, path, want, n) : m = Child(n, M)
    BY <1>13, <2>1, <2>2
  <2>4. r = TryMulti(trie, path, want, i, at, single.vals, nv)
    BY <1>17, <1>20
  <2>5. /\ Child(n, M) \in Seq(Edges) /\ Len(Child(n, M)) = i /\ Child(n, M)[i] = M
        /\ \A j \in 1..Len(n) : Child(n, M)[j] = n[j]
    <3>1. n \in Seq(Edges) /\ M \in Edges /\ i = Len(n) + 1
      BY <1>1, <1>2, <1>5
    <3> QED
      BY <3>1 DEF Child
  <2>6. Child(n, M) \in DOMAIN trie /\ serves(trie, Child(n, M), want)
          <=> Child(n, M) \in Under(trie, path, want, n)
    <3>1. NodeTakes(Child(n, M), path)
      <4>1. Len(Child(n, M)) \in 1..Len(path) /\ Len(Child(n, M)) - 1 = Len(n)
        BY <1>1, <1>2, <2>5
      <4>2. Leads(Child(n, M), path, Len(n))
        BY <1>2, <2>5 DEF Leads
      <4> QED
        BY <1>4, <2>5, <4>1, <4>2 DEF NodeTakes
    <3> QED
      BY <1>1, <1>2, <2>5, <3>1 DEF Under, Takers
  <2>7. CASE Child(n, M) \in DOMAIN trie /\ serves(trie, Child(n, M), want)
    <3>1. r = Match(Child(n, M), Put(single.vals, nv, <<i, len>>), Up(nv))
      BY <1>1, <1>4, <2>4, <2>7 DEF TryMulti
    <3>2. /\ Put(single.vals, nv, <<i, len>>) \in Arrays(len) /\ Up(nv) \in 0..MaxInlineParams
          /\ \A k \in 1..nv : Put(single.vals, nv, <<i, len>>)[k] = single.vals[k]
      <4>1. len \in 1..len
        BY <1>2
      <4> QED
        BY <1>2, <1>12, <4>1, PutFacts
    <3>3. Holds(Child(n, M), Put(single.vals, nv, <<i, len>>), Up(nv), len)
      <4>1. Place(Child(n, M), i, len) = <<i, len>>
        BY <1>4, <2>5 DEF Place
      <4> QED
        BY <1>1, <1>2, <1>4, <1>12, <4>1, HoldsWild DEF Child
    <3>4. /\ r.found /\ r.node = Child(n, M) /\ r.nv = Up(nv)
          /\ r.vals = Put(single.vals, nv, <<i, len>>)
      BY <3>1 DEF Match
    <3>5. /\ r.vals \in Arrays(len) /\ r.nv \in 0..MaxInlineParams /\ Holds(r.node, r.vals, r.nv, len)
          /\ \A k \in 1..nv : r.vals[k] = vals[k]
      BY <1>12, <3>2, <3>3, <3>4
    <3>6. r.node \in Under(trie, path, want, n)
      BY <2>6, <2>7, <3>4
    <3>7. r.found = TRUE
      BY <3>1 DEF Match
    <3> HIDE DEF param
    <3> QED
      BY <1>1, <1>16, <2>3, <3>4, <3>5, <3>6, <3>7 DEF Right
  <2>8. CASE ~(Child(n, M) \in DOMAIN trie /\ serves(trie, Child(n, M), want))
    <3>1. r = Miss(single.vals)
      BY <1>1, <1>4, <2>4, <2>8 DEF TryMulti
    <3>2. Under(trie, path, want, n) = {}
      BY <2>3, <2>6, <2>8
    <3>3. r.found = FALSE /\ r.vals = single.vals
      BY <3>1 DEF Miss
    <3> QED
      BY <1>1, <1>12, <1>16, <3>2, <3>3 DEF Right
  <2> QED
    BY <2>7, <2>8
<1>21. lit.found \in BOOLEAN /\ single.found \in BOOLEAN
  BY <1>7, <1>9, <1>11 DEF Right, Miss
<1> QED
  BY <1>18, <1>19, <1>20, <1>21

\* Every call made in the walk is right.
LEMMA CallsRight ==
    ASSUME NEW trie, IsTrie(trie), NEW path \in Seq(Texts), NEW want
    PROVE  BelowRight(trie, path, want, matchSegments(trie, path, want)[Len(path)], 0)
<1> DEFINE calls == matchSegments(trie, path, want)
           S == {d \in 0..Len(path) : BelowRight(trie, path, want, calls[d], Len(path) - d)}
<1>1. Len(path) \in Nat
  OBVIOUS
<1>2. 0 \in S
  <2>1. calls[0] = Ends(trie, path, want)
    BY <1>1, WalkStep
  <2>2. BelowRight(trie, path, want, calls[0], Len(path))
    BY <2>1, EndsRight
  <2>3. Len(path) - 0 = Len(path) /\ 0 \in 0..Len(path)
    BY <1>1
  <2> QED
    BY <2>2, <2>3
<1>3. ASSUME NEW d \in 1..Len(path), d - 1 \in S PROVE d \in S
  <2>1. PICK below : below = calls[d - 1]
    OBVIOUS
  <2>2. BelowRight(trie, path, want, below, Len(path) - d + 1)
    <3>1. Len(path) - (d - 1) = Len(path) - d + 1
      BY <1>1
    <3> QED
      BY <1>3, <2>1, <3>1
  <2>3. calls[d] = CallsAt(trie, path, want, below, Len(path) - d + 1)
    BY <1>1, <2>1, WalkStep
  <2>4. ASSUME NEW at, Reached(trie, path, at), Len(at.node) = Len(path) - d
        PROVE  Right(trie, path, want, at.node, at.vals, at.nv, calls[d][at])
    <3>1. calls[d][at] = TryEdges(trie, path, want, below, Len(path) - d + 1, at)
      BY <2>3, <2>4 DEF CallsAt, Reached
    <3>2. Len(at.node) + 1 = Len(path) - d + 1 /\ Len(at.node) < Len(path)
      BY <1>1, <2>4
    <3>3. BelowRight(trie, path, want, below, Len(at.node) + 1)
      BY <2>2, <3>2
    <3>4. Right(trie, path, want, at.node, at.vals, at.nv,
                TryEdges(trie, path, want, below, Len(at.node) + 1, at))
      BY <2>4, <3>2, <3>3, TryRight
    <3> QED
      BY <3>1, <3>2, <3>4
  <2>5. BelowRight(trie, path, want, calls[d], Len(path) - d)
    BY <2>4 DEF BelowRight
  <2>6. d \in 0..Len(path)
    BY <1>1
  <2> QED
    BY <2>5, <2>6
<1>4. Len(path) \in S
  <2> HIDE DEF S
  <2>1. 0..Len(path) \subseteq S
    BY <1>1, <1>2, <1>3, Reaches
  <2> QED
    BY <1>1, <2>1
<1>5. Len(path) - Len(path) = 0
  BY <1>1
<1> QED
  BY <1>4, <1>5

\* A walk (matchSegments, router.go:876-936) finds a node exactly when some node
\* of the trie matches the path and serves the method; the one it finds comes
\* before every other in the order literal, parameter, wildcard; and the array
\* holds that node's values, whatever edges were tried and left before.
THEOREM WalkExact ==
    ASSUME NEW trie, trie = EmptyTrie \/ IsTrie(trie), NEW path \in Seq(Texts), NEW want,
           NEW vals \in Arrays(Len(path))
    PROVE  LET r == walkFrom(trie, path, want, vals) IN
           /\ r.found \in BOOLEAN /\ r.vals \in Arrays(Len(path))
           /\ r.found <=> Takers(trie, path, want) # {}
           /\ r.found =>
                /\ r.node \in Takers(trie, path, want)
                /\ \A m \in Takers(trie, path, want) : m = r.node \/ Precedes(r.node, m)
                /\ r.nv \in 0..MaxInlineParams
                /\ Holds(r.node, r.vals, r.nv, Len(path))
<1>1. CASE trie = EmptyTrie
  <2>1. walkFrom(trie, path, want, vals) = Miss(vals)
    BY <1>1 DEF walkFrom
  <2>2. Takers(trie, path, want) = {}
    BY <1>1 DEF Takers, EmptyTrie
  <2> QED
    BY <2>1, <2>2 DEF Miss
<1>2. CASE trie # EmptyTrie
  <2>1. IsTrie(trie) /\ Root \in DOMAIN trie /\ Len(Root) = 0 /\ MaxInlineParams \in Nat
    BY <1>2, TrieAssumption DEF IsTrie, Root
  <2>2. PICK at : at = [node |-> Root, vals |-> vals, nv |-> 0]
    OBVIOUS
  <2>3. at.node = Root /\ at.vals = vals /\ at.nv = 0 /\ at \in Cursors(trie, Len(path))
    BY <2>1, <2>2 DEF Cursors, Arrays
  <2>4. Holds(Root, vals, 0, Len(path))
    <3>1. Wilds(Root, 0) = 0
      BY WildsStep
    <3> QED
      BY <2>1, <3>1 DEF Holds
  <2>5. Leads(Root, path, 0)
    BY DEF Leads
  <2>6. Reached(trie, path, at)
    <3>1. Len(Root) <= Len(path)
      BY <2>1
    <3> QED
      BY <2>1, <2>3, <2>4, <2>5, <3>1 DEF Reached
  <2>7. PICK r : r = walkFrom(trie, path, want, vals)
    OBVIOUS
  <2>8. r = matchSegments(trie, path, want)[Len(path)][at]
    BY <1>2, <2>2, <2>7 DEF walkFrom
  <2>9. Right(trie, path, want, Root, vals, 0, r)
    BY <2>1, <2>3, <2>6, <2>8, CallsRight DEF BelowRight
  <2>10. Under(trie, path, want, Root) = Takers(trie, path, want)
    <3>1. \A m \in Takers(trie, path, want) : Len(m) \in Nat
      BY <2>1 DEF Takers, IsTrie
    <3> QED
      BY <2>1, <3>1 DEF Under
  <2> QED
    BY <2>7, <2>9, <2>10 DEF Right
<1> QED
  BY <1>1, <1>2

-----------------------------------------------------------------------------
(* The methods collected. *)

\* What the calls at the node n have to collect.
Gathers(trie, path, n, ms) ==
    \A m : m \in ms <=> \E x \in Under(trie, path, AnyMethod, n) : m \in addMethods(trie, x)

LEMMA AddsServed ==
    ASSUME NEW trie, NEW n \in DOMAIN trie
    PROVE  /\ \A m \in addMethods(trie, n) : serves(trie, n, AnyMethod)
           /\ \A m : m # AnyMethod => (m \in addMethods(trie, n) <=> serves(trie, n, m))
BY DEF addMethods, serves

LEMMA GatherEnds ==
    ASSUME NEW trie, IsTrie(trie), NEW path \in Seq(Texts),
           NEW n \in DOMAIN trie, Len(n) = Len(path), Leads(n, path, Len(n))
    PROVE  Gathers(trie, path, n, addMethods(trie, n))
<1>1. n \in Seq(Edges) /\ Len(path) \in Nat
  BY DEF IsTrie
<1>2. ASSUME NEW m \in Under(trie, path, AnyMethod, n) PROVE m = n
  <2>1. /\ m \in Seq(Edges) /\ Len(n) <= Len(m) /\ Len(m) <= Len(path)
        /\ \A i \in 1..Len(n) : m[i] = n[i]
    BY <1>1, <1>2 DEF Under, Takers, IsTrie, NodeTakes
  <2> QED
    BY <1>1, <2>1, SameSeq
<1>3. serves(trie, n, AnyMethod) => n \in Under(trie, path, AnyMethod, n)
  BY <1>1 DEF Under, Takers, NodeTakes
<1> QED
  BY <1>2, <1>3, AddsServed DEF Gathers

LEMMA GatherStep ==
    ASSUME NEW trie, IsTrie(trie), NEW path \in Seq(Texts), NEW below,
           NEW n \in DOMAIN trie, Len(n) < Len(path), Leads(n, path, Len(n)),
           \A c \in DOMAIN trie : Len(c) = Len(n) + 1 /\ Leads(c, path, Len(c))
                                    => Gathers(trie, path, c, below[c])
    PROVE  Gathers(trie, path, n, CollectAt(trie, path, below, Len(n) + 1)[n])
<1>1. PICK i : i = Len(n) + 1
  OBVIOUS
<1>2. /\ n \in Seq(Edges) /\ Len(n) \in Nat /\ Len(path) \in Nat /\ i \in 1..Len(path)
  BY <1>1 DEF IsTrie
<1>3. PICK seg \in Texts : seg = Decode(path[i])
  BY <1>2, DecodeType
<1>4. PICK L, S, M : L = <<"lit", seg>> /\ S = <<"single">> /\ M = <<"multi">>
  OBVIOUS
<1>5. L \in Edges /\ S \in Edges /\ M \in Edges /\ EdgeTakes(L, seg) /\ (seg # "" => EdgeTakes(S, seg))
  BY <1>4 DEF Edges, EdgeTakes
<1> DEFINE At(c) == IF c \in DOMAIN trie THEN below[c] ELSE {}
           U(e) == Under(trie, path, AnyMethod, Child(n, e))
<1>6. PICK all : all = CollectAt(trie, path, below, i)[n]
  OBVIOUS
<1>7. all = At(Child(n, L)) \cup (IF seg = "" THEN {} ELSE At(Child(n, S)))
            \cup addMethods(trie, Child(n, M))
  BY <1>3, <1>4, <1>6 DEF CollectAt
<1>8. ASSUME NEW e \in Edges, EdgeTakes(e, seg)
      PROVE  \A m : m \in At(Child(n, e)) <=> \E x \in U(e) : m \in addMethods(trie, x)
  <2>1. /\ Len(Child(n, e)) = i /\ Child(n, e)[i] = e
        /\ \A j \in 1..Len(n) : Child(n, e)[j] = n[j]
    BY <1>1, <1>2 DEF Child
  <2>2. Leads(Child(n, e), path, i)
    BY <1>1, <1>2, <1>3, <1>8, <2>1 DEF Leads
  <2>3. CASE Child(n, e) \in DOMAIN trie
    BY <1>1, <2>1, <2>2, <2>3 DEF Gathers
  <2>4. CASE Child(n, e) \notin DOMAIN trie
    BY <2>4, UnderChild
  <2> QED
    BY <2>3, <2>4
<1>9. ASSUME NEW x \in Under(trie, path, AnyMethod, n)
      PROVE  x \in U(L) \/ (seg # "" /\ x \in U(S)) \/ x = Child(n, M)
  <2>1. Parts(trie, path, AnyMethod, n, x, i, seg, L, S, M)
    BY <1>1, <1>3, <1>4, UnderSplits
  <2> QED
    BY <2>1 DEF Parts
<1>10. ASSUME NEW m, m \in addMethods(trie, Child(n, M))
       PROVE  Child(n, M) \in Under(trie, path, AnyMethod, n)
  <2>1. Child(n, M) \in DOMAIN trie /\ serves(trie, Child(n, M), AnyMethod)
    <3>1. Child(n, M) \in DOMAIN trie
      BY <1>10 DEF addMethods
    <3> QED
      BY <1>10, <3>1, AddsServed
  <2>2. /\ Len(Child(n, M)) = i /\ Child(n, M)[i] = M
        /\ \A j \in 1..Len(n) : Child(n, M)[j] = n[j]
    <3>1. n \in Seq(Edges) /\ M \in Edges /\ i = Len(n) + 1
      BY <1>1, <1>2, <1>5
    <3> QED
      BY <3>1 DEF Child
  <2>3. NodeTakes(Child(n, M), path)
    <3>1. Len(Child(n, M)) \in 1..Len(path) /\ Len(Child(n, M)) - 1 = Len(n)
      BY <1>1, <1>2, <2>2
    <3>2. Leads(Child(n, M), path, Len(n))
      BY <1>2, <2>2 DEF Leads
    <3> QED
      BY <1>4, <2>2, <3>1, <3>2 DEF NodeTakes
  <2> QED
    BY <1>1, <1>2, <2>1, <2>2, <2>3 DEF Under, Takers
<1>11. ASSUME NEW e \in Edges, NEW x \in U(e) PROVE x \in Under(trie, path, AnyMethod, n)
  BY <1>11, UnderChild
<1>12. ASSUME NEW m
       PROVE  m \in all <=> \E x \in Under(trie, path, AnyMethod, n) : m \in addMethods(trie, x)
  <2> HIDE DEF At, U
  <2>1. m \in At(Child(n, L)) <=> \E x \in U(L) : m \in addMethods(trie, x)
    BY <1>5, <1>8
  <2>2. seg # "" => (m \in At(Child(n, S)) <=> \E x \in U(S) : m \in addMethods(trie, x))
    BY <1>5, <1>8
  <2>3. ASSUME m \in all PROVE \E x \in Under(trie, path, AnyMethod, n) : m \in addMethods(trie, x)
    <3>1. CASE m \in At(Child(n, L))
      BY <1>5, <1>11, <2>1, <3>1
    <3>2. CASE seg # "" /\ m \in At(Child(n, S))
      BY <1>5, <1>11, <2>2, <3>2
    <3>3. CASE m \in addMethods(trie, Child(n, M))
      BY <1>10, <3>3
    <3> QED
      BY <1>7, <2>3, <3>1, <3>2, <3>3
  <2>4. ASSUME NEW x \in Under(trie, path, AnyMethod, n), m \in addMethods(trie, x)
        PROVE  m \in all
    BY <1>7, <1>9, <2>1, <2>2, <2>4
  <2> QED
    BY <2>3, <2>4
<1> QED
  BY <1>1, <1>6, <1>12 DEF Gathers

\* What is collected comes from the nodes that match the path.
LEMMA CollectedBy ==
    ASSUME NEW trie, IsTrie(trie), NEW path \in Seq(Texts), NEW m
    PROVE  m \in collectMethods(trie, path)
             <=> \E x \in Takers(trie, path, AnyMethod) : m \in addMethods(trie, x)
<1> DEFINE calls == collects(trie, path)
           Fine(d) == \A n \in DOMAIN trie : Len(n) = Len(path) - d /\ Leads(n, path, Len(n))
                                               => Gathers(trie, path, n, calls[d][n])
           S == {d \in 0..Len(path) : Fine(d)}
<1>1. Len(path) \in Nat
  OBVIOUS
<1>2. 0 \in S
  <2>1. calls[0] = Adds(trie)
    BY <1>1, CollectStep
  <2>2. ASSUME NEW n \in DOMAIN trie, Len(n) = Len(path) - 0, Leads(n, path, Len(n))
        PROVE  Gathers(trie, path, n, calls[0][n])
    <3>1. Len(n) = Len(path) /\ calls[0][n] = addMethods(trie, n)
      BY <1>1, <2>1, <2>2 DEF Adds
    <3> QED
      BY <2>2, <3>1, GatherEnds
  <2> QED
    BY <1>1, <2>2
<1>3. ASSUME NEW d \in 1..Len(path), d - 1 \in S PROVE d \in S
  <2>1. PICK below : below = calls[d - 1]
    OBVIOUS
  <2>2. calls[d] = CollectAt(trie, path, below, Len(path) - d + 1)
    <3>1. collects(trie, path)[d] = CollectAt(trie, path, collects(trie, path)[d - 1], Len(path) - d + 1)
      BY <1>1, CollectStep
    <3> QED
      BY <2>1, <3>1
  <2>3. ASSUME NEW n \in DOMAIN trie, Len(n) = Len(path) - d, Leads(n, path, Len(n))
        PROVE  Gathers(trie, path, n, calls[d][n])
    <3>1. Len(n) + 1 = Len(path) - d + 1 /\ Len(n) < Len(path) /\ Len(path) - (d - 1) = Len(n) + 1
      BY <1>1, <2>3
    <3>2. \A c \in DOMAIN trie : Len(c) = Len(n) + 1 /\ Leads(c, path, Len(c))
                                    => Gathers(trie, path, c, below[c])
      BY <1>3, <2>1, <3>1
    <3>3. Gathers(trie, path, n, CollectAt(trie, path, below, Len(n) + 1)[n])
      BY <2>3, <3>1, <3>2, GatherStep
    <3> QED
      BY <2>2, <3>1, <3>3
  <2>4. d \in 0..Len(path)
    BY <1>1
  <2> QED
    BY <2>3, <2>4
<1>4. Fine(Len(path))
  <2> HIDE DEF S
  <2>1. 0..Len(path) \subseteq S
    BY <1>1, <1>2, <1>3, Reaches
  <2>2. Len(path) \in S
    BY <1>1, <2>1
  <2> QED
    BY <2>2 DEF S
<1>5. Root \in DOMAIN trie /\ Len(Root) = 0 /\ Leads(Root, path, 0)
  BY DEF IsTrie, Root, Leads
<1>6. Gathers(trie, path, Root, collectMethods(trie, path))
  <2>1. Len(Root) = Len(path) - Len(path)
    BY <1>1, <1>5
  <2> QED
    BY <1>4, <1>5, <2>1 DEF collectMethods
<1>7. \A want : Under(trie, path, want, Root) = Takers(trie, path, want)
  <2>1. \A n \in DOMAIN trie : Len(n) \in Nat
    BY DEF IsTrie
  <2> QED
    BY <1>5, <2>1 DEF Under, Takers
<1> QED
  BY <1>6, <1>7 DEF Gathers

\* collectMethods (router.go:955-993) says what the walks would: a method is
\* collected for a path exactly when some node matches the path and serves it.
THEOREM CollectExact ==
    ASSUME NEW trie, IsTrie(trie), NEW path \in Seq(Texts), NEW m, m # AnyMethod
    PROVE  m \in collectMethods(trie, path) <=> Takers(trie, path, m) # {}
<1>1. \A n \in DOMAIN trie : /\ \A k \in addMethods(trie, n) : serves(trie, n, AnyMethod)
                             /\ m \in addMethods(trie, n) <=> serves(trie, n, m)
  BY AddsServed
<1> QED
  BY <1>1, CollectedBy DEF Takers

-----------------------------------------------------------------------------
(* Nodes and patterns. *)

\* A pattern's node, edge by edge.
LEMMA ShapeFacts ==
    ASSUME NEW segs \in SegLists
    PROVE  /\ Shape(segs) \in Seq(Edges) /\ Len(Shape(segs)) = Len(segs) /\ Len(segs) \in Nat
           /\ Len(segs) >= 1
           /\ \A i \in 1..Len(segs) :
                /\ Shape(segs)[i] = EdgeOf(segs[i])
                /\ IsMulti(segs[i]) <=> Shape(segs)[i] = <<"multi">>
                /\ IsWild(segs[i]) <=> Wild(Shape(segs)[i])
                /\ \A seg : EdgeTakes(Shape(segs)[i], seg)
                              <=> ~IsMulti(segs[i]) /\ SegMatches(segs[i], seg)
<1>1. Len(segs) \in Nat /\ Len(segs) >= 1
  BY RouteFacts
<1>2. ASSUME NEW i \in 1..Len(segs)
      PROVE  /\ EdgeOf(segs[i]) \in Edges
             /\ IsMulti(segs[i]) <=> EdgeOf(segs[i]) = <<"multi">>
             /\ IsWild(segs[i]) <=> Wild(EdgeOf(segs[i]))
             /\ \A seg : EdgeTakes(EdgeOf(segs[i]), seg)
                           <=> ~IsMulti(segs[i]) /\ SegMatches(segs[i], seg)
  <2>1. segs[i].kind \in {"lit", "single", "multi"} /\ segs[i].text \in Texts
    BY RouteFacts
  <2>2. CASE segs[i].kind = "lit"
    BY <2>1, <2>2, EdgeFacts DEF EdgeOf, Edges, IsMulti, IsWild, Wild, EdgeTakes, SegMatches
  <2>3. CASE segs[i].kind = "single"
    BY <2>1, <2>3, EdgeFacts DEF EdgeOf, Edges, IsMulti, IsWild, Wild, EdgeTakes, SegMatches
  <2>4. CASE segs[i].kind = "multi"
    BY <2>1, <2>4, EdgeFacts DEF EdgeOf, Edges, IsMulti, IsWild, Wild, EdgeTakes, SegMatches
  <2> QED
    BY <2>1, <2>2, <2>3, <2>4
<1>3. /\ Shape(segs) \in Seq(Edges) /\ Len(Shape(segs)) = Len(segs)
      /\ \A i \in 1..Len(segs) : Shape(segs)[i] = EdgeOf(segs[i])
  BY <1>1, <1>2 DEF Shape
<1> QED
  BY <1>1, <1>2, <1>3

LEMMA DecodeFacts ==
    ASSUME NEW path \in Seq(Texts)
    PROVE  /\ DecodePath(path) \in Seq(Texts) /\ Len(DecodePath(path)) = Len(path)
           /\ \A i \in 1..Len(path) : DecodePath(path)[i] = Decode(path[i])
BY DecodeType DEF DecodePath

\* A node matches what the patterns that end there mean.
LEMMA TakesIsMatch ==
    ASSUME NEW segs \in SegLists, NEW path \in Seq(Texts)
    PROVE  NodeTakes(Shape(segs), path) <=> PathMatches(segs, DecodePath(path))
<1> DEFINE n == Len(segs)
           At(i) == ~IsMulti(segs[i]) /\ SegMatches(segs[i], DecodePath(path)[i])
<1>1. n \in Nat /\ n >= 1 /\ Len(Shape(segs)) = n /\ Len(path) \in Nat
      /\ Len(DecodePath(path)) = Len(path)
  BY ShapeFacts, DecodeFacts
<1>2. \A i \in 1..(n - 1) : ~IsMulti(segs[i])
  BY <1>1 DEF SegLists
<1>3. \A k \in 0..n : k <= Len(path) => (Leads(Shape(segs), path, k) <=> \A i \in 1..k : At(i))
  <2> SUFFICES ASSUME NEW k \in 0..n, k <= Len(path)
               PROVE  Leads(Shape(segs), path, k) <=> \A i \in 1..k : At(i)
    OBVIOUS
  <2>1. \A i \in 1..k : i \in 1..n /\ i \in 1..Len(path)
    BY <1>1
  <2>2. \A i \in 1..k : EdgeTakes(Shape(segs)[i], Decode(path[i])) <=> At(i)
    BY <2>1, ShapeFacts, DecodeFacts
  <2> QED
    BY <2>2 DEF Leads
<1>4. IsMulti(segs[n]) <=> Shape(segs)[n] = <<"multi">>
  BY <1>1, ShapeFacts
<1>5. n \in 0..n /\ n - 1 \in 0..n /\ (n <= Len(path) <=> n \in 1..Len(path))
  BY <1>1
<1>6. CASE IsMulti(segs[n])
  <2>1. ~\A i \in 1..n : At(i)
    BY <1>1, <1>6
  <2>2. ~(n = Len(path) /\ Leads(Shape(segs), path, n))
    <3>1. n = Len(path) => (Leads(Shape(segs), path, n) <=> \A i \in 1..n : At(i))
      BY <1>1, <1>3, <1>5
    <3> QED
      BY <2>1, <3>1
  <2>3. n <= Len(path) => (Leads(Shape(segs), path, n - 1) <=> \A i \in 1..n - 1 : At(i))
    <3>1. n <= Len(path) => n - 1 <= Len(path)
      BY <1>1
    <3> QED
      BY <1>3, <1>5, <3>1
  <2>4. NodeTakes(Shape(segs), path)
          <=> n \in 1..Len(path) /\ Leads(Shape(segs), path, n - 1)
    BY <1>1, <1>4, <1>6, <2>2 DEF NodeTakes
  <2> HIDE DEF At
  <2>5. NodeTakes(Shape(segs), path) <=> n \in 1..Len(path) /\ \A i \in 1..n - 1 : At(i)
    BY <1>5, <2>3, <2>4
  <2> USE DEF At
  <2> QED
    BY <1>1, <1>2, <1>5, <1>6, <2>5 DEF PathMatches
<1>7. CASE ~IsMulti(segs[n])
  <2>1. NodeTakes(Shape(segs), path) <=> n = Len(path) /\ \A i \in 1..n : At(i)
    BY <1>1, <1>3, <1>4, <1>5, <1>7 DEF NodeTakes
  <2>2. \A i \in 1..n : ~IsMulti(segs[i])
    BY <1>1, <1>2, <1>7
  <2> QED
    BY <1>1, <1>7, <2>1, <2>2 DEF PathMatches
<1> QED
  BY <1>6, <1>7

\* Patterns of one node mean the same.
LEMMA SameShape ==
    ASSUME NEW a \in SegLists, NEW b \in SegLists, Shape(a) = Shape(b)
    PROVE  PathsOf(a) = PathsOf(b)
<1>1. Len(a) = Len(b) /\ Len(a) \in Nat /\ Len(a) >= 1
  BY ShapeFacts
<1>2. ASSUME NEW i \in 1..Len(a)
      PROVE  /\ IsMulti(a[i]) <=> IsMulti(b[i])
             /\ \A seg : IsMulti(a[i]) \/ (SegMatches(a[i], seg) <=> SegMatches(b[i], seg))
  BY <1>1, ShapeFacts
<1>3. ASSUME NEW path \in Seq(Texts) PROVE PathMatches(a, path) <=> PathMatches(b, path)
  <2>1. Len(path) = Len(a) \/ (IsMulti(a[Len(a)]) /\ Len(path) > Len(a))
          <=> Len(path) = Len(b) \/ (IsMulti(b[Len(b)]) /\ Len(path) > Len(b))
    <3>1. Len(a) \in 1..Len(a)
      BY <1>1
    <3> QED
      BY <1>1, <1>2, <3>1
  <2>2. (\A i \in 1..Len(a) : IsMulti(a[i]) \/ SegMatches(a[i], path[i]))
          <=> (\A i \in 1..Len(b) : IsMulti(b[i]) \/ SegMatches(b[i], path[i]))
    BY <1>1, <1>2
  <2>3. PathMatches(a, path)
          <=> /\ Len(path) = Len(a) \/ (IsMulti(a[Len(a)]) /\ Len(path) > Len(a))
              /\ \A i \in 1..Len(a) : IsMulti(a[i]) \/ SegMatches(a[i], path[i])
    BY MatchFacts
  <2>4. PathMatches(b, path)
          <=> /\ Len(path) = Len(b) \/ (IsMulti(b[Len(b)]) /\ Len(path) > Len(b))
              /\ \A i \in 1..Len(b) : IsMulti(b[i]) \/ SegMatches(b[i], path[i])
    BY MatchFacts
  <2> QED
    BY <2>1, <2>2, <2>3, <2>4
<1> QED
  BY <1>3 DEF PathsOf

\* Of two patterns that match one path, the one whose node is tried first is never
\* the more general: there is a path only the other one matches.
LEMMA FirstIsNarrow ==
    ASSUME NEW a \in SegLists, NEW b \in SegLists, NEW path \in Seq(Texts),
           PathMatches(a, path), PathMatches(b, path), Precedes(Shape(a), Shape(b))
    PROVE  \E w \in Seq(Texts) : PathMatches(b, w) /\ ~PathMatches(a, w)
<1>1. PICK j \in 1..Len(a) : j <= Len(b) /\ Rank(Shape(a)[j]) < Rank(Shape(b)[j])
  BY ShapeFacts DEF Precedes
<1>2. /\ Len(a) \in Nat /\ Len(b) \in Nat /\ Len(path) \in Nat /\ j \in 1..Len(b)
      /\ j \in 1..Len(path)
  BY <1>1, RouteFacts, MatchFacts
<1>3. /\ a[j].kind \in {"lit", "single", "multi"} /\ b[j].kind \in {"lit", "single", "multi"}
      /\ a[j].text \in Texts /\ b[j].text \in Texts
  BY <1>1, <1>2, RouteFacts
<1>4. \/ a[j].kind = "lit" /\ b[j].kind \in {"single", "multi"}
      \/ a[j].kind = "single" /\ b[j].kind = "multi"
  <2>1. Shape(a)[j] = EdgeOf(a[j]) /\ Shape(b)[j] = EdgeOf(b[j])
    BY <1>1, <1>2, ShapeFacts
  <2>2. \A s : /\ s.kind = "lit" => Rank(EdgeOf(s)) = 1
               /\ s.kind = "single" => Rank(EdgeOf(s)) = 2
               /\ s.kind = "multi" => Rank(EdgeOf(s)) = 3
    BY EdgeOrder DEF EdgeOf
  <2> QED
    BY <1>1, <1>3, <2>1, <2>2
<1>5. SUFFICES ASSUME NEW t \in Texts,
                      IsMulti(b[j]) \/ SegMatches(b[j], t), ~SegMatches(a[j], t)
               PROVE  \E w \in Seq(Texts) : PathMatches(b, w) /\ ~PathMatches(a, w)
  <2>1. CASE a[j].kind = "lit"
    <3>1. PICK t \in {"a", "b"} : t # a[j].text
      OBVIOUS
    <3>2. t \in Texts /\ t # ""
      BY <3>1 DEF Texts
    <3> QED
      BY <1>4, <1>5, <2>1, <3>1, <3>2 DEF SegMatches, IsMulti
  <2>2. CASE a[j].kind = "single" /\ b[j].kind = "multi"
    <3>1. "" \in Texts /\ ~SegMatches(a[j], "")
      BY <2>2 DEF Texts, SegMatches
    <3> QED
      BY <1>5, <2>2, <3>1 DEF IsMulti
  <2> QED
    BY <1>4, <2>1, <2>2
<1>6. PICK w : w = [path EXCEPT ![j] = t]
  OBVIOUS
<1>7. /\ w \in Seq(Texts) /\ Len(w) = Len(path) /\ w[j] = t
      /\ \A i \in 1..Len(path) : i # j => w[i] = path[i]
  BY <1>2, <1>6
<1>8. /\ Len(path) = Len(b) \/ (IsMulti(b[Len(b)]) /\ Len(path) > Len(b))
      /\ \A i \in 1..Len(b) : IsMulti(b[i]) \/ SegMatches(b[i], path[i])
  BY MatchFacts
<1>9. PathMatches(b, w)
  <2>1. \A i \in 1..Len(b) : IsMulti(b[i]) \/ SegMatches(b[i], w[i])
    <3> SUFFICES ASSUME NEW i \in 1..Len(b) PROVE IsMulti(b[i]) \/ SegMatches(b[i], w[i])
      OBVIOUS
    <3>1. i \in 1..Len(path)
      BY <1>2, <1>8
    <3> QED
      BY <1>5, <1>7, <1>8, <3>1
  <2> QED
    BY <1>7, <1>8, <2>1, MatchFacts
<1>10. ~PathMatches(a, w)
  <2>1. ~IsMulti(a[j])
    BY <1>4 DEF IsMulti
  <2> QED
    BY <1>1, <1>5, <1>7, <2>1, MatchFacts
<1> QED
  BY <1>7, <1>9, <1>10

\* The names are what their definition says.
LEMMA NamesStep ==
    ASSUME NEW segs, Len(segs) \in Nat
    PROVE  /\ NamesUpTo(segs)[0] = <<>>
           /\ \A d \in 1..Len(segs) : NamesUpTo(segs)[d] = Named(NamesUpTo(segs)[d - 1], segs[d])
<1>0. PICK n, start : n = Len(segs) /\ start = <<>>
  OBVIOUS
<1> DEFINE Of(f, k) == [d \in 0..k |-> IF d = 0 THEN start
                                       ELSE Named(f[d - 1], segs[d])]
           S == {k \in 0..n : \E f : f = Of(f, k)}
<1>1. 0 \in S
  <2> DEFINE f == [d \in 0..0 |-> start]
  <2>1. f = Of(f, 0)
    OBVIOUS
  <2>2. \E m : m = Of(m, 0)
    <3> HIDE DEF f
    <3> QED
      BY <2>1
  <2> QED
    BY <1>0, <2>2
<1>2. ASSUME NEW k \in 1..n, k - 1 \in S PROVE k \in S
  <2>1. PICK f : f = Of(f, k - 1)
    BY <1>2
  <2> DEFINE e == [d \in 0..k |-> IF d = k THEN Named(f[k - 1], segs[k]) ELSE f[d]]
  <2>2. \A d \in 0..k - 1 : e[d] = f[d]
    OBVIOUS
  <2>3. ASSUME NEW d \in 0..k PROVE e[d] = Of(e, k)[d]
    <3>1. CASE d = k
      BY <2>2, <3>1
    <3>2. CASE d # k
      <4>1. e[d] = IF d = 0 THEN start ELSE Named(f[d - 1], segs[d])
        BY <2>1, <2>2, <3>2
      <4>2. d # 0 => e[d - 1] = f[d - 1]
        BY <2>2, <3>2
      <4> QED
        BY <4>1, <4>2
    <3> QED
      BY <3>1, <3>2
  <2>4. e = Of(e, k)
    BY <2>3
  <2>5. \E m : m = Of(m, k)
    <3> HIDE DEF e
    <3> QED
      BY <2>4
  <2> QED
    BY <2>5
<1>3. n \in S
  <2> HIDE DEF S
  <2>1. n \in Nat
    BY <1>0
  <2>2. 0..n \subseteq S
    BY <1>1, <1>2, <2>1, Reaches
  <2> QED
    BY <2>1, <2>2
<1>4. \E f : f = Of(f, n)
  BY <1>3
<1>5. NamesUpTo(segs) = Of(NamesUpTo(segs), n)
  BY <1>0, <1>4 DEF NamesUpTo
<1>6. NamesUpTo(segs)[0] = start /\ \A d \in 1..n : NamesUpTo(segs)[d] = Named(NamesUpTo(segs)[d - 1], segs[d])
  <2>1. n \in Nat
    BY <1>0
  <2> QED
    BY <1>5, <2>1
<1> QED
  BY <1>0, <1>6

\* A wildcard's name is at the number the wildcard has on its node.
LEMMA NamesFacts ==
    ASSUME NEW segs \in SegLists
    PROVE  /\ WildNames(segs) \in Seq(Texts)
           /\ Len(WildNames(segs)) = Wilds(Shape(segs), Len(segs))
           /\ \A i \in 1..Len(segs) :
                IsWild(segs[i]) => WildNames(segs)[Wilds(Shape(segs), i)] = segs[i].text
<1> DEFINE n == Len(segs)
           names == NamesUpTo(segs)
           W(i) == Wilds(Shape(segs), i)
           Fine(k) == /\ names[k] \in Seq(Texts) /\ Len(names[k]) = W(k)
                      /\ \A i \in 1..k : IsWild(segs[i]) => names[k][W(i)] = segs[i].text
           S == {k \in 0..n : Fine(k)}
<1>1. n \in Nat /\ n >= 1
  BY RouteFacts
<1>2. names[0] = <<>> /\ \A k \in 1..n : names[k] = Named(names[k - 1], segs[k])
  BY <1>1, NamesStep
<1>3. \A k \in 0..n : W(k) \in Nat
  <2>1. \A k \in Nat : W(k) \in Nat
    BY WildsStep
  <2> QED
    BY <1>1, <2>1
<1>4. \A k \in 1..n : W(k) = W(k - 1) + (IF IsWild(segs[k]) THEN 1 ELSE 0)
  <2> SUFFICES ASSUME NEW k \in 1..n PROVE W(k) = W(k - 1) + (IF IsWild(segs[k]) THEN 1 ELSE 0)
    OBVIOUS
  <2>1. k - 1 \in Nat /\ (k - 1) + 1 = k
    BY <1>1
  <2>2. W((k - 1) + 1) = W(k - 1) + (IF Wild(Shape(segs)[(k - 1) + 1]) THEN 1 ELSE 0)
    BY <2>1, WildsStep
  <2>3. IsWild(segs[k]) <=> Wild(Shape(segs)[k])
    BY ShapeFacts
  <2> QED
    BY <2>1, <2>2, <2>3
<1>5. 0 \in S
  <2>1. W(0) = 0
    BY WildsStep
  <2>2. <<>> \in Seq(Texts) /\ Len(<<>>) = 0
    OBVIOUS
  <2>3. Fine(0)
    <3> HIDE DEF names, W
    <3> QED
      BY <1>2, <2>1, <2>2
  <2> QED
    BY <1>1, <2>3
<1>6. ASSUME NEW k \in 1..n, k - 1 \in S PROVE k \in S
  <2>1. PICK before : before = names[k - 1]
    OBVIOUS
  <2>2. /\ before \in Seq(Texts) /\ Len(before) = W(k - 1)
        /\ \A i \in 1..k - 1 : IsWild(segs[i]) => before[W(i)] = segs[i].text
    BY <1>6, <2>1
  <2>3. names[k] = Named(before, segs[k]) /\ segs[k].text \in Texts /\ W(k - 1) \in Nat
    BY <1>2, <1>3, <2>1, RouteFacts
  <2>4. \A i \in 1..k - 1 : IsWild(segs[i]) => W(i) \in 1..W(k - 1)
    <3> SUFFICES ASSUME NEW i \in 1..k - 1, IsWild(segs[i]) PROVE W(i) \in 1..W(k - 1)
      OBVIOUS
    <3>1. /\ i \in Nat /\ k - 1 \in Nat /\ i <= k - 1 /\ 0 < i /\ i \in 1..n
      BY <1>1
    <3>2. Wild(Shape(segs)[i])
      BY <3>1, ShapeFacts
    <3>3. W(i) <= W(k - 1) /\ W(i) \in Nat /\ W(k - 1) \in Nat
      BY <3>1, WildsGrow
    <3>4. W(0) < W(i) /\ W(0) \in Nat
      BY <3>1, <3>2, WildsGrow
    <3> QED
      BY <3>3, <3>4
  <2>5. k \in 0..n /\ \A i \in 1..k : i = k \/ i \in 1..k - 1
    BY <1>1
  <2> HIDE DEF names, W
  <2>6. CASE IsWild(segs[k])
    <3>1. names[k] = Append(before, segs[k].text) /\ W(k) = W(k - 1) + 1
      BY <1>4, <2>3, <2>6 DEF Named
    <3>2. /\ names[k] \in Seq(Texts) /\ Len(names[k]) = W(k) /\ names[k][W(k)] = segs[k].text
          /\ \A x \in 1..W(k - 1) : names[k][x] = before[x]
      BY <2>2, <2>3, <3>1
    <3>3. \A i \in 1..k - 1 : IsWild(segs[i]) => names[k][W(i)] = segs[i].text
      BY <2>2, <2>4, <3>2
    <3> QED
      BY <2>5, <3>2, <3>3
  <2>7. CASE ~IsWild(segs[k])
    <3>1. names[k] = before /\ W(k) = W(k - 1)
      BY <1>4, <2>3, <2>7 DEF Named
    <3> QED
      BY <2>2, <2>5, <2>7, <3>1
  <2> QED
    BY <2>6, <2>7
<1>7. Fine(n)
  <2> HIDE DEF S
  <2>1. 0..n \subseteq S
    BY <1>1, <1>5, <1>6, Reaches
  <2>2. n \in S
    BY <1>1, <2>1
  <2> QED
    BY <2>2 DEF S
<1> QED
  BY <1>7 DEF WildNames

-----------------------------------------------------------------------------
(* Inserting a pattern. *)

\* Inserting keeps a trie a trie and what it holds, and adds one entry at the most:
\* the pattern's, at its node.
LEMMA InsertFacts ==
    ASSUME NEW trie, IsTrie(trie), NEW p, p.segs \in SegLists, NEW entry,
           NEW after, after = insert(trie, p, entry), NEW last, last = Shape(p.segs)
    PROVE  /\ IsTrie(after) /\ last \in DOMAIN after /\ p.method \in DOMAIN after[last]
           /\ \A n \in DOMAIN trie :
                /\ n \in DOMAIN after /\ DOMAIN trie[n] \subseteq DOMAIN after[n]
                /\ \A m \in DOMAIN trie[n] : after[n][m] = trie[n][m]
           /\ \A n \in DOMAIN after : \A m \in DOMAIN after[n] :
                \/ n \in DOMAIN trie /\ m \in DOMAIN trie[n]
                \/ n = last /\ m = p.method /\ after[n][m] = entry
<1>1. /\ last \in Seq(Edges) /\ Len(last) = Len(p.segs) /\ Len(last) \in Nat
      /\ SubSeq(last, 1, Len(last)) = last
  <2>1. last \in Seq(Edges) /\ Len(last) = Len(p.segs) /\ Len(last) \in Nat
    BY ShapeFacts
  <2>2. SubSeq(last, 1, Len(last)) = last
    BY <2>1, SameSeq
  <2> QED
    BY <2>1, <2>2
<1> DEFINE nodes == {SubSeq(last, 1, i) : i \in 0..Len(p.segs)}
           grown == [n \in DOMAIN trie \cup nodes |->
                       IF n \in DOMAIN trie THEN trie[n] ELSE NoHandlers]
           old == grown[last]
           new == [m \in DOMAIN old \cup {p.method} |-> IF m \in DOMAIN old THEN old[m] ELSE entry]
<1>2. after = [grown EXCEPT ![last] = new]
  BY DEF insert
<1>3. last \in nodes
  BY <1>1
<1>4. /\ DOMAIN after = DOMAIN trie \cup nodes /\ after[last] = new
      /\ \A n \in DOMAIN trie \cup nodes : n # last => after[n] = grown[n]
  <2> HIDE DEF new, nodes
  <2> QED
    BY <1>2, <1>3
<1>5. DOMAIN NoHandlers = {}
  BY DEF NoHandlers
<1>6. /\ last \in DOMAIN trie => old = trie[last]
      /\ last \notin DOMAIN trie => DOMAIN old = {}
  BY <1>3, <1>5
<1>7. /\ p.method \in DOMAIN new
      /\ last \in DOMAIN trie => /\ DOMAIN trie[last] \subseteq DOMAIN new
                                 /\ \A m \in DOMAIN trie[last] : new[m] = trie[last][m]
      /\ \A m \in DOMAIN new : \/ last \in DOMAIN trie /\ m \in DOMAIN trie[last]
                               \/ m = p.method /\ new[m] = entry
  <2> HIDE DEF old
  <2> QED
    BY <1>6
<1>8. \A n \in DOMAIN trie \cup nodes : n # last =>
        /\ n \in DOMAIN trie => after[n] = trie[n]
        /\ n \notin DOMAIN trie => DOMAIN after[n] = {}
  BY <1>4, <1>5
<1>9. IsTrie(after)
  <2>1. ASSUME NEW n \in nodes, NEW j \in 0..Len(n)
        PROVE  n \in Seq(Edges) /\ SubSeq(n, 1, j) \in nodes
    <3>1. PICK i \in 0..Len(p.segs) : n = SubSeq(last, 1, i)
      BY <2>1
    <3>2. /\ n \in Seq(Edges) /\ Len(n) = i /\ \A x \in 1..i : n[x] = last[x]
      BY <1>1, <3>1
    <3>3. j \in 0..Len(p.segs) /\ j \in 0..i /\ i \in Nat
      BY <1>1, <2>1, <3>1, <3>2
    <3>4. SubSeq(n, 1, j) = SubSeq(last, 1, j)
      <4>1. /\ SubSeq(n, 1, j) \in Seq(Edges) /\ Len(SubSeq(n, 1, j)) = j
            /\ \A x \in 1..j : SubSeq(n, 1, j)[x] = n[x]
        BY <3>2, <3>3
      <4>2. /\ SubSeq(last, 1, j) \in Seq(Edges) /\ Len(SubSeq(last, 1, j)) = j
            /\ \A x \in 1..j : SubSeq(last, 1, j)[x] = last[x]
        BY <1>1, <3>3
      <4>3. \A x \in 1..j : SubSeq(n, 1, j)[x] = SubSeq(last, 1, j)[x]
        BY <3>2, <3>3, <4>1, <4>2
      <4> QED
        BY <4>1, <4>2, <4>3, SameSeq
    <3> QED
      BY <3>2, <3>3, <3>4
  <2>2. \A n \in DOMAIN trie : n \in Seq(Edges) /\ \A j \in 0..Len(n) : SubSeq(n, 1, j) \in DOMAIN trie
    BY DEF IsTrie
  <2>3. Root \in DOMAIN trie
    BY DEF IsTrie
  <2> HIDE DEF nodes
  <2> QED
    BY <1>4, <2>1, <2>2, <2>3 DEF IsTrie
<1> HIDE DEF nodes, grown, old, new
<1> QED
  BY <1>3, <1>4, <1>7, <1>8, <1>9

=============================================================================
