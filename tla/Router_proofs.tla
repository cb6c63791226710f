--------------------------- MODULE Router_proofs ---------------------------
(***************************************************************************)
(* Theorems about the router, for every sequence of registrations, every   *)
(* set of requests and every size of the array of bindings: the compiled   *)
(* tries hold exactly the table, and from that and from what RouteTrie_proofs *)
(* says of a walk, each property that module Router states.                *)
(***************************************************************************)
EXTENDS Router, RouteTrie_proofs

-----------------------------------------------------------------------------
(* The table. *)

RegsOK == regs \in Seq(DOMAIN Registrations)

LEMMA RegistrationFacts ==
    ASSUME NEW i \in DOMAIN Registrations
    PROVE  /\ Registrations[i] \in Registration /\ Registrations[i].method # AnyMethod
           /\ Registrations[i].method \in STRING
<1>1. PICK Raw : Raw = [form : {"text", "param", "star", "end", "bad"}, text : STRING]
  OBVIOUS
<1>2. PICK RawT : RawT = [form : {"text", "param", "star", "end", "bad"}, text : Texts]
  OBVIOUS
<1>3. Raw \subseteq RawT
  BY <1>1, <1>2 DEF Texts
<1>4. Registrations[i] \in [method : STRING \ {AnyMethod}, host : STRING, route : Seq(Raw)]
  <2>1. PICK Rec : Rec = [method : STRING \ {AnyMethod}, host : STRING,
                          route : Seq([form : {"text", "param", "star", "end", "bad"},
                                       text : STRING])]
    OBVIOUS
  <2>2. Registrations \in Seq(Rec)
    BY <2>1, RouterAssumption, Zenon
  <2>3. Registrations[i] \in Rec
    BY <2>2
  <2> QED
    BY <1>1, <2>1, <2>3
<1>5. \A r \in Seq(Raw) : r \in Seq(RawT)
  BY <1>3
<1>6. Registrations[i] \in [method : Texts, host : Texts, route : Seq(RawT)]
  BY <1>4, <1>5 DEF Texts
<1> QED
  BY <1>2, <1>4, <1>6 DEF Registration

LEMMA TableFacts ==
    ASSUME RegsOK
    PROVE  /\ Len(regs) \in Nat /\ DOMAIN regs = 1..Len(regs) /\ GoodRegs \subseteq 1..Len(regs)
           /\ DOMAIN Table = GoodRegs
           /\ \A k \in GoodRegs :
                /\ regs[k] \in DOMAIN Registrations /\ ~PatternBad(Reg(k)) /\ Reg(k) \in Registration
                /\ Table[k] = parsePattern(Reg(k))
                /\ Table[k].segs = Segments(Reg(k)) /\ Table[k].segs \in SegLists
                /\ Table[k].names = WildNames(Table[k].segs)
                /\ Table[k].host = Reg(k).host
                /\ Table[k].method = Reg(k).method /\ Table[k].method # AnyMethod
<1>1. /\ Len(regs) \in Nat /\ DOMAIN regs = 1..Len(regs)
      /\ \A k \in 1..Len(regs) : regs[k] \in DOMAIN Registrations
  BY DEF RegsOK
<1>2. GoodRegs \subseteq 1..Len(regs) /\ DOMAIN Table = GoodRegs
  BY <1>1 DEF GoodRegs, Table
<1>3. ASSUME NEW k \in GoodRegs
      PROVE  /\ regs[k] \in DOMAIN Registrations /\ ~PatternBad(Reg(k)) /\ Reg(k) \in Registration
             /\ Reg(k).method # AnyMethod /\ Table[k] = parsePattern(Reg(k))
  <2>1. regs[k] \in DOMAIN Registrations
    BY <1>1, <1>2
  <2>2. Reg(k) \in Registration /\ Reg(k).method # AnyMethod
    BY <2>1, RegistrationFacts DEF Reg
  <2>3. Table[k] = parsePattern(Reg(k))
    BY <2>1 DEF Table, Parsed, Reg
  <2>4. ~PatternBad(Reg(k))
    BY DEF GoodRegs
  <2> QED
    BY <2>1, <2>2, <2>3, <2>4
<1>4. \A k \in GoodRegs : Segments(Reg(k)) \in SegLists
  BY <1>3, ParsedIsRoute
<1> QED
  BY <1>1, <1>2, <1>3, <1>4 DEF parsePattern

-----------------------------------------------------------------------------
(* The compiled tries. *)

NoTries == [h \in {} |-> EmptyTrie]

\* The tries behind route k, given those behind the one before.
Behind(tries, parsed, k) ==
    IF k \in DOMAIN parsed THEN InsertRoute(tries, k, parsed[k]) ELSE tries

\* The loop over the table is what its definition says.
LEMMA CompileStep ==
    ASSUME NEW parsed, Len(regs) \in Nat
    PROVE  /\ Compile(parsed)[0] = NoTries
           /\ \A d \in 1..Len(regs) : Compile(parsed)[d] = Behind(Compile(parsed)[d - 1], parsed, d)
<1>0. PICK n, start : n = Len(regs) /\ start = NoTries
  OBVIOUS
<1> DEFINE Of(f, k) == [d \in 0..k |-> IF d = 0 THEN start
                                       ELSE Behind(f[d - 1], parsed, d)]
           S == {k \in 0..n : \E f : f = Of(f, k)}
<1>1. 0 \in S
  <2> DEFINE f == [d \in 0..0 |-> start]
  <2>1. f = Of(f, 0)
    OBVIOUS
  <2>2. \E m : m = Of(m, 0)
    <3> HIDE DEF f
    <3> QED
      BY <2>1
  <2> QED
    BY <1>0, <2>2
<1>2. ASSUME NEW k \in 1..n, k - 1 \in S PROVE k \in S
  <2>1. PICK f : f = Of(f, k - 1)
    BY <1>2
  <2> DEFINE e == [d \in 0..k |-> IF d = k THEN Behind(f[k - 1], parsed, k) ELSE f[d]]
  <2>2. \A d \in 0..k - 1 : e[d] = f[d]
    OBVIOUS
  <2>3. ASSUME NEW d \in 0..k PROVE e[d] = Of(e, k)[d]
    <3>1. CASE d = k
      BY <2>2, <3>1
    <3>2. CASE d # k
      <4>1. e[d] = IF d = 0 THEN start ELSE Behind(f[d - 1], parsed, d)
        BY <2>1, <2>2, <3>2
      <4>2. d # 0 => e[d - 1] = f[d - 1]
        BY <2>2, <3>2
      <4> QED
        BY <4>1, <4>2
    <3> QED
      BY <3>1, <3>2
  <2>4. e = Of(e, k)
    BY <2>3
  <2>5. \E m : m = Of(m, k)
    <3> HIDE DEF e
    <3> QED
      BY <2>4
  <2> QED
    BY <2>5
<1>3. n \in S
  <2> HIDE DEF S
  <2>1. n \in Nat
    BY <1>0
  <2>2. 0..n \subseteq S
    BY <1>1, <1>2, <2>1, Reaches
  <2> QED
    BY <2>1, <2>2
<1>4. \E f : f = Of(f, n)
  BY <1>3
<1>5. Compile(parsed) = Of(Compile(parsed), n)
  BY <1>0, <1>4 DEF Compile, NoTries, Behind
<1>6. Compile(parsed)[0] = start /\ \A d \in 1..n : Compile(parsed)[d] = Behind(Compile(parsed)[d - 1], parsed, d)
  <2>1. n \in Nat
    BY <1>0
  <2> QED
    BY <1>5, <2>1
<1> QED
  BY <1>0, <1>6

\* The tries hold the first n routes: each entry is that of a route, at the node of
\* its pattern in the trie of its host, and each of the routes has one there.
Holding(tries, n) ==
    /\ \A h \in DOMAIN tries : IsTrie(tries[h])
    /\ \A h \in DOMAIN tries : \A x \in DOMAIN tries[h] : \A m \in DOMAIN tries[h][x] :
         \E k \in GoodRegs : /\ tries[h][x][m] = [route |-> k, mws |-> mws]
                             /\ Table[k].host = h /\ Table[k].method = m
                             /\ Shape(Table[k].segs) = x
    /\ \A k \in GoodRegs : k <= n =>
         /\ Table[k].host \in DOMAIN tries
         /\ Shape(Table[k].segs) \in DOMAIN tries[Table[k].host]
         /\ Table[k].method \in DOMAIN tries[Table[k].host][Shape(Table[k].segs)]

LEMMA RootAlone == IsTrie([x \in {Root} |-> NoHandlers])
<1>1. Root \in Seq(Edges) /\ Len(Root) = 0 /\ SubSeq(Root, 1, 0) = Root
  BY DEF Root
<1>2. \A j \in 0..0 : j = 0
  OBVIOUS
<1> QED
  BY <1>1, <1>2 DEF IsTrie

LEMMA InsertHolds ==
    ASSUME RegsOK, NEW tries, NEW k \in GoodRegs, Holding(tries, k - 1)
    PROVE  Holding(InsertRoute(tries, k, Table[k]), k)
<1> DEFINE p == Table[k]
           bare == [x \in {Root} |-> NoHandlers]
           trie == IF p.host \in DOMAIN tries THEN tries[p.host] ELSE bare
           entry == [route |-> k, mws |-> mws]
           last == Shape(p.segs)
           after == InsertRoute(tries, k, p)
<1>1. k \in 1..Len(regs) /\ Len(regs) \in Nat /\ p.segs \in SegLists
      /\ GoodRegs \subseteq 1..Len(regs)
  BY TableFacts
<1>2. IsTrie(trie)
  BY RootAlone DEF Holding
<1>3. PICK grown : grown = insert(trie, p, entry)
  OBVIOUS
<1>4. /\ DOMAIN after = DOMAIN tries \cup {p.host} /\ after[p.host] = grown
      /\ \A h \in DOMAIN tries : h # p.host => after[h] = tries[h]
  BY <1>3 DEF InsertRoute
<1>5. /\ IsTrie(grown) /\ last \in DOMAIN grown /\ p.method \in DOMAIN grown[last]
      /\ \A n \in DOMAIN trie :
           /\ n \in DOMAIN grown /\ DOMAIN trie[n] \subseteq DOMAIN grown[n]
           /\ \A m \in DOMAIN trie[n] : grown[n][m] = trie[n][m]
      /\ \A n \in DOMAIN grown : \A m \in DOMAIN grown[n] :
           \/ n \in DOMAIN trie /\ m \in DOMAIN trie[n]
           \/ n = last /\ m = p.method /\ grown[n][m] = entry
  <2> HIDE DEF trie, entry, p
  <2> QED
    BY <1>1, <1>2, <1>3, InsertFacts
<1>6. \A n \in DOMAIN bare : DOMAIN bare[n] = {}
  BY DEF NoHandlers
<1>7. \A h \in DOMAIN after : IsTrie(after[h])
  <2> HIDE DEF after, trie, entry, p, last
  <2> QED
    BY <1>4, <1>5 DEF Holding
<1>8. ASSUME NEW h \in DOMAIN after, NEW x \in DOMAIN after[h], NEW m \in DOMAIN after[h][x]
      PROVE  \E r \in GoodRegs : /\ after[h][x][m] = [route |-> r, mws |-> mws]
                                 /\ Table[r].host = h /\ Table[r].method = m
                                 /\ Shape(Table[r].segs) = x
  <2>1. CASE h # p.host
    <3>1. h \in DOMAIN tries /\ after[h] = tries[h]
      BY <1>4, <2>1
    <3> HIDE DEF after
    <3> QED
      BY <1>8, <3>1 DEF Holding
  <2>2. CASE h = p.host /\ x \in DOMAIN trie /\ m \in DOMAIN trie[x]
    <3>1. h \in DOMAIN tries /\ trie = tries[h]
      BY <1>6, <2>2
    <3>2. after[h][x][m] = tries[h][x][m]
      BY <1>4, <1>5, <2>2, <3>1
    <3> HIDE DEF after, trie
    <3> QED
      BY <2>2, <3>1, <3>2 DEF Holding
  <2>3. CASE h = p.host /\ x = last /\ m = p.method /\ after[h][x][m] = entry
    BY <2>3
  <2> HIDE DEF after, trie
  <2> QED
    BY <1>4, <1>5, <1>8, <2>1, <2>2, <2>3
<1>9. ASSUME NEW r \in GoodRegs, r <= k
      PROVE  /\ Table[r].host \in DOMAIN after
             /\ Shape(Table[r].segs) \in DOMAIN after[Table[r].host]
             /\ Table[r].method \in DOMAIN after[Table[r].host][Shape(Table[r].segs)]
  <2>1. CASE r = k
    <3> HIDE DEF after, trie, entry
    <3> QED
      BY <1>4, <1>5, <2>1
  <2>2. CASE r # k
    <3>1. r <= k - 1
      BY <1>1, <1>9, <2>2
    <3>2. PICK h, x, m : h = Table[r].host /\ x = Shape(Table[r].segs) /\ m = Table[r].method
      OBVIOUS
    <3>3. h \in DOMAIN tries /\ x \in DOMAIN tries[h] /\ m \in DOMAIN tries[h][x]
      BY <3>1, <3>2 DEF Holding
    <3>4. CASE h = p.host
      <4>1. trie = tries[h]
        BY <3>3, <3>4
      <4> HIDE DEF after, trie, entry
      <4> QED
        BY <1>4, <1>5, <3>2, <3>3, <3>4, <4>1
    <3>5. CASE h # p.host
      <4>1. h \in DOMAIN after /\ after[h] = tries[h]
        BY <1>4, <3>3, <3>5
      <4> HIDE DEF after
      <4> QED
        BY <3>2, <3>3, <4>1
    <3> QED
      BY <3>4, <3>5
  <2> QED
    BY <2>1, <2>2
<1> HIDE DEF after
<1> QED
  BY <1>7, <1>8, <1>9 DEF Holding, after

\* Build (router.go:104-161, 601-648) compiles the table it was given, no more and no less:
\* every entry is a good route's, at that route's node in its host's trie, behind
\* every middleware; and every good route has an entry there, its own or that of an
\* earlier route with the same method, host and shape.
THEOREM CompileExact ==
    ASSUME RegsOK
    PROVE  Holding(Compile(Table)[Len(regs)], Len(regs))
<1> DEFINE tries == Compile(Table)
           S == {n \in 0..Len(regs) : Holding(tries[n], n)}
<1>1. Len(regs) \in Nat /\ GoodRegs \subseteq 1..Len(regs) /\ DOMAIN Table = GoodRegs
  BY TableFacts
<1>2. /\ tries[0] = NoTries
      /\ \A n \in 1..Len(regs) : tries[n] = Behind(tries[n - 1], Table, n)
  BY <1>1, CompileStep
<1> HIDE DEF tries
<1>3. 0 \in S
  <2>1. \A k \in GoodRegs : ~(k <= 0)
    BY <1>1
  <2>2. DOMAIN NoTries = {}
    BY DEF NoTries
  <2>3. Holding(tries[0], 0)
    BY <1>2, <2>1, <2>2 DEF Holding
  <2> QED
    BY <1>1, <2>3
<1>4. ASSUME NEW n \in 1..Len(regs), n - 1 \in S PROVE n \in S
  <2>1. PICK before : before = tries[n - 1]
    OBVIOUS
  <2>2. Holding(before, n - 1) /\ tries[n] = Behind(before, Table, n) /\ n \in 0..Len(regs)
    BY <1>1, <1>2, <1>4, <2>1
  <2>3. CASE n \in GoodRegs
    BY <1>1, <2>2, <2>3, InsertHolds DEF Behind
  <2>4. CASE n \notin GoodRegs
    <3>1. \A k \in GoodRegs : k <= n => k <= n - 1
      BY <1>1, <2>4
    <3> QED
      BY <1>1, <2>2, <2>4, <3>1 DEF Behind, Holding
  <2> QED
    BY <2>3, <2>4
<1>5. Len(regs) \in S
  <2> HIDE DEF S
  <2>1. 0..Len(regs) \subseteq S
    BY <1>1, <1>3, <1>4, Reaches
  <2> QED
    BY <1>1, <2>1
<1> QED
  BY <1>5 DEF tries

-----------------------------------------------------------------------------
(* What a walk finds, in terms of the routes. *)

\* The tries are those of the table.
Compiled == RegsOK /\ Holding(roots, Len(regs))

\* The routes of a host that a request for the path may get.
RoutesFor(h, path, want) ==
    {k \in GoodRegs : /\ Table[k].host = h /\ PathMatches(Table[k].segs, DecodePath(path))
                      /\ want = AnyMethod \/ Answers(k, want)}

LEMMA TrieFacts ==
    ASSUME Compiled, NEW h
    PROVE  /\ TrieAt(h) = EmptyTrie \/ IsTrie(TrieAt(h))
           /\ TrieAt(h) # EmptyTrie => IsTrie(TrieAt(h)) /\ h \in DOMAIN roots /\ TrieAt(h) = roots[h]
           /\ h \in DOMAIN roots => TrieAt(h) = roots[h] /\ TrieAt(h) # EmptyTrie
           /\ \A k \in GoodRegs : Table[k].host = h => h \in DOMAIN roots
<1>1. \A g \in DOMAIN roots : IsTrie(roots[g])
  BY DEF Compiled, Holding
<1>2. \A trie : IsTrie(trie) => trie # EmptyTrie
  BY DEF IsTrie, EmptyTrie
<1>3. \A k \in GoodRegs : Table[k].host \in DOMAIN roots
  BY TableFacts DEF Compiled, Holding
<1> QED
  BY <1>1, <1>2, <1>3 DEF TrieAt

\* The nodes that match and serve are those of the routes.
LEMMA TakersAreRoutes ==
    ASSUME Compiled, NEW h, NEW path \in Seq(Texts), NEW want, NEW n
    PROVE  n \in Takers(TrieAt(h), path, want)
             <=> \E k \in RoutesFor(h, path, want) : Shape(Table[k].segs) = n
<1>1. ASSUME n \in Takers(TrieAt(h), path, want)
      PROVE  \E k \in RoutesFor(h, path, want) : Shape(Table[k].segs) = n
  <2>1. n \in DOMAIN TrieAt(h) /\ NodeTakes(n, path) /\ serves(TrieAt(h), n, want)
    BY <1>1 DEF Takers
  <2>2. h \in DOMAIN roots /\ TrieAt(h) = roots[h]
    <3>1. DOMAIN EmptyTrie = {}
      BY DEF EmptyTrie
    <3> QED
      BY <2>1, <3>1, TrieFacts
  <2>3. PICK m \in DOMAIN roots[h][n] :
          want = AnyMethod \/ m = want \/ (want = "HEAD" /\ m = "GET")
    BY <2>1, <2>2 DEF serves
  <2>4. PICK k \in GoodRegs : Table[k].host = h /\ Table[k].method = m /\ Shape(Table[k].segs) = n
    BY <2>1, <2>2, <2>3 DEF Compiled, Holding
  <2>5. Table[k].segs \in SegLists
    BY TableFacts DEF Compiled
  <2>6. PathMatches(Table[k].segs, DecodePath(path))
    BY <2>1, <2>4, <2>5, TakesIsMatch
  <2> QED
    BY <2>3, <2>4, <2>6 DEF RoutesFor, Answers
<1>2. ASSUME NEW k \in RoutesFor(h, path, want), Shape(Table[k].segs) = n
      PROVE  n \in Takers(TrieAt(h), path, want)
  <2>1. /\ k \in GoodRegs /\ Table[k].host = h /\ PathMatches(Table[k].segs, DecodePath(path))
        /\ want = AnyMethod \/ Answers(k, want)
    BY DEF RoutesFor
  <2>2. Table[k].segs \in SegLists /\ k <= Len(regs)
    BY <2>1, TableFacts DEF Compiled
  <2>3. NodeTakes(n, path)
    BY <1>2, <2>1, <2>2, TakesIsMatch
  <2>4. h \in DOMAIN roots /\ TrieAt(h) = roots[h]
    BY <2>1, TrieFacts
  <2>5. n \in DOMAIN roots[h] /\ Table[k].method \in DOMAIN roots[h][n]
    BY <1>2, <2>1, <2>2 DEF Compiled, Holding
  <2>6. serves(TrieAt(h), n, want)
    BY <2>1, <2>4, <2>5 DEF serves, Answers
  <2> QED
    BY <2>3, <2>4, <2>5, <2>6 DEF Takers
<1> QED
  BY <1>1, <1>2

\* What walks find.
LEMMA LookupIs ==
    ASSUME Compiled, NEW h, NEW path \in Seq(Texts), NEW want
    PROVE  /\ NoVals \in Arrays(Len(path))
           /\ \A vals \in Arrays(Len(path)) :
                walkFrom(TrieAt(h), path, want, vals).found <=> RoutesFor(h, path, want) # {}
           /\ lookupPath(TrieAt(h), path, want) <=> RoutesFor(h, path, want) # {}
<1>1. NoVals \in Arrays(Len(path))
  <2>1. Len(path) \in Nat
    OBVIOUS
  <2>2. <<1, 0>> \in (1..Len(path) + 1) \X (0..Len(path))
    BY <2>1
  <2> QED
    BY <2>2 DEF NoVals, Arrays
<1>2. Takers(TrieAt(h), path, want) # {} <=> RoutesFor(h, path, want) # {}
  BY TakersAreRoutes
<1>3. \A vals \in Arrays(Len(path)) :
        walkFrom(TrieAt(h), path, want, vals).found <=> Takers(TrieAt(h), path, want) # {}
  BY TrieFacts, WalkExact
<1> QED
  BY <1>1, <1>2, <1>3 DEF lookupPath

\* What is collected.
LEMMA CollectIs ==
    ASSUME Compiled, NEW h, TrieAt(h) # EmptyTrie, NEW path \in Seq(Texts), NEW m
    PROVE  /\ m \in collectMethods(TrieAt(h), path) => m \in TableMethods \cup {"HEAD"}
           /\ m # AnyMethod => (m \in collectMethods(TrieAt(h), path) <=> RoutesFor(h, path, m) # {})
<1>1. IsTrie(TrieAt(h)) /\ h \in DOMAIN roots /\ TrieAt(h) = roots[h]
  BY TrieFacts
<1>2. ASSUME m \in collectMethods(TrieAt(h), path) PROVE m \in TableMethods \cup {"HEAD"}
  <2>1. PICK x \in Takers(TrieAt(h), path, AnyMethod) : m \in addMethods(TrieAt(h), x)
    BY <1>1, <1>2, CollectedBy
  <2>2. x \in DOMAIN roots[h] /\ (m = "HEAD" \/ m \in DOMAIN roots[h][x])
    BY <1>1, <2>1 DEF Takers, addMethods
  <2>3. CASE m \in DOMAIN roots[h][x]
    <3>1. PICK k \in GoodRegs : Table[k].method = m
      BY <1>1, <2>2, <2>3 DEF Compiled, Holding
    <3> QED
      BY <3>1 DEF TableMethods
  <2> QED
    BY <2>2, <2>3
<1>3. ASSUME m # AnyMethod
      PROVE  m \in collectMethods(TrieAt(h), path) <=> RoutesFor(h, path, m) # {}
  <2>1. m \in collectMethods(TrieAt(h), path) <=> Takers(TrieAt(h), path, m) # {}
    BY <1>1, <1>3, CollectExact
  <2>2. Takers(TrieAt(h), path, m) # {} <=> RoutesFor(h, path, m) # {}
    BY TakersAreRoutes
  <2> QED
    BY <2>1, <2>2
<1> QED
  BY <1>2, <1>3

\* A host is asked for by its name or as none, and has no routes in the second case.
LEMMA HostFacts ==
    ASSUME Compiled, NEW host
    PROVE  /\ hostRoot(host) \in {host, ""}
           /\ \A k \in GoodRegs : Table[k].host = host => hostRoot(host) = host
<1>1. \A k \in GoodRegs : Table[k].host = host => host \in DOMAIN roots
  BY TrieFacts
<1> QED
  BY <1>1 DEF hostRoot, hasHostRoutes

-----------------------------------------------------------------------------
(* What a request is answered, in terms of the routes. *)

\* The host whose routes answer in the end.
Owner(host, path, want) ==
    IF RoutesFor(hostRoot(host), path, want) # {} THEN hostRoot(host) ELSE ""

\* The redirect to the trailing-slash form is due.
Slashes(h, path, want) ==
    /\ RoutesFor(h, path, want) = {} /\ RedirectTrailingSlash /\ ~HasSlash(path)
    /\ RoutesFor(h, SlashForm(path), want) # {}

LEMMA WalkIs ==
    ASSUME Compiled, NEW host, NEW path \in Seq(Texts), NEW want,
           NEW w, w = Walk(host, path, want), NEW h, h = Owner(host, path, want)
    PROVE  /\ w.trie = TrieAt(h)
           /\ \E vals \in Arrays(Len(path)) : w.match = walkFrom(TrieAt(h), path, want, vals)
           /\ w.match.found <=> RoutesFor(h, path, want) # {}
<1> DEFINE g == hostRoot(host)
<1>1. PICK own : own = walkFrom(TrieAt(g), path, want, NoVals)
  OBVIOUS
<1>2. NoVals \in Arrays(Len(path)) /\ (own.found <=> RoutesFor(g, path, want) # {})
  BY <1>1, LookupIs
<1>3. own.vals \in Arrays(Len(path))
  BY <1>1, <1>2, TrieFacts, WalkExact
<1>4. CASE own.found \/ g = ""
  <2>1. w = [trie |-> TrieAt(g), match |-> own] /\ h = g
    BY <1>1, <1>2, <1>4 DEF Walk, Owner
  <2> QED
    BY <1>1, <1>2, <2>1
<1>5. CASE ~own.found /\ g # ""
  <2>1. h = ""
    BY <1>1, <1>2, <1>5 DEF Owner
  <2>2. w.trie = TrieAt(h) /\ w.match = walkFrom(TrieAt(h), path, want, own.vals)
    <3>1. PICK trie, match : trie = TrieAt(h) /\ match = walkFrom(trie, path, want, own.vals)
      OBVIOUS
    <3>2. w = [trie |-> trie, match |-> match]
      BY <1>1, <1>5, <2>1, <3>1 DEF Walk
    <3> QED
      BY <3>1, <3>2
  <2>3. walkFrom(TrieAt(h), path, want, own.vals).found <=> RoutesFor(h, path, want) # {}
    BY <1>3, LookupIs
  <2> QED
    BY <1>3, <2>2, <2>3
<1> QED
  BY <1>4, <1>5

LEMMA SlashFormType ==
    ASSUME NEW path \in Seq(Texts)
    PROVE  /\ SlashForm(path) \in Seq(Texts) /\ Len(SlashForm(path)) = Len(path) + 1
           /\ HasSlash(SlashForm(path)) /\ SlashForm(path)[Len(path) + 1] = ""
           /\ \A i \in 1..Len(path) : SlashForm(path)[i] = path[i]
<1>1. PICK e \in Texts : e = ""
  BY DEF Texts
<1>2. /\ Append(path, e) \in Seq(Texts) /\ Len(Append(path, e)) = Len(path) + 1
      /\ Append(path, e)[Len(path) + 1] = e
      /\ \A i \in 1..Len(path) : Append(path, e)[i] = path[i]
  OBVIOUS
<1> QED
  BY <1>1, <1>2 DEF SlashForm, HasSlash

\* What Route answers.
LEMMA RouteIs ==
    ASSUME Compiled, NEW req, NEW path \in Seq(Texts), NEW want,
           NEW h, h = Owner(req.host, path, want)
    PROVE  Route(req, path, want) =
             IF TrieAt(h) = EmptyTrie THEN NotFound
             ELSE IF Slashes(h, path, want)
             THEN RedirectTo(SlashForm(cleanPath(urlPath(req.path))))
             ELSE IF path # req.path THEN RedirectTo(path)
             ELSE IF RoutesFor(h, path, want) = {} THEN serveNoRoute(TrieAt(h), path)
             ELSE serveNode(TrieAt(h), Walk(req.host, path, want).match, path, want)
<1>1. PICK w : w = Walk(req.host, path, want)
  OBVIOUS
<1>2. w.trie = TrieAt(h) /\ (w.match.found <=> RoutesFor(h, path, want) # {})
  BY <1>1, WalkIs
<1>3. lookupPath(TrieAt(h), SlashForm(path), want) <=> RoutesFor(h, SlashForm(path), want) # {}
  BY SlashFormType, LookupIs
<1>4. /\ ~w.match.found /\ RedirectTrailingSlash /\ ~HasSlash(path)
      /\ lookupPath(w.trie, SlashForm(path), want)
      <=> Slashes(h, path, want)
  BY <1>2, <1>3 DEF Slashes
<1> QED
  BY <1>1, <1>2, <1>4 DEF Route

\* What a walk that found something serves.
LEMMA NodeServes ==
    ASSUME Compiled, NEW h, NEW path \in Seq(Texts), NEW want, NEW vals \in Arrays(Len(path)),
           NEW m, m = walkFrom(TrieAt(h), path, want, vals), m.found
    PROVE  \/ /\ want = AnyMethod
              /\ serveNode(TrieAt(h), m, path, want) = NotAllowed(allowValue(TrieAt(h), path))
           \/ /\ want # AnyMethod
              /\ \E k \in RoutesFor(h, path, want) :
                   /\ serveNode(TrieAt(h), m, path, want)
                        = serveEntry([route |-> k, mws |-> mws], m.vals, m.nv, path)
                   /\ \A l \in RoutesFor(h, path, want) :
                        \/ Shape(Table[l].segs) = Shape(Table[k].segs)
                        \/ Precedes(Shape(Table[k].segs), Shape(Table[l].segs))
                   /\ m.nv \in 0..MaxInlineParams
                   /\ Holds(Shape(Table[k].segs), m.vals, m.nv, Len(path))
<1>1. PICK trie : trie = TrieAt(h)
  OBVIOUS
<1>2. /\ m.node \in Takers(trie, path, want)
      /\ \A x \in Takers(trie, path, want) : x = m.node \/ Precedes(m.node, x)
      /\ m.nv \in 0..MaxInlineParams /\ Holds(m.node, m.vals, m.nv, Len(path))
  BY <1>1, TrieFacts, WalkExact
<1>3. m.node \in DOMAIN trie /\ serves(trie, m.node, want) /\ NodeTakes(m.node, path)
  BY <1>2 DEF Takers
<1>4. h \in DOMAIN roots /\ trie = roots[h]
  <2>1. DOMAIN EmptyTrie = {}
    BY DEF EmptyTrie
  <2> QED
    BY <1>1, <1>3, <2>1, TrieFacts
<1>5. PICK handlers : handlers = trie[m.node]
  OBVIOUS
<1>6. ASSUME NEW x \in DOMAIN handlers
      PROVE  \E k \in GoodRegs : /\ handlers[x] = [route |-> k, mws |-> mws]
                                 /\ Table[k].host = h /\ Table[k].method = x
                                 /\ Shape(Table[k].segs) = m.node /\ x # AnyMethod
  <2>1. PICK k \in GoodRegs : /\ roots[h][m.node][x] = [route |-> k, mws |-> mws]
                              /\ Table[k].host = h /\ Table[k].method = x
                              /\ Shape(Table[k].segs) = m.node
    BY <1>3, <1>4, <1>5, <1>6 DEF Compiled, Holding
  <2>2. Table[k].method # AnyMethod
    BY TableFacts DEF Compiled
  <2> QED
    BY <1>4, <1>5, <2>1, <2>2
<1>7. CASE want = AnyMethod
  <2>1. want \notin DOMAIN handlers /\ want # "HEAD"
    BY <1>6, <1>7 DEF AnyMethod
  <2> QED
    BY <1>1, <1>5, <1>7, <2>1 DEF serveNode
<1>8. CASE want # AnyMethod
  <2>1. want \in DOMAIN handlers \/ (want = "HEAD" /\ "GET" \in DOMAIN handlers)
    BY <1>3, <1>5, <1>8 DEF serves
  <2>2. PICK x \in DOMAIN handlers :
          /\ x = want \/ (want = "HEAD" /\ x = "GET")
          /\ serveNode(TrieAt(h), m, path, want) = serveEntry(handlers[x], m.vals, m.nv, path)
    BY <1>1, <1>5, <2>1 DEF serveNode
  <2>3. PICK k \in GoodRegs : /\ handlers[x] = [route |-> k, mws |-> mws]
                              /\ Table[k].host = h /\ Table[k].method = x
                              /\ Shape(Table[k].segs) = m.node
    BY <1>6
  <2>4. Table[k].segs \in SegLists
    BY TableFacts DEF Compiled
  <2>5. k \in RoutesFor(h, path, want)
    BY <1>3, <2>2, <2>3, <2>4, TakesIsMatch DEF RoutesFor, Answers
  <2>6. \A l \in RoutesFor(h, path, want) : Shape(Table[l].segs) \in Takers(trie, path, want)
    BY <1>1, TakersAreRoutes
  <2> QED
    BY <1>2, <1>8, <2>2, <2>3, <2>5, <2>6
<1> QED
  BY <1>7, <1>8

-----------------------------------------------------------------------------
(* Clean paths. *)

Dirt == {"", ".", ".."}

\* What path.Clean and the slash put back can give.
IsClean(p) ==
    /\ p \in Seq(Texts) /\ p # <<>>
    /\ \A i \in 1..Len(p) - 1 : p[i] \notin Dirt
    /\ p[Len(p)] \notin {".", ".."}

\* The loop of path.Clean is what its definition says.
LEMMA CleanLoopStep ==
    ASSUME NEW path, Len(path) \in Nat
    PROVE  /\ CleanLoop(path)[0] = <<>>
           /\ \A d \in 1..Len(path) : CleanLoop(path)[d] = CleanStep(CleanLoop(path)[d - 1], path[d])
<1>0. PICK n, start : n = Len(path) /\ start = <<>>
  OBVIOUS
<1> DEFINE Of(f, k) == [d \in 0..k |-> IF d = 0 THEN start
                                       ELSE CleanStep(f[d - 1], path[d])]
           S == {k \in 0..n : \E f : f = Of(f, k)}
<1>1. 0 \in S
  <2> DEFINE f == [d \in 0..0 |-> start]
  <2>1. f = Of(f, 0)
    OBVIOUS
  <2>2. \E m : m = Of(m, 0)
    <3> HIDE DEF f
    <3> QED
      BY <2>1
  <2> QED
    BY <1>0, <2>2
<1>2. ASSUME NEW k \in 1..n, k - 1 \in S PROVE k \in S
  <2>1. PICK f : f = Of(f, k - 1)
    BY <1>2
  <2> DEFINE e == [d \in 0..k |-> IF d = k THEN CleanStep(f[k - 1], path[k]) ELSE f[d]]
  <2>2. \A d \in 0..k - 1 : e[d] = f[d]
    OBVIOUS
  <2>3. ASSUME NEW d \in 0..k PROVE e[d] = Of(e, k)[d]
    <3>1. CASE d = k
      BY <2>2, <3>1
    <3>2. CASE d # k
      <4>1. e[d] = IF d = 0 THEN start ELSE CleanStep(f[d - 1], path[d])
        BY <2>1, <2>2, <3>2
      <4>2. d # 0 => e[d - 1] = f[d - 1]
        BY <2>2, <3>2
      <4> QED
        BY <4>1, <4>2
    <3> QED
      BY <3>1, <3>2
  <2>4. e = Of(e, k)
    BY <2>3
  <2>5. \E m : m = Of(m, k)
    <3> HIDE DEF e
    <3> QED
      BY <2>4
  <2> QED
    BY <2>5
<1>3. n \in S
  <2> HIDE DEF S
  <2>1. n \in Nat
    BY <1>0
  <2>2. 0..n \subseteq S
    BY <1>1, <1>2, <2>1, Reaches
  <2> QED
    BY <2>1, <2>2
<1>4. \E f : f = Of(f, n)
  BY <1>3
<1>5. CleanLoop(path) = Of(CleanLoop(path), n)
  BY <1>0, <1>4 DEF CleanLoop
<1>6. CleanLoop(path)[0] = start /\ \A d \in 1..n : CleanLoop(path)[d] = CleanStep(CleanLoop(path)[d - 1], path[d])
  <2>1. n \in Nat
    BY <1>0
  <2> QED
    BY <1>5, <2>1
<1> QED
  BY <1>0, <1>6

LEMMA Empty ==
    ASSUME NEW s \in Seq(Texts)
    PROVE  /\ Len(s) \in Nat /\ (s = <<>> <=> Len(s) = 0) /\ (s # <<>> <=> Len(s) >= 1)
           /\ <<>> \in Seq(Texts) /\ Len(<<>>) = 0
OBVIOUS

\* What the loop keeps is segments of the path, and none that it drops.
LEMMA KeptFacts ==
    ASSUME NEW path \in Seq(Texts), NEW kept, kept = CleanLoop(path)[Len(path)]
    PROVE  /\ kept \in Seq(Texts) /\ \A i \in 1..Len(kept) : kept[i] \notin Dirt
           /\ \A i \in 1..Len(kept) : \E j \in 1..Len(path) : kept[i] = path[j]
<1> DEFINE loop == CleanLoop(path)
           Own(s) == /\ s \in Seq(Texts)
                     /\ \A i \in 1..Len(s) : /\ s[i] \notin Dirt
                                             /\ \E j \in 1..Len(path) : s[i] = path[j]
           S == {d \in 0..Len(path) : Own(loop[d])}
<1>1. Len(path) \in Nat /\ \A d \in 1..Len(path) : path[d] \in Texts
  OBVIOUS
<1>2. loop[0] = <<>> /\ \A d \in 1..Len(path) : loop[d] = CleanStep(loop[d - 1], path[d])
  BY <1>1, CleanLoopStep
<1> HIDE DEF loop
<1>3. 0 \in S
  <2>1. Own(<<>>)
    OBVIOUS
  <2> HIDE DEF Own
  <2> QED
    BY <1>1, <1>2, <2>1
<1>4. ASSUME NEW d \in 1..Len(path), d - 1 \in S PROVE d \in S
  <2>1. PICK s, seg : s = loop[d - 1] /\ seg = path[d]
    OBVIOUS
  <2>2. /\ Own(s) /\ seg \in Texts /\ loop[d] = CleanStep(s, seg) /\ d \in 0..Len(path)
        /\ \E j \in 1..Len(path) : seg = path[j]
    BY <1>1, <1>2, <1>4, <2>1
  <2>3. CASE seg \in {"", "."}
    BY <2>2, <2>3 DEF CleanStep
  <2>4. CASE seg \notin {"", ".", ".."}
    <3>1. loop[d] = Append(s, seg)
      BY <2>2, <2>4 DEF CleanStep
    <3>2. /\ Append(s, seg) \in Seq(Texts) /\ Len(Append(s, seg)) = Len(s) + 1
          /\ Append(s, seg)[Len(s) + 1] = seg
          /\ \A i \in 1..Len(s) : Append(s, seg)[i] = s[i]
      BY <2>2
    <3>3. \A i \in 1..Len(s) + 1 : i \in 1..Len(s) \/ i = Len(s) + 1
      BY <2>2
    <3>4. Own(Append(s, seg))
      BY <2>2, <2>4, <3>2, <3>3 DEF Dirt
    <3> QED
      BY <2>2, <3>1, <3>4
  <2>5. CASE seg = ".." /\ s = <<>>
    <3>1. loop[d] = <<>>
      BY <2>2, <2>5 DEF CleanStep
    <3>2. Own(<<>>)
      OBVIOUS
    <3> QED
      BY <2>2, <3>1, <3>2
  <2>6. CASE seg = ".." /\ s # <<>>
    <3>1. loop[d] = SubSeq(s, 1, Len(s) - 1)
      BY <2>2, <2>6 DEF CleanStep, Front
    <3>2. Len(s) \in Nat /\ Len(s) >= 1
      BY <2>2, <2>6
    <3>3. PICK k \in 0..Len(s) : k = Len(s) - 1
      <4>1. Len(s) - 1 \in 0..Len(s)
        BY <3>2
      <4> QED
        BY <4>1
    <3>4. s \in Seq(Texts)
      BY <2>2
    <3>5. /\ SubSeq(s, 1, k) \in Seq(Texts) /\ Len(SubSeq(s, 1, k)) = k
          /\ \A i \in 1..k : SubSeq(s, 1, k)[i] = s[i] /\ i \in 1..Len(s)
      BY <3>2, <3>4
    <3>6. Own(SubSeq(s, 1, k))
      BY <2>2, <3>5
    <3> QED
      BY <2>2, <3>1, <3>3, <3>6
  <2> QED
    BY <2>3, <2>4, <2>5, <2>6
<1>5. Len(path) \in S
  <2> HIDE DEF S
  <2>1. 0..Len(path) \subseteq S
    BY <1>1, <1>3, <1>4, Reaches
  <2> QED
    BY <1>1, <2>1
<1> QED
  BY <1>5 DEF loop

\* It keeps what needs no cleaning.
LEMMA KeptPrefix ==
    ASSUME NEW path \in Seq(Texts), NEW k \in 0..Len(path), \A i \in 1..k : path[i] \notin Dirt
    PROVE  CleanLoop(path)[k] = SubSeq(path, 1, k)
<1> DEFINE loop == CleanLoop(path)
           Same(d) == /\ loop[d] \in Seq(Texts) /\ Len(loop[d]) = d
                      /\ \A i \in 1..d : loop[d][i] = path[i]
           S == {d \in 0..k : Same(d)}
<1>1. /\ Len(path) \in Nat /\ k \in Nat /\ k <= Len(path)
      /\ \A d \in 1..k : d \in 1..Len(path) /\ path[d] \in Texts
  OBVIOUS
<1>2. loop[0] = <<>> /\ \A d \in 1..k : loop[d] = CleanStep(loop[d - 1], path[d])
  BY <1>1, CleanLoopStep
<1> HIDE DEF loop
<1>3. 0 \in S
  <2>1. <<>> \in Seq(Texts) /\ Len(<<>>) = 0
    OBVIOUS
  <2>2. Same(0)
    BY <1>2, <2>1
  <2> HIDE DEF Same
  <2> QED
    BY <1>1, <2>2
<1>4. ASSUME NEW d \in 1..k, d - 1 \in S PROVE d \in S
  <2>1. PICK s, seg : s = loop[d - 1] /\ seg = path[d]
    OBVIOUS
  <2>2. /\ s \in Seq(Texts) /\ Len(s) = d - 1 /\ \A i \in 1..d - 1 : s[i] = path[i]
        /\ seg \in Texts /\ seg \notin Dirt /\ d \in 0..k /\ d \in Nat
        /\ loop[d] = CleanStep(s, seg)
    BY <1>1, <1>2, <1>4, <2>1
  <2>3. loop[d] = Append(s, seg)
    BY <2>2 DEF CleanStep, Dirt
  <2>4. /\ Append(s, seg) \in Seq(Texts) /\ Len(Append(s, seg)) = d
        /\ \A i \in 1..d : Append(s, seg)[i] = IF i = d THEN seg ELSE s[i]
    BY <2>2
  <2>5. \A i \in 1..d : i = d \/ i \in 1..d - 1
    BY <2>2
  <2>6. Same(d)
    BY <2>1, <2>2, <2>3, <2>4, <2>5
  <2> QED
    BY <2>2, <2>6
<1>5. Same(k)
  <2> HIDE DEF S
  <2>1. 0..k \subseteq S
    BY <1>1, <1>3, <1>4, Reaches
  <2>2. k \in S
    BY <1>1, <2>1
  <2> QED
    BY <2>2 DEF S
<1>6. /\ SubSeq(path, 1, k) \in Seq(Texts) /\ Len(SubSeq(path, 1, k)) = k
      /\ \A i \in 1..k : SubSeq(path, 1, k)[i] = path[i]
  BY <1>1
<1> QED
  BY <1>5, <1>6, SameSeq DEF loop

\* The segments of r are of the path, but for empty ones.
Within(r, path) == \A i \in 1..Len(r) : r[i] = "" \/ \E j \in 1..Len(path) : r[i] = path[j]

\* What is cleaned is clean, ends as the path did, and has no segment of its own
\* but the empty one.
LEMMA CleanIsClean ==
    ASSUME NEW path \in Seq(Texts), NEW r, r = pathClean(path)
    PROVE  /\ IsClean(r) /\ (path # <<>> /\ HasSlash(path) => HasSlash(r))
           /\ Within(r, path)
<1>1. PICK kept : kept = CleanLoop(path)[Len(path)]
  OBVIOUS
<1>2. /\ kept \in Seq(Texts) /\ \A i \in 1..Len(kept) : kept[i] \notin Dirt
      /\ \A i \in 1..Len(kept) : \E j \in 1..Len(path) : kept[i] = path[j]
  BY <1>1, KeptFacts
<1>3. CASE kept = <<>>
  <2>1. PICK e \in Texts : e = ""
    BY DEF Texts
  <2>2. r = <<e>>
    BY <1>1, <1>3, <2>1 DEF pathClean
  <2>3. r \in Seq(Texts) /\ Len(r) = 1 /\ r[1] = e
    BY <2>2
  <2>4. Len(r) = 1
    BY <2>3
  <2>5. /\ \A i \in 1..Len(r) : i = 1
        /\ \A i \in 1..Len(r) - 1 : FALSE
    BY <2>4
  <2>6. r # <<>>
    <3>1. r \in Seq(Texts)
      BY <2>3
    <3>2. Len(r) >= 1
      BY <2>4
    <3> QED
      BY <3>1, <3>2, Empty
  <2>7. r[1] = ""
    BY <2>1, <2>3
  <2> QED
    BY <2>3, <2>4, <2>5, <2>6, <2>7 DEF IsClean, HasSlash, Within
<1>4. CASE kept # <<>> /\ HasSlash(path)
  <2>1. r = SlashForm(kept)
    BY <1>1, <1>4 DEF pathClean
  <2>2. /\ r \in Seq(Texts) /\ Len(r) = Len(kept) + 1 /\ HasSlash(r) /\ r[Len(kept) + 1] = ""
        /\ \A i \in 1..Len(kept) : r[i] = kept[i]
    BY <1>2, <2>1, SlashFormType
  <2>3. Len(kept) \in Nat /\ r # <<>> /\ Len(r) - 1 = Len(kept)
    <3>1. Len(kept) \in Nat /\ Len(r) = Len(kept) + 1
      <4>1. kept \in Seq(Texts)
        BY <1>2
      <4>2. Len(kept) \in Nat
        BY <4>1
      <4> QED
        BY <2>2, <4>2
    <3>2. Len(r) >= 1 /\ Len(r) - 1 = Len(kept)
      BY <3>1
    <3> QED
      BY <2>2, <3>1, <3>2, Empty
  <2>4. IsClean(r)
    BY <1>2, <2>2, <2>3 DEF IsClean
  <2>5. \A i \in 1..Len(r) : i = Len(kept) + 1 \/ i \in 1..Len(kept)
    <3>1. Len(kept) \in Nat /\ Len(r) = Len(kept) + 1
      BY <2>2, <2>3
    <3> QED
      BY <3>1
  <2> QED
    BY <1>2, <2>2, <2>4, <2>5 DEF Within
<1>5. CASE kept # <<>> /\ ~HasSlash(path)
  <2>1. r = kept
    BY <1>1, <1>5 DEF pathClean
  <2>2. Len(kept) \in 1..Len(kept) /\ \A i \in 1..Len(kept) - 1 : i \in 1..Len(kept)
    BY <1>2, <1>5
  <2> QED
    BY <1>2, <1>5, <2>1, <2>2 DEF IsClean, Dirt, Within
<1> QED
  BY <1>3, <1>4, <1>5

\* What is clean stays as it is.
LEMMA CleanFixed ==
    ASSUME NEW p, IsClean(p)
    PROVE  pathClean(p) = p
<1> DEFINE n == Len(p)
           head == SubSeq(p, 1, n - 1)
<1>1. /\ p \in Seq(Texts) /\ n \in Nat /\ n >= 1 /\ p[n] \in Texts /\ p[n] \notin {".", ".."}
      /\ \A i \in 1..n - 1 : p[i] \notin Dirt
  BY DEF IsClean
<1>2. /\ head \in Seq(Texts) /\ Len(head) = n - 1 /\ \A i \in 1..n - 1 : head[i] = p[i]
  <2>1. PICK k \in 0..n : k = n - 1
    <3>1. n \in Nat /\ n >= 1
      BY <1>1
    <3>2. n - 1 \in 0..n
      BY <3>1
    <3> QED
      BY <3>2
  <2>2. /\ SubSeq(p, 1, k) \in Seq(Texts) /\ Len(SubSeq(p, 1, k)) = k
        /\ \A i \in 1..k : SubSeq(p, 1, k)[i] = p[i]
    BY <1>1
  <2> QED
    BY <2>1, <2>2
<1>3. CASE p[n] \notin Dirt
  <2>1. \A i \in 1..n : p[i] \notin Dirt
    <3>1. \A i \in 1..n : i = n \/ i \in 1..n - 1
      BY <1>1
    <3> QED
      BY <1>1, <1>3, <3>1
  <2>2. CleanLoop(p)[n] = SubSeq(p, 1, n)
    <3>1. n \in 0..n
      BY <1>1
    <3> QED
      BY <1>1, <2>1, <3>1, KeptPrefix
  <2>3. SubSeq(p, 1, n) = p
    <3>1. /\ SubSeq(p, 1, n) \in Seq(Texts) /\ Len(SubSeq(p, 1, n)) = n
          /\ \A i \in 1..n : SubSeq(p, 1, n)[i] = p[i]
      BY <1>1
    <3> QED
      BY <1>1, <3>1, SameSeq
  <2>4. p # <<>> /\ ~HasSlash(p)
    <3>1. p[n] # ""
      BY <1>3 DEF Dirt
    <3> QED
      BY <1>1, <3>1, Empty DEF HasSlash
  <2> QED
    BY <2>2, <2>3, <2>4 DEF pathClean
<1>4. CASE p[n] \in Dirt
  <2>1. p[n] = ""
    BY <1>1, <1>4 DEF Dirt
  <2>2. CleanLoop(p)[n] = CleanStep(CleanLoop(p)[n - 1], p[n])
    <3>1. n \in 1..n
      BY <1>1
    <3> QED
      BY <1>1, <3>1, CleanLoopStep
  <2>3. CleanLoop(p)[n - 1] = head
    <3>1. n - 1 \in 0..n
      BY <1>1
    <3> QED
      BY <1>1, <3>1, KeptPrefix
  <2>4. CleanLoop(p)[n] = head
    BY <2>1, <2>2, <2>3 DEF CleanStep
  <2>5. HasSlash(p)
    BY <2>1 DEF HasSlash
  <2>6. PICK e \in Texts : e = ""
    BY DEF Texts
  <2> HIDE DEF head
  <2>7. CASE n = 1
    <3>1. head = <<>>
      BY <1>2, <2>7
    <3>2. pathClean(p) = <<e>>
      BY <2>4, <2>6, <3>1 DEF pathClean
    <3>3. p = <<e>>
      <4>1. <<e>> \in Seq(Texts) /\ Len(<<e>>) = 1 /\ <<e>>[1] = e
        OBVIOUS
      <4>2. p[1] = e
        BY <2>1, <2>6, <2>7
      <4>3. \A i \in 1..Len(p) : i = 1
        BY <2>7
      <4>4. \A i \in 1..Len(p) : p[i] = <<e>>[i]
        BY <4>1, <4>2, <4>3
      <4> QED
        BY <1>1, <2>7, <4>1, <4>4, SameSeq
    <3> QED
      BY <3>2, <3>3
  <2>8. CASE n # 1
    <3>1. head # <<>>
      BY <1>1, <1>2, <2>8
    <3>2. pathClean(p) = Append(head, e)
      BY <2>4, <2>5, <2>6, <3>1 DEF pathClean, SlashForm
    <3>3. /\ Append(head, e) \in Seq(Texts) /\ Len(Append(head, e)) = n
          /\ \A i \in 1..n - 1 : Append(head, e)[i] = p[i]
          /\ Append(head, e)[n] = e
      BY <1>1, <1>2
    <3>4. \A i \in 1..n : i = n \/ i \in 1..n - 1
      BY <1>1
    <3>5. \A i \in 1..n : Append(head, e)[i] = p[i]
      BY <2>1, <2>6, <3>3, <3>4
    <3>6. Append(head, e) = p
      BY <1>1, <3>3, <3>5, SameSeq
    <3> QED
      BY <3>2, <3>6
  <2> QED
    BY <2>7, <2>8
<1> QED
  BY <1>3, <1>4

\* The scan for dirt (router.go:1026-1038) never skips a path that cleaning would
\* change: what the router goes by is the clean path.
THEOREM CleanedAlways ==
    ASSUME NEW path \in Seq(Texts)
    PROVE  cleanPath(path) = pathClean(path)
<1>1. CASE ~needsClean(path)
  <2>1. path # <<>> /\ Len(path) \in Nat /\ Len(path) >= 1 /\ DOMAIN path = 1..Len(path)
    <3>1. path # <<>>
      BY <1>1 DEF needsClean
    <3> QED
      BY <3>1, Empty
  <2>2. Len(path) \in DOMAIN path /\ \A i \in 1..Len(path) - 1 : i \in DOMAIN path
    BY <2>1
  <2>3. /\ \A i \in 1..Len(path) - 1 : path[i] # "" /\ path[i] \notin Dotted
        /\ path[Len(path)] \notin Dotted
    BY <1>1, <2>2 DEF needsClean
  <2>4. "." \in Dotted /\ ".." \in Dotted
    BY DEF Dotted
  <2>5. IsClean(path)
    BY <2>1, <2>3, <2>4 DEF IsClean, Dirt
  <2> QED
    BY <1>1, <2>5, CleanFixed DEF cleanPath
<1>2. CASE needsClean(path) /\ path # <<>>
  BY <1>2 DEF cleanPath
<1>3. CASE needsClean(path) /\ path = <<>>
  <2>1. CleanLoop(path)[Len(path)] = <<>>
    <3>1. Len(path) = 0 /\ 0 \in Nat
      BY <1>3
    <3> QED
      BY <3>1, CleanLoopStep
  <2> QED
    BY <1>3, <2>1 DEF cleanPath, pathClean
<1> QED
  BY <1>1, <1>2, <1>3

\* The trailing-slash form of a clean path is clean.
LEMMA SlashClean ==
    ASSUME NEW p, IsClean(p), ~HasSlash(p)
    PROVE  IsClean(SlashForm(p))
<1>1. p \in Seq(Texts) /\ Len(p) \in Nat /\ Len(p) >= 1
  BY DEF IsClean
<1>2. /\ SlashForm(p) \in Seq(Texts) /\ Len(SlashForm(p)) = Len(p) + 1
      /\ SlashForm(p)[Len(p) + 1] = "" /\ \A i \in 1..Len(p) : SlashForm(p)[i] = p[i]
  BY <1>1, SlashFormType
<1>3. \A i \in 1..Len(p) : i = Len(p) \/ i \in 1..Len(p) - 1
  BY <1>1
<1>4. \A i \in 1..Len(p) : p[i] \notin Dirt
  BY <1>3 DEF IsClean, Dirt, HasSlash
<1>5. SlashForm(p) # <<>> /\ Len(SlashForm(p)) - 1 = Len(p)
  <2>1. Len(SlashForm(p)) >= 1 /\ Len(SlashForm(p)) - 1 = Len(p)
    <3>1. Len(SlashForm(p)) = Len(p) + 1 /\ Len(p) \in Nat
      BY <1>1, <1>2
    <3> QED
      BY <3>1
  <2> QED
    BY <1>2, <2>1, Empty
<1> QED
  BY <1>2, <1>4, <1>5 DEF IsClean

-----------------------------------------------------------------------------
(* Targets of redirects. *)

Glue(a, b) == a \o b

\* FlattenSeq is what its definition says.
LEMMA FlattenStep ==
    ASSUME NEW seqs, NEW n \in Nat, n = Len(seqs), n >= 1
    PROVE  \E f : /\ FlattenSeq(seqs) = f[n] /\ f[1] = seqs[1]
                  /\ \A i \in 1..n : i # 1 => f[i] = f[i - 1] \o seqs[i]
<1>0. PICK first : first = seqs[1]
  OBVIOUS
<1> DEFINE Of(f, k) == [i \in 1..k |-> IF i = 1 THEN first ELSE Glue(f[i - 1], seqs[i])]
           Defined(f) == [i \in 1..n |-> IF i = 1 THEN seqs[i] ELSE f[i - 1] \o seqs[i]]
           S == {k \in 0..n : \E f : f = Of(f, k)}
           F == CHOOSE f : f = Defined(f)
<1>1. 0 \in S
  <2> DEFINE f == [i \in 1..0 |-> first]
  <2>1. f = Of(f, 0)
    OBVIOUS
  <2>2. \E m : m = Of(m, 0)
    <3> HIDE DEF f
    <3> QED
      BY <2>1
  <2>3. 0 \in 0..n
    OBVIOUS
  <2> HIDE DEF Of
  <2> QED
    BY <2>2, <2>3
<1>2. ASSUME NEW k \in 1..n, k - 1 \in S PROVE k \in S
  <2>1. PICK f : f = Of(f, k - 1)
    BY <1>2
  <2> DEFINE e == [i \in 1..k |-> IF i = k THEN (IF k = 1 THEN first ELSE Glue(f[k - 1], seqs[k]))
                                  ELSE f[i]]
  <2>2. \A i \in 1..k - 1 : e[i] = f[i]
    OBVIOUS
  <2>3. ASSUME NEW i \in 1..k PROVE e[i] = Of(e, k)[i]
    <3>1. CASE i = k
      <4>1. k # 1 => e[k - 1] = f[k - 1]
        BY <2>2
      <4>2. e[k] = IF k = 1 THEN first ELSE Glue(f[k - 1], seqs[k])
        OBVIOUS
      <4>3. Of(e, k)[k] = IF k = 1 THEN first ELSE Glue(e[k - 1], seqs[k])
        OBVIOUS
      <4> HIDE DEF e
      <4> QED
        BY <3>1, <4>1, <4>2, <4>3
    <3>2. CASE i # k
      <4>1. e[i] = IF i = 1 THEN first ELSE Glue(f[i - 1], seqs[i])
        BY <2>1, <2>2, <3>2
      <4>2. i # 1 => e[i - 1] = f[i - 1]
        BY <2>2, <3>2
      <4> QED
        BY <4>1, <4>2
    <3> QED
      BY <3>1, <3>2
  <2>4. e = Of(e, k)
    BY <2>3
  <2>5. \E m : m = Of(m, k)
    <3> HIDE DEF e
    <3> QED
      BY <2>4
  <2> QED
    BY <2>5
<1>3. \E f : f = Of(f, n)
  <2> HIDE DEF S
  <2>1. 0..n \subseteq S
    BY <1>1, <1>2, Reaches
  <2>2. n \in S
    BY <2>1
  <2> QED
    BY <2>2 DEF S
<1>4. \A f : Of(f, n) = Defined(f)
  BY <1>0 DEF Glue
<1>5. \E f : f = Defined(f)
  <2> HIDE DEF Of, Defined
  <2> QED
    BY <1>3, <1>4
<1>6. F = Defined(F)
  <2> HIDE DEF Defined
  <2> QED
    BY <1>5
<1>7. FlattenSeq(seqs) = F[n]
  BY DEF FlattenSeq
<1> HIDE DEF F
<1>8. F[1] = seqs[1] /\ \A i \in 1..n : i # 1 => F[i] = F[i - 1] \o seqs[i]
  <2>1. \A i \in 1..n : F[i] = IF i = 1 THEN seqs[i] ELSE F[i - 1] \o seqs[i]
    BY <1>6
  <2>2. 1 \in 1..n
    OBVIOUS
  <2> HIDE DEF Defined
  <2>3. F[1] = seqs[1]
    BY <2>1, <2>2
  <2>4. ASSUME NEW i \in 1..n, i # 1 PROVE F[i] = F[i - 1] \o seqs[i]
    BY <2>1, <2>4
  <2> QED
    BY <2>3, <2>4
<1> QED
  BY <1>7, <1>8

\* Flattening keeps the type, and undoes the making of segments of single texts.
LEMMA FlattenFacts ==
    ASSUME NEW seqs \in Seq(Seq(Texts))
    PROVE  /\ FlattenSeq(seqs) \in Seq(Texts)
           /\ \A path \in Seq(Texts) :
                Len(path) = Len(seqs) /\ (\A i \in 1..Len(seqs) : seqs[i] = <<path[i]>>)
                  => FlattenSeq(seqs) = path
<1>1. PICK n \in Nat : n = Len(seqs)
  OBVIOUS
<1>2. CASE n = 0
  <2>1. FlattenSeq(seqs) = seqs /\ seqs = <<>>
    <3>1. Len(seqs) = 0
      BY <1>1, <1>2
    <3>2. FlattenSeq(seqs) = seqs
      BY <3>1 DEF FlattenSeq
    <3> QED
      BY <3>1, <3>2
  <2>2. \A path \in Seq(Texts) : Len(path) = 0 => path = <<>>
    OBVIOUS
  <2> QED
    BY <1>1, <1>2, <2>1, <2>2
<1>3. CASE n >= 1
  <2>1. PICK f : /\ FlattenSeq(seqs) = f[n] /\ f[1] = seqs[1]
                 /\ \A i \in 1..n : i # 1 => f[i] = f[i - 1] \o seqs[i]
    BY <1>1, <1>3, FlattenStep
  <2>2. \A i \in 1..n : seqs[i] \in Seq(Texts)
    BY <1>1
  <2> DEFINE Fine(path, k) == /\ Len(f[k]) = k /\ \A j \in 1..k : f[k][j] = path[j]
             Plain(path) == Len(path) = n /\ \A i \in 1..n : seqs[i] = <<path[i]>>
             S == {k \in 0..n : k # 0 => /\ f[k] \in Seq(Texts)
                                         /\ \A path \in Seq(Texts) : Plain(path) => Fine(path, k)}
  <2>3. 0 \in S
    BY <1>1
  <2>4. ASSUME NEW k \in 1..n, k - 1 \in S PROVE k \in S
    <3>1. k \in 0..n /\ k \in Nat
      OBVIOUS
    <3>2. CASE k = 1
      <4>1. f[1] = seqs[1] /\ f[1] \in Seq(Texts)
        BY <2>1, <2>2, <3>2
      <4>2. ASSUME NEW path \in Seq(Texts), Plain(path) PROVE Fine(path, 1)
        <5>1. f[1] = <<path[1]>>
          BY <3>2, <4>1, <4>2
        <5>2. Len(f[1]) = 1 /\ f[1][1] = path[1]
          BY <5>1
        <5>3. \A j \in 1..1 : j = 1
          OBVIOUS
        <5> QED
          BY <5>2, <5>3
      <4> HIDE DEF Plain, Fine
      <4> QED
        BY <3>1, <3>2, <4>1, <4>2
    <3>3. CASE k # 1
      <4>1. PICK g : g = f[k - 1]
        OBVIOUS
      <4>2. g \in Seq(Texts) /\ \A path \in Seq(Texts) : Plain(path) => Fine(path, k - 1)
        BY <2>4, <3>3, <4>1
      <4>3. f[k] = g \o seqs[k] /\ seqs[k] \in Seq(Texts)
        BY <2>1, <2>2, <3>3, <4>1
      <4>4. f[k] \in Seq(Texts)
        BY <4>2, <4>3
      <4>5. ASSUME NEW path \in Seq(Texts), Plain(path) PROVE Fine(path, k)
        <5>1. Len(g) = k - 1 /\ \A j \in 1..k - 1 : g[j] = path[j]
          BY <4>1, <4>2, <4>5
        <5>2. PICK t : t = path[k]
          OBVIOUS
        <5>3. f[k] = g \o <<t>>
          BY <4>3, <4>5, <5>2
        <5>4. /\ Len(g \o <<t>>) = k /\ (g \o <<t>>)[k] = t
              /\ \A j \in 1..k - 1 : (g \o <<t>>)[j] = g[j]
          <6>1. g \o <<t>> = Append(g, t) /\ g \in Seq(Texts) /\ Len(g) + 1 = k
            BY <4>2, <5>1
          <6>2. /\ Len(Append(g, t)) = Len(g) + 1 /\ Append(g, t)[Len(g) + 1] = t
                /\ \A j \in 1..Len(g) : Append(g, t)[j] = g[j]
            BY <6>1
          <6> QED
            BY <5>1, <6>1, <6>2
        <5>5. \A j \in 1..k : j = k \/ j \in 1..k - 1
          BY <3>1
        <5> QED
          BY <5>1, <5>2, <5>3, <5>4, <5>5
      <4> HIDE DEF Plain, Fine
      <4> QED
        BY <3>1, <4>4, <4>5
    <3> QED
      BY <3>2, <3>3
  <2>5. f[n] \in Seq(Texts) /\ \A path \in Seq(Texts) : Plain(path) => Fine(path, n)
    <3> HIDE DEF S
    <3>1. 0..n \subseteq S
      BY <2>3, <2>4, Reaches
    <3>2. n \in S /\ n # 0
      BY <1>3, <3>1
    <3> QED
      BY <3>2 DEF S
  <2>6. ASSUME NEW path \in Seq(Texts), Plain(path) PROVE f[n] = path
    BY <2>5, <2>6, SameSeq
  <2> QED
    BY <1>1, <2>1, <2>5, <2>6
<1> QED
  BY <1>1, <1>2, <1>3

LEMMA UrlFacts ==
    ASSUME NEW path \in Seq(Texts)
    PROVE  /\ urlPath(path) \in Seq(Texts)
           /\ (\A i \in 1..Len(path) : path[i] \notin DOMAIN Decoded \cup DOMAIN Slashed)
                => urlPath(path) = path
<1> DEFINE Cut(t) == IF t \in DOMAIN Slashed THEN Slashed[t] ELSE <<t>>
           seqs == [i \in DOMAIN path |-> Cut(Decode(path[i]))]
<1>1. urlPath(path) = FlattenSeq(seqs)
  BY DEF urlPath
<1>2. \A t \in Texts : Cut(t) \in Seq(Texts)
  <2>1. \A t \in DOMAIN Slashed : Slashed[t] \in Seq(STRING)
    BY RouterAssumption
  <2>2. \A s \in Seq(STRING) : s \in Seq(Texts)
    <3>1. PICK Strings : Strings = STRING
      OBVIOUS
    <3>2. Strings \subseteq Texts
      BY <3>1 DEF Texts
    <3>3. \A s \in Seq(Strings) : s \in Seq(Texts)
      BY <3>2
    <3> QED
      BY <3>1, <3>3
  <2>3. \A t \in Texts : <<t>> \in Seq(Texts)
    OBVIOUS
  <2> QED
    BY <2>1, <2>2, <2>3
<1>3. DOMAIN path = 1..Len(path) /\ \A i \in 1..Len(path) : Decode(path[i]) \in Texts
  BY DecodeType
<1>4. seqs \in Seq(Seq(Texts)) /\ Len(seqs) = Len(path)
      /\ \A i \in 1..Len(path) : seqs[i] = Cut(Decode(path[i]))
  <2> HIDE DEF Cut
  <2>1. \A i \in 1..Len(path) : Cut(Decode(path[i])) \in Seq(Texts)
    BY <1>2, <1>3
  <2> QED
    BY <1>3, <2>1
<1>5. ASSUME \A i \in 1..Len(path) : path[i] \notin DOMAIN Decoded \cup DOMAIN Slashed
      PROVE  \A i \in 1..Len(path) : seqs[i] = <<path[i]>>
  <2>1. \A i \in 1..Len(path) : Decode(path[i]) = path[i]
    BY <1>5 DEF Decode
  <2>2. \A i \in 1..Len(path) : Cut(path[i]) = <<path[i]>>
    BY <1>5
  <2> HIDE DEF Cut, seqs
  <2> QED
    BY <1>4, <2>1, <2>2
<1> HIDE DEF seqs
<1> QED
  BY <1>1, <1>4, <1>5, FlattenFacts

NoEscapes(path) == \A i \in 1..Len(path) : path[i] = "" \/ path[i] \notin DOMAIN Escaped

\* Where a redirect sends: a clean path, with a trailing slash when its target has
\* one, and the clean form of a target without escapes.
LEMMA RedirectFacts ==
    ASSUME NEW path \in Seq(Texts), NEW r, r = RedirectTo(path)
    PROVE  /\ r.status = 307 /\ IsClean(r.location)
           /\ path # <<>> /\ HasSlash(path) => HasSlash(r.location)
           /\ NoEscapes(path) => r.location = pathClean(path)
<1> DEFINE At(t) == IF t \in DOMAIN Escaped THEN Escaped[t] ELSE t
           target == [i \in DOMAIN path |-> At(path[i])]
<1>1. r = [status |-> 307, location |-> pathClean(target)]
  BY DEF RedirectTo
<1>2. \A t \in Texts : At(t) \in Texts
  BY RouterAssumption DEF Texts
<1>3. \A t : t = "" => At(t) = t
  <2>1. ASSUME "" \in DOMAIN Escaped PROVE Escaped[""] = ""
    <3>1. Decode(Escaped[""]) = ""
      BY <2>1, RouterAssumption
    <3>2. \A seg \in DOMAIN Decoded : Decoded[seg] # ""
      BY TrieAssumption
    <3> QED
      BY <3>1, <3>2 DEF Decode
  <2> QED
    BY <2>1
<1>4. DOMAIN path = 1..Len(path) /\ Len(path) \in Nat
      /\ \A i \in 1..Len(path) : path[i] \in Texts
  OBVIOUS
<1> HIDE DEF At
<1>5. target \in Seq(Texts) /\ Len(target) = Len(path) /\ \A i \in 1..Len(path) : target[i] = At(path[i])
  <2>1. \A i \in 1..Len(path) : At(path[i]) \in Texts
    BY <1>2, <1>4
  <2> QED
    BY <1>4, <2>1
<1> HIDE DEF target
<1>6. r.status = 307 /\ r.location = pathClean(target)
  BY <1>1
<1>7. path # <<>> /\ HasSlash(path) => target # <<>> /\ HasSlash(target)
  <2> SUFFICES ASSUME path # <<>>, HasSlash(path) PROVE target # <<>> /\ HasSlash(target)
    OBVIOUS
  <2>1. Len(path) >= 1
    BY Empty
  <2>2. target # <<>>
    BY <1>5, <2>1, Empty
  <2>3. Len(path) \in 1..Len(path)
    BY <1>4, <2>1
  <2>4. target[Len(path)] = path[Len(path)]
    BY <1>3, <1>5, <2>3 DEF HasSlash
  <2> QED
    BY <1>5, <2>2, <2>4 DEF HasSlash
<1>8. ASSUME NoEscapes(path) PROVE target = path
  <2>1. \A i \in 1..Len(path) : At(path[i]) = path[i]
    BY <1>3, <1>8 DEF At, NoEscapes
  <2> QED
    BY <1>5, <2>1, SameSeq
<1>9. IsClean(r.location) /\ (target # <<>> /\ HasSlash(target) => HasSlash(r.location))
  <2>1. PICK loc : loc = pathClean(target)
    OBVIOUS
  <2>2. target \in Seq(Texts)
    BY <1>5
  <2>3. IsClean(loc) /\ (target # <<>> /\ HasSlash(target) => HasSlash(loc))
    BY <2>1, <2>2, CleanIsClean
  <2> QED
    BY <1>6, <2>1, <2>3
<1> QED
  BY <1>6, <1>7, <1>8, <1>9

-----------------------------------------------------------------------------
(* The values of wildcards. *)

\* Each count of wildcards is reached at one of them.
LEMMA WildsOnto ==
    ASSUME NEW n, NEW len \in Nat
    PROVE  \A i \in 1..Wilds(n, len) : \E j \in 1..len : Wild(n[j]) /\ Wilds(n, j) = i
<1> DEFINE S == {k \in 0..len : \A i \in 1..Wilds(n, k) :
                                  \E j \in 1..k : Wild(n[j]) /\ Wilds(n, j) = i}
<1>1. 0 \in S
  <2>1. Wilds(n, 0) = 0
    BY WildsStep
  <2> QED
    BY <2>1
<1>2. ASSUME NEW k \in 1..len, k - 1 \in S PROVE k \in S
  <2>1. k - 1 \in Nat /\ (k - 1) + 1 = k
    OBVIOUS
  <2>2. Wilds(n, k - 1) \in Nat /\ Wilds(n, k) = Wilds(n, k - 1) + (IF Wild(n[k]) THEN 1 ELSE 0)
    BY <2>1, WildsStep
  <2>3. ASSUME NEW i \in 1..Wilds(n, k) PROVE \E j \in 1..k : Wild(n[j]) /\ Wilds(n, j) = i
    <3>1. CASE i \in 1..Wilds(n, k - 1)
      BY <1>2, <3>1
    <3>2. CASE i \notin 1..Wilds(n, k - 1)
      BY <2>2, <3>2
    <3> QED
      BY <3>1, <3>2
  <2> QED
    BY <2>3
<1>3. len \in S
  <2> HIDE DEF S
  <2>1. 0..len \subseteq S
    BY <1>1, <1>2, Reaches
  <2> QED
    BY <2>1
<1> QED
  BY <1>3

\* The segments of a registration, one by one.
LEMMA SegmentsFacts ==
    ASSUME NEW reg \in Registration, NEW segs, segs = Segments(reg)
    PROVE  /\ Len(segs) = Len(reg.route) /\ Len(segs) \in Nat
           /\ \A l \in 1..Len(segs) :
                segs[l] = Multi("") \/ segs[l] = parseSegment(reg.route[l])
<1> DEFINE Raw == [form : {"text", "param", "star", "end", "bad"}, text : Texts]
<1>1. PICK r : r = reg.route /\ r \in Seq(Raw)
  BY DEF Registration
<1>2. PICK n \in Nat : n = Len(r)
  <2> HIDE DEF Raw
  <2> QED
    BY <1>1
<1> DEFINE At(i) == IF r[i] = [form |-> "text", text |-> ""] THEN Multi("")
                    ELSE parseSegment(r[i])
<1>3. segs = [i \in 1..n |-> At(i)]
  BY <1>1, <1>2 DEF Segments
<1>4. Len(segs) = n /\ \A l \in 1..n : segs[l] = At(l)
  <2> HIDE DEF At
  <2> QED
    BY <1>2, <1>3
<1>5. \A l \in 1..n : segs[l] = Multi("") \/ segs[l] = parseSegment(r[l])
  BY <1>4
<1> QED
  BY <1>1, <1>2, <1>4, <1>5

LEMMA InOrder == \A n \in Nat : \A a, b \in 1..n : a < b \/ b < a \/ a = b
OBVIOUS

\* parsePattern refuses a name used twice.
LEMMA DistinctNames ==
    ASSUME NEW reg \in Registration, ~PatternBad(reg), NEW segs, segs = Segments(reg),
           NEW i \in 1..Len(segs), NEW j \in 1..Len(segs),
           IsWild(segs[i]), IsWild(segs[j]), segs[i].text = segs[j].text, segs[i].text # ""
    PROVE  i = j
<1>1. Len(segs) = Len(reg.route) /\ Len(segs) \in Nat
      /\ \A l \in 1..Len(segs) : segs[l] = Multi("") \/ segs[l] = parseSegment(reg.route[l])
  BY SegmentsFacts
<1>2. \A a, b \in 1..Len(reg.route) :
        ~(/\ a < b /\ IsWild(parseSegment(reg.route[a])) /\ IsWild(parseSegment(reg.route[b]))
          /\ parseSegment(reg.route[a]).text = parseSegment(reg.route[b]).text)
  BY DEF PatternBad
<1>3. i \in 1..Len(reg.route) /\ j \in 1..Len(reg.route)
  BY <1>1, Zenon
<1>4. Multi("").text = ""
  BY DEF Multi
<1>5. segs[i] = parseSegment(reg.route[i]) /\ segs[j] = parseSegment(reg.route[j])
  BY <1>1, <1>4
<1>8. i < j \/ j < i \/ i = j
  BY InOrder, <1>1
<1> QED
  BY <1>2, <1>3, <1>5, <1>8

LEMMA OneLong ==
    ASSUME NEW s \in Seq(Texts), NEW j \in 1..Len(s)
    PROVE  SubSeq(s, j, j) = <<s[j]>>
<1>1. PICK one : one = SubSeq(s, j, j)
  OBVIOUS
<1>2. j \in Nat /\ s[j] \in Texts /\ one \in Seq(Texts) /\ Len(one) = 1 /\ one[1] = s[j]
  BY <1>1
<1>3. <<s[j]>> \in Seq(Texts) /\ Len(<<s[j]>>) = 1 /\ <<s[j]>>[1] = s[j]
  BY <1>2
<1>4. \A i \in 1..Len(one) : one[i] = <<s[j]>>[i]
  BY <1>2, <1>3
<1>5. one = <<s[j]>>
  BY <1>2, <1>3, <1>4, SameSeq
<1> QED
  BY <1>1, <1>5

\* What serveEntry binds is what the pattern's named wildcards stand for.
LEMMA BindingsAre ==
    ASSUME Compiled, ParamsFit, NEW k \in GoodRegs, NEW path \in Seq(Texts),
           PathMatches(Table[k].segs, DecodePath(path)), NEW vals, NEW nv, NEW num,
           Holds(Shape(Table[k].segs), vals, nv, Len(path))
    PROVE  serveEntry([route |-> k, mws |-> num], vals, nv, path).params
             = Bindings(Table[k].segs, DecodePath(path))
<1>1. PICK segs, names, node, D :
        segs = Table[k].segs /\ names = WildNames(segs) /\ node = Shape(segs) /\ D = DecodePath(path)
  OBVIOUS
<1>2. /\ segs \in SegLists /\ names = Table[k].names
      /\ Reg(k) \in Registration /\ ~PatternBad(Reg(k)) /\ segs = Segments(Reg(k))
      /\ regs[k] \in DOMAIN Registrations
  BY <1>1, TableFacts DEF Compiled
<1> DEFINE len == Len(segs)
           W(j) == Wilds(node, j)
<1>3. /\ len \in Nat /\ len >= 1 /\ DOMAIN segs = 1..len /\ Len(node) = len
      /\ \A j \in 1..len : /\ IsWild(segs[j]) <=> Wild(node[j])
                           /\ IsMulti(segs[j]) <=> node[j] = <<"multi">>
                           /\ segs[j].text \in Texts
  <2>1. DOMAIN segs = 1..len
    <3>1. PICK D1 : D1 = [kind : {"lit", "single", "multi"}, text : Texts]
      OBVIOUS
    <3>2. segs \in Seq(D1)
      BY <1>2, <3>1 DEF SegLists
    <3> QED
      BY <3>2
  <2> QED
    BY <1>1, <1>2, <2>1, ShapeFacts, RouteFacts
<1>4. /\ names \in Seq(Texts) /\ Len(names) = W(len)
      /\ \A j \in 1..len : IsWild(segs[j]) => names[W(j)] = segs[j].text
  BY <1>1, <1>2, NamesFacts
<1>5. W(len) \in Nat /\ MaxInlineParams \in Nat
      /\ \A j \in 1..len : W(j) \in Nat /\ W(j) <= W(len) /\ (IsWild(segs[j]) => W(j) >= 1)
  <2>1. ASSUME NEW j \in 1..len PROVE W(j) \in Nat /\ W(j) <= W(len)
    BY <1>3, WildsGrow
  <2>2. ASSUME NEW j \in 1..len, IsWild(segs[j]) PROVE W(j) >= 1
    <3>1. Wild(node[j]) /\ j \in Nat /\ 0 \in Nat /\ 0 < j
      BY <1>3, <2>2
    <3>2. Wilds(node, 0) < Wilds(node, j) /\ Wilds(node, j) \in Nat /\ Wilds(node, 0) = 0
      BY <3>1, WildsGrow, WildsStep
    <3> QED
      BY <3>2
  <2>3. W(len) \in Nat
    BY <1>3, <2>1
  <2> QED
    BY <2>1, <2>2, <2>3, TrieAssumption
<1>6. nv = IF W(len) < MaxInlineParams THEN W(len) ELSE MaxInlineParams
  BY <1>1, <1>3 DEF Holds
<1>7. \A j \in 1..len : IsWild(segs[j]) /\ W(j) <= MaxInlineParams
                          => vals[W(j)] = Place(node, j, Len(path))
  BY <1>1, <1>3 DEF Holds
<1>8. ASSUME NEW j \in 1..len, IsWild(segs[j]), segs[j].text # "" PROVE W(j) \in 1..nv
  <2>1. Cardinality({l \in 1..j : IsWild(segs[l])}) <= MaxInlineParams
    BY <1>2, <1>8 DEF ParamsFit, Reg
  <2>2. {l \in 1..j : IsWild(segs[l])} = {l \in 1..j : Wild(node[l])}
    BY <1>3
  <2>3. W(j) <= MaxInlineParams
    BY <2>1, <2>2 DEF Wilds
  <2>4. PICK w, total : w = W(j) /\ total = W(len)
    OBVIOUS
  <2>5. w \in Nat /\ total \in Nat /\ w >= 1 /\ w <= total /\ w <= MaxInlineParams
    BY <1>5, <1>8, <2>3, <2>4
  <2>6. nv = IF total < MaxInlineParams THEN total ELSE MaxInlineParams
    BY <1>6, <2>4
  <2>7. w \in 1..nv
    BY <1>5, <2>5, <2>6
  <2> QED
    BY <2>4, <2>7
<1>9. ASSUME NEW i \in 1..nv
      PROVE  \E j \in 1..len : IsWild(segs[j]) /\ W(j) = i /\ names[i] = segs[j].text
                               /\ vals[i] = Place(node, j, Len(path))
  <2>1. i \in 1..W(len) /\ i <= MaxInlineParams
    <3> HIDE DEF W
    <3> QED
      BY <1>5, <1>6
  <2>2. PICK j \in 1..len : Wild(node[j]) /\ Wilds(node, j) = i
    BY <1>3, <2>1, WildsOnto
  <2> QED
    BY <1>3, <1>4, <1>7, <2>1, <2>2
<1> HIDE DEF W
<1> DEFINE bound == {i \in 1..nv : names[i] # ""}
           of(x) == CHOOSE i \in bound : names[i] = x
           at(x) == CHOOSE j \in DOMAIN segs : IsWild(segs[j]) /\ segs[j].text = x
           Value(v) == SubSeq(D, v[1], v[2])
           got == [x \in {names[i] : i \in bound} |-> Value(vals[of(x)])]
           X == {segs[i].text : i \in {j \in DOMAIN segs : IsWild(segs[j])}} \ {""}
           V(x) == IF IsMulti(segs[at(x)]) THEN SubSeq(D, at(x), Len(D)) ELSE <<D[at(x)]>>
<1>10. serveEntry([route |-> k, mws |-> num], vals, nv, path).params = got
  <2>1. (IF nv <= Len(names) THEN nv ELSE Len(names)) = nv
    BY <1>4, <1>5, <1>6
  <2>2. serveEntry([route |-> k, mws |-> num], vals, nv, path).params
          = PathValues(names, vals, nv, path)
    BY <1>2, <2>1 DEF serveEntry
  <2>3. got = PathValues(names, vals, nv, path)
    BY <1>1 DEF PathValues
  <2> QED
    BY <2>2, <2>3
<1>11. Bindings(segs, D) = [x \in X |-> V(x)]
  BY DEF Bindings
<1>12. {names[i] : i \in bound} = X
  <2>1. ASSUME NEW i \in bound PROVE names[i] \in X
    BY <1>3, <1>9
  <2>2. ASSUME NEW x \in X PROVE \E i \in bound : names[i] = x
    <3>1. PICK j \in 1..len : IsWild(segs[j]) /\ segs[j].text = x /\ x # ""
      BY <1>3
    <3>2. W(j) \in 1..nv /\ names[W(j)] = x
      BY <1>4, <1>8, <3>1
    <3> QED
      BY <3>1, <3>2
  <2> HIDE DEF bound, X
  <2> QED
    BY <2>1, <2>2
<1> HIDE DEF X
<1>13. ASSUME NEW x \in X PROVE Value(vals[of(x)]) = V(x)
  <2>1. of(x) \in bound /\ names[of(x)] = x
    <3>1. \E i \in bound : names[i] = x
      BY <1>12
    <3> QED
      BY <3>1
  <2>2. PICK i : i = of(x)
    OBVIOUS
  <2> HIDE DEF of
  <2>3. i \in 1..nv /\ names[i] = x
    BY <2>1, <2>2
  <2>0. x # ""
    BY DEF X
  <2>4. PICK j \in 1..len : IsWild(segs[j]) /\ names[i] = segs[j].text
                            /\ vals[i] = Place(node, j, Len(path))
    BY <1>9, <2>3
  <2>5. at(x) \in 1..len /\ IsWild(segs[at(x)]) /\ segs[at(x)].text = x
    BY <1>3, <2>3, <2>4
  <2>6. PICK a : a = at(x)
    OBVIOUS
  <2> HIDE DEF at
  <2>7. a = j
    BY <1>2, <2>0, <2>3, <2>4, <2>5, <2>6, DistinctNames
  <2>8. D \in Seq(Texts) /\ Len(D) = Len(path) /\ Len(path) \in Nat /\ len <= Len(D)
    <3>1. D \in Seq(Texts) /\ Len(D) = Len(path)
      BY <1>1, DecodeFacts
    <3>2. PathMatches(segs, D)
      BY <1>1
    <3>3. Len(D) = Len(segs) \/ Len(D) > Len(segs)
      BY <1>2, <3>1, <3>2, MatchFacts
    <3>4. len \in Nat /\ Len(path) \in Nat
      BY <1>3
    <3> QED
      BY <3>1, <3>3, <3>4
  <2>9. CASE IsMulti(segs[j])
    <3>1. vals[i] = <<j, Len(D)>>
      BY <1>3, <2>4, <2>8, <2>9 DEF Place
    <3>2. Value(vals[i]) = SubSeq(D, j, Len(D))
      BY <3>1
    <3>3. V(x) = SubSeq(D, j, Len(D))
      BY <2>6, <2>7, <2>9
    <3> QED
      BY <2>2, <3>2, <3>3
  <2>10. CASE ~IsMulti(segs[j])
    <3>1. vals[i] = <<j, j>>
      BY <1>3, <2>4, <2>10 DEF Place
    <3>2. SubSeq(D, j, j) = <<D[j]>>
      BY <2>8, OneLong
    <3>3. Value(vals[i]) = SubSeq(D, j, j)
      BY <3>1
    <3>4. V(x) = <<D[j]>>
      BY <2>6, <2>7, <2>10
    <3> QED
      BY <2>2, <3>2, <3>3, <3>4
  <2> QED
    BY <2>9, <2>10
<1> HIDE DEF V, Value, of, bound
<1>14. got = [x \in X |-> V(x)]
  BY <1>12, <1>13
<1> QED
  BY <1>1, <1>10, <1>11, <1>14

-----------------------------------------------------------------------------
(* What Respond answers, status by status. *)

\* The path a request goes by: CONNECT's is not cleaned.
GoesBy(req) == IF req.method = "CONNECT" THEN req.path ELSE pathClean(req.path)

\* The request is neither about the server nor a CONNECT without a path.
Asks(req) ==
    /\ ~(req.method = "OPTIONS" /\ req.star)
    /\ ~(req.method = "CONNECT" /\ req.path = <<>>)

\* A handler of the host h ran for the path: the first one of its walk.
ServedBy(h, path, want, resp) ==
    \E k \in RoutesFor(h, path, want) : \E vals, nv :
        /\ resp = serveEntry([route |-> k, mws |-> mws], vals, nv, path)
        /\ \A l \in RoutesFor(h, path, want) :
             \/ Shape(Table[l].segs) = Shape(Table[k].segs)
             \/ Precedes(Shape(Table[k].segs), Shape(Table[l].segs))
        /\ Holds(Shape(Table[k].segs), vals, nv, Len(path))

\* No handler, and neither a redirect.
Refused(h, path, resp) ==
    \/ resp = NotAllowed(allowValue(TrieAt(h), path))
    \/ /\ resp = NotFound /\ RoutesFor(h, path, AnyMethod) = {}
       /\ RedirectTrailingSlash /\ ~HasSlash(path) => RoutesFor(h, SlashForm(path), AnyMethod) = {}

\* The response of a router that has a trie to ask.
Reply(req, path, want, h, resp) ==
    IF TrieAt(h) = EmptyTrie THEN resp = NotFound
    ELSE IF Slashes(h, path, want)
    THEN resp = RedirectTo(SlashForm(pathClean(urlPath(req.path))))
    ELSE IF path # req.path THEN resp = RedirectTo(path)
    ELSE IF RoutesFor(h, path, want) = {} THEN Refused(h, path, resp)
    ELSE IF want = AnyMethod THEN resp = NotAllowed(allowValue(TrieAt(h), path))
    ELSE ServedBy(h, path, want, resp)

LEMMA MethodFacts ==
    ASSUME Compiled, NEW m, NEW want, want = methodID(m)
    PROVE  /\ want # AnyMethod => want = m
           /\ m \in TableMethods \cup {"HEAD"} => want = m /\ want # AnyMethod
           /\ m = "CONNECT" => want = "CONNECT"
<1>1. \A k \in GoodRegs : Table[k].method # AnyMethod
  BY TableFacts DEF Compiled
<1>2. \A x \in TableMethods \cup {"HEAD"} : x # AnyMethod
  BY <1>1 DEF TableMethods, AnyMethod
<1> QED
  BY <1>2 DEF methodID, CommonMethods

LEMMA NoRouteIs ==
    ASSUME Compiled, NEW h, NEW path \in Seq(Texts), NEW resp,
           resp = serveNoRoute(TrieAt(h), path)
    PROVE  Refused(h, path, resp)
<1>1. lookupPath(TrieAt(h), path, AnyMethod) <=> RoutesFor(h, path, AnyMethod) # {}
  BY LookupIs
<1>2. lookupPath(TrieAt(h), SlashForm(path), AnyMethod)
        <=> RoutesFor(h, SlashForm(path), AnyMethod) # {}
  BY SlashFormType, LookupIs
<1> QED
  BY <1>1, <1>2 DEF serveNoRoute, Refused

\* Route goes by the path and the method it is given.
LEMMA RouteReplies ==
    ASSUME Compiled, NEW req, req.path \in Seq(Texts), NEW path \in Seq(Texts), NEW want,
           NEW h, h = Owner(req.host, path, want), NEW resp, resp = Route(req, path, want)
    PROVE  Reply(req, path, want, h, resp)
<1>1. urlPath(req.path) \in Seq(Texts)
  BY UrlFacts
<1>2. cleanPath(urlPath(req.path)) = pathClean(urlPath(req.path))
  BY <1>1, CleanedAlways
<1>3. PICK m : m = Walk(req.host, path, want).match
  OBVIOUS
<1>4. resp = IF TrieAt(h) = EmptyTrie THEN NotFound
             ELSE IF Slashes(h, path, want)
             THEN RedirectTo(SlashForm(pathClean(urlPath(req.path))))
             ELSE IF path # req.path THEN RedirectTo(path)
             ELSE IF RoutesFor(h, path, want) = {} THEN serveNoRoute(TrieAt(h), path)
             ELSE serveNode(TrieAt(h), m, path, want)
  BY <1>2, <1>3, RouteIs
<1>5. RoutesFor(h, path, want) = {} /\ resp = serveNoRoute(TrieAt(h), path) => Refused(h, path, resp)
  BY NoRouteIs
<1>6. ASSUME RoutesFor(h, path, want) # {}, resp = serveNode(TrieAt(h), m, path, want)
      PROVE  IF want = AnyMethod THEN resp = NotAllowed(allowValue(TrieAt(h), path))
             ELSE ServedBy(h, path, want, resp)
  <2>1. PICK w : w = Walk(req.host, path, want)
    OBVIOUS
  <2>2. m = w.match /\ m.found
    BY <1>3, <1>6, <2>1, WalkIs
  <2>3. PICK vals \in Arrays(Len(path)) : m = walkFrom(TrieAt(h), path, want, vals)
    BY <2>1, <2>2, WalkIs
  <2>4. \/ /\ want = AnyMethod
           /\ serveNode(TrieAt(h), m, path, want) = NotAllowed(allowValue(TrieAt(h), path))
        \/ /\ want # AnyMethod
           /\ \E k \in RoutesFor(h, path, want) :
                /\ serveNode(TrieAt(h), m, path, want)
                     = serveEntry([route |-> k, mws |-> mws], m.vals, m.nv, path)
                /\ \A l \in RoutesFor(h, path, want) :
                     \/ Shape(Table[l].segs) = Shape(Table[k].segs)
                     \/ Precedes(Shape(Table[k].segs), Shape(Table[l].segs))
                /\ m.nv \in 0..MaxInlineParams
                /\ Holds(Shape(Table[k].segs), m.vals, m.nv, Len(path))
    BY <2>2, <2>3, NodeServes
  <2>5. CASE want = AnyMethod
    BY <1>6, <2>4, <2>5
  <2>6. CASE want # AnyMethod
    <3>1. PICK k \in RoutesFor(h, path, want) :
             /\ resp = serveEntry([route |-> k, mws |-> mws], m.vals, m.nv, path)
             /\ \A l \in RoutesFor(h, path, want) :
                  \/ Shape(Table[l].segs) = Shape(Table[k].segs)
                  \/ Precedes(Shape(Table[k].segs), Shape(Table[l].segs))
             /\ Holds(Shape(Table[k].segs), m.vals, m.nv, Len(path))
      BY <1>6, <2>4, <2>6
    <3> QED
      BY <2>6, <3>1 DEF ServedBy
  <2> QED
    BY <2>5, <2>6
<1> QED
  BY <1>4, <1>5, <1>6 DEF Reply

\* ServeHTTP (router.go:665-755) in those terms: what the tries, the two walks,
\* the redirects and the methods collected come to, stated with the patterns and
\* their meaning alone.
THEOREM RespondIs ==
    ASSUME Compiled, built, NEW req, req.path \in Seq(Texts), NEW path, path = GoesBy(req),
           NEW want, want = methodID(req.method), NEW h, h = Owner(req.host, path, want),
           NEW resp, resp = Respond(req)
    PROVE  /\ path \in Seq(Texts) /\ (req.method # "CONNECT" => IsClean(path))
           /\ req.method = "CONNECT" => path = req.path
           /\ Asks(req) => path # <<>> /\ Reply(req, path, want, h, resp)
           /\ ~Asks(req) => \/ resp = NotFound /\ req.path = <<>>
                            \/ resp.status = 200 /\ resp.route = 0
<1>1. IsClean(pathClean(req.path))
  BY CleanIsClean
<1>2. path \in Seq(Texts) /\ (req.method # "CONNECT" => IsClean(path))
      /\ (req.method = "CONNECT" => path = req.path)
  BY <1>1 DEF GoesBy, IsClean
<1>3. ASSUME Asks(req)
      PROVE  path # <<>> /\ Reply(req, path, want, h, resp)
  <2>1. path # <<>>
    BY <1>2, <1>3 DEF Asks, IsClean
  <2>2. cleanPath(req.path) = pathClean(req.path)
    BY CleanedAlways
  <2>3. want = "CONNECT" \/ req.method # "CONNECT"
    BY MethodFacts
  <2>4. resp = Route(req, path, want)
    BY <1>3, <2>1, <2>2, <2>3 DEF Respond, Asks, GoesBy
  <2>5. Reply(req, path, want, h, resp)
    BY <1>2, <2>4, RouteReplies
  <2> QED
    BY <2>1, <2>5
<1>4. ASSUME ~Asks(req)
      PROVE  (resp = NotFound /\ req.path = <<>>) \/ (resp.status = 200 /\ resp.route = 0)
  <2>1. CASE req.method = "OPTIONS" /\ req.star
    BY <2>1 DEF Respond
  <2>2. CASE req.method = "CONNECT" /\ req.path = <<>>
    <3>1. req.method # "OPTIONS"
      BY <2>2
    <3>2. resp = NotFound
      BY <2>2, <3>1 DEF Respond
    <3> QED
      BY <2>2, <3>2
  <2> QED
    BY <1>4, <2>1, <2>2 DEF Asks
<1> QED
  BY <1>2, <1>3, <1>4

LEMMA AsksReply ==
    ASSUME Compiled, built, NEW req, req.path \in Seq(Texts), NEW path, path = GoesBy(req),
           NEW want, want = methodID(req.method), NEW h, h = Owner(req.host, path, want),
           NEW resp, resp = Respond(req), Asks(req)
    PROVE  Reply(req, path, want, h, resp)
BY RespondIs

\* What each status says of a response.
Verdict(req, path, want, h, resp) ==
    /\ resp.status \in {200, 307, 404, 405}
    /\ resp.status = 200 => \/ resp.route = 0
                            \/ /\ path = req.path /\ want # AnyMethod /\ want = req.method
                               /\ ServedBy(h, path, want, resp)
    /\ resp.status = 307 =>
         /\ Asks(req) /\ TrieAt(h) # EmptyTrie
         /\ \/ /\ Slashes(h, path, want)
               /\ resp = RedirectTo(SlashForm(pathClean(urlPath(req.path))))
            \/ /\ ~Slashes(h, path, want) /\ path # req.path
               /\ resp = RedirectTo(path)
    /\ resp.status = 405 => /\ Asks(req) /\ TrieAt(h) # EmptyTrie /\ path = req.path
                            /\ resp.allow = allowValue(TrieAt(h), path)
    /\ resp.status = 404 =>
         \/ ~Asks(req) /\ req.path = <<>>
         \/ TrieAt(h) = EmptyTrie
         \/ /\ path = req.path /\ RoutesFor(h, path, AnyMethod) = {}
            /\ RedirectTrailingSlash /\ ~HasSlash(path)
                 => RoutesFor(h, SlashForm(path), AnyMethod) = {}
    /\ Asks(req) /\ TrieAt(h) # EmptyTrie /\ want # AnyMethod /\ path = req.path =>
         (resp.status \in {200, 307} <=> Slashes(h, path, want) \/ RoutesFor(h, path, want) # {})

LEMMA StatusSays ==
    ASSUME Compiled, built, NEW req, req.path \in Seq(Texts), NEW path, path = GoesBy(req),
           NEW want, want = methodID(req.method), NEW h, h = Owner(req.host, path, want),
           NEW resp, resp = Respond(req)
    PROVE  Verdict(req, path, want, h, resp)
<1>1. /\ path \in Seq(Texts)
      /\ Asks(req) => Reply(req, path, want, h, resp)
      /\ ~Asks(req) => \/ resp = NotFound /\ req.path = <<>>
                       \/ resp.status = 200 /\ resp.route = 0
  BY RespondIs
<1>2. NotFound.status = 404 /\ (\A a : NotAllowed(a).status = 405 /\ NotAllowed(a).allow = a)
  BY DEF NotFound, NotAllowed
<1>3. \A p : RedirectTo(p).status = 307
  BY DEF RedirectTo
<1>4. ServedBy(h, path, want, resp) => resp.status = 200
  BY DEF ServedBy, serveEntry
<1>5. want # AnyMethod => want = req.method
  BY MethodFacts
<1>6. Refused(h, path, resp) => resp.status \in {404, 405}
  BY <1>2 DEF Refused
<1>7. CASE ~Asks(req)
  BY <1>1, <1>2, <1>7 DEF Verdict
<1>8. CASE Asks(req) /\ TrieAt(h) = EmptyTrie
  BY <1>1, <1>2, <1>8 DEF Reply, Verdict
<1>9. CASE Asks(req) /\ TrieAt(h) # EmptyTrie /\ Slashes(h, path, want)
  BY <1>1, <1>2, <1>3, <1>9 DEF Reply, Verdict
<1>10. CASE Asks(req) /\ TrieAt(h) # EmptyTrie /\ ~Slashes(h, path, want) /\ path # req.path
  BY <1>1, <1>2, <1>3, <1>10 DEF Reply, Verdict
<1>11. CASE Asks(req) /\ TrieAt(h) # EmptyTrie /\ ~Slashes(h, path, want) /\ path = req.path
            /\ RoutesFor(h, path, want) = {}
  <2>1. Refused(h, path, resp)
    BY <1>1, <1>11 DEF Reply
  <2> QED
    BY <1>2, <1>6, <1>11, <2>1 DEF Refused, Verdict
<1>12. CASE Asks(req) /\ TrieAt(h) # EmptyTrie /\ ~Slashes(h, path, want) /\ path = req.path
            /\ RoutesFor(h, path, want) # {}
  <2>1. IF want = AnyMethod THEN resp = NotAllowed(allowValue(TrieAt(h), path))
        ELSE ServedBy(h, path, want, resp)
    BY <1>1, <1>12 DEF Reply
  <2> QED
    BY <1>2, <1>4, <1>5, <1>12, <2>1 DEF Verdict
<1> QED
  BY <1>7, <1>8, <1>9, <1>10, <1>11, <1>12

-----------------------------------------------------------------------------
(* The served route, its values, and the refusals. *)

\* Paths has a path for every way two patterns may differ or meet.
PathsSuffice ==
    /\ Paths \subseteq Seq(Texts)
    /\ \A i, j \in DOMAIN Registrations :
         ~PatternBad(Registrations[i]) /\ ~PatternBad(Registrations[j]) =>
           LET p == Segments(Registrations[i])
               q == Segments(Registrations[j])
           IN  /\ PathsOf(p) \cap PathsOf(q) # {}
                    => \E path \in Paths : PathMatches(p, path) /\ PathMatches(q, path)
               /\ ~(PathsOf(p) \subseteq PathsOf(q))
                    => \E path \in Paths : PathMatches(p, path) /\ ~PathMatches(q, path)

\* Which can be decided for any table and any finite Paths.
LEMMA ToldApart == PathsTellApart => PathsSuffice
<1> SUFFICES ASSUME PathsTellApart PROVE PathsSuffice
  OBVIOUS
<1>1. Paths \subseteq Seq(Texts)
  <2>1. PICK Strings : Strings = STRING
    OBVIOUS
  <2>2. Strings \subseteq Texts /\ Paths \subseteq Seq(Strings)
    BY <2>1 DEF Texts, PathsTellApart
  <2>3. \A path \in Seq(Strings) : path \in Seq(Texts)
    BY <2>2
  <2> QED
    BY <2>2, <2>3
<1>2. ASSUME NEW i \in DOMAIN Registrations, NEW j \in DOMAIN Registrations,
             ~PatternBad(Registrations[i]), ~PatternBad(Registrations[j]),
             NEW p, p = Segments(Registrations[i]), NEW q, q = Segments(Registrations[j])
      PROVE  /\ PathsOf(p) \cap PathsOf(q) # {}
                  => \E path \in Paths : PathMatches(p, path) /\ PathMatches(q, path)
             /\ ~(PathsOf(p) \subseteq PathsOf(q))
                  => \E path \in Paths : PathMatches(p, path) /\ ~PathMatches(q, path)
  <2>1. Parsed[i].segs = p /\ Parsed[j].segs = q
    BY <1>2 DEF Parsed, parsePattern
  <2>2. /\ Meanings[i] = {path \in Paths : PathMatches(p, path)}
        /\ Meanings[j] = {path \in Paths : PathMatches(q, path)}
    BY <1>2, <2>1 DEF Meanings
  <2>3. p \in SegLists /\ q \in SegLists
    BY <1>2, RegistrationFacts, ParsedIsRoute
  <2>4. PICK rel : rel = comparePaths(p, q)
    OBVIOUS
  <2>5. /\ rel \in Relations
        /\ rel = "disjoint" => PathsOf(p) \cap PathsOf(q) = {}
        /\ rel = "equivalent" => PathsOf(p) = PathsOf(q)
        /\ rel = "moreSpecific" => PathsOf(p) \subseteq PathsOf(q)
    BY <2>3, <2>4, RelationTrue
  <2>6. /\ rel # "disjoint" => Meanings[i] \cap Meanings[j] # {}
        /\ rel \notin {"equivalent", "moreSpecific"} => ~(Meanings[i] \subseteq Meanings[j])
    BY <1>2, <2>1, <2>4 DEF PathsTellApart
  <2>7. PathsOf(p) \cap PathsOf(q) # {} => Meanings[i] \cap Meanings[j] # {}
    BY <2>5, <2>6
  <2>8. ~(PathsOf(p) \subseteq PathsOf(q)) => ~(Meanings[i] \subseteq Meanings[j])
    BY <2>5, <2>6
  <2> QED
    BY <2>2, <2>7, <2>8
<1> QED
  BY <1>1, <1>2 DEF PathsSuffice

\* Under it, the paths of Paths stand for all.
LEMMA MeaningFacts ==
    ASSUME RegsOK, PathsSuffice, NEW k \in GoodRegs, NEW l \in GoodRegs
    PROVE  /\ Meaning(k) \subseteq Meaning(l) <=> PathsOf(Table[k].segs) \subseteq PathsOf(Table[l].segs)
           /\ Meaning(k) \cap Meaning(l) # {} <=> PathsOf(Table[k].segs) \cap PathsOf(Table[l].segs) # {}
           /\ Meaning(k) = Meaning(l) <=> PathsOf(Table[k].segs) = PathsOf(Table[l].segs)
<1>1. PICK p, q : p = Table[k].segs /\ q = Table[l].segs
  OBVIOUS
<1>2. \A j \in GoodRegs : Meaning(j) = {path \in Paths : PathMatches(Table[j].segs, path)}
  <2> TAKE j \in GoodRegs
  <2>1. regs[j] \in DOMAIN Registrations /\ ~PatternBad(Reg(j))
    BY TableFacts
  <2>2. Parsed[regs[j]].segs = Table[j].segs
    BY <2>1 DEF Parsed, Table
  <2> QED
    BY <2>1, <2>2 DEF Meaning, Meanings, Reg
<1>3. Meaning(k) = {path \in Paths : PathMatches(p, path)}
      /\ Meaning(l) = {path \in Paths : PathMatches(q, path)}
  BY <1>1, <1>2
<1>4. /\ regs[k] \in DOMAIN Registrations /\ ~PatternBad(Registrations[regs[k]])
      /\ regs[l] \in DOMAIN Registrations /\ ~PatternBad(Registrations[regs[l]])
      /\ p = Segments(Registrations[regs[k]]) /\ q = Segments(Registrations[regs[l]])
  BY <1>1, TableFacts DEF Reg
<1>5. Paths \subseteq Seq(Texts)
  BY DEF PathsSuffice
<1>6. PathsOf(p) \cap PathsOf(q) # {}
        => \E path \in Paths : PathMatches(p, path) /\ PathMatches(q, path)
  BY <1>4 DEF PathsSuffice
<1>7. ~(PathsOf(p) \subseteq PathsOf(q))
        => \E path \in Paths : PathMatches(p, path) /\ ~PathMatches(q, path)
  BY <1>4 DEF PathsSuffice
<1>8. ~(PathsOf(q) \subseteq PathsOf(p))
        => \E path \in Paths : PathMatches(q, path) /\ ~PathMatches(p, path)
  BY <1>4 DEF PathsSuffice
<1>9. \A path \in Paths : /\ path \in PathsOf(p) <=> PathMatches(p, path)
                          /\ path \in PathsOf(q) <=> PathMatches(q, path)
  BY <1>5 DEF PathsOf
<1>10. Meaning(k) \subseteq Meaning(l) <=> PathsOf(p) \subseteq PathsOf(q)
  BY <1>3, <1>7, <1>9
<1>11. Meaning(l) \subseteq Meaning(k) <=> PathsOf(q) \subseteq PathsOf(p)
  BY <1>3, <1>8, <1>9
<1>12. Meaning(k) \cap Meaning(l) # {} <=> PathsOf(p) \cap PathsOf(q) # {}
  BY <1>3, <1>6, <1>9
<1> QED
  BY <1>1, <1>10, <1>11, <1>12

\* Of what the host may use for the path, the route asks for no better one.
Best(k, host, path, want) ==
    /\ k \in Reachable(host, path) /\ Answers(k, want)
    /\ \A l \in Reachable(host, path) :
         /\ Table[l].method = Table[k].method /\ Table[l].host = Table[k].host
              => ~StrictlyWithin(l, k)
         /\ Table[k].host = "" /\ Answers(l, want) => Table[l].host = ""

\* A handler that ran is that of the most specific route.
LEMMA ServedIsMostSpecific ==
    ASSUME Compiled, PathsSuffice, NEW host, NEW path \in Seq(Texts), NEW want, want # AnyMethod,
           NEW h, h = Owner(host, path, want), NEW resp, ServedBy(h, path, want, resp),
           NEW k, k = resp.route
    PROVE  Best(k, host, path, want)
<1>1. /\ k \in RoutesFor(h, path, want)
      /\ \A l \in RoutesFor(h, path, want) :
           \/ Shape(Table[l].segs) = Shape(Table[k].segs)
           \/ Precedes(Shape(Table[k].segs), Shape(Table[l].segs))
  <2>1. PICK r \in RoutesFor(h, path, want) : \E vals, nv :
          /\ resp = serveEntry([route |-> r, mws |-> mws], vals, nv, path)
          /\ \A l \in RoutesFor(h, path, want) :
               \/ Shape(Table[l].segs) = Shape(Table[r].segs)
               \/ Precedes(Shape(Table[r].segs), Shape(Table[l].segs))
    BY DEF ServedBy
  <2>2. resp.route = r
    BY <2>1 DEF serveEntry
  <2> QED
    BY <2>1, <2>2
<1>2. h \in {hostRoot(host), ""} /\ hostRoot(host) \in {host, ""}
  BY HostFacts DEF Owner
<1>3. /\ k \in GoodRegs /\ Table[k].host = h /\ PathMatches(Table[k].segs, DecodePath(path))
      /\ Answers(k, want)
  BY <1>1 DEF RoutesFor
<1>4. k \in Reachable(host, path)
  BY <1>2, <1>3 DEF Reachable
<1>5. ASSUME NEW l \in Reachable(host, path),
             Table[l].method = Table[k].method, Table[l].host = Table[k].host
      PROVE  ~StrictlyWithin(l, k)
  <2>1. l \in GoodRegs /\ PathMatches(Table[l].segs, DecodePath(path))
    BY DEF Reachable
  <2>2. Answers(l, want)
    BY <1>3, <1>5 DEF Answers
  <2>3. l \in RoutesFor(h, path, want)
    BY <1>3, <1>5, <2>1, <2>2 DEF RoutesFor
  <2>4. Table[k].segs \in SegLists /\ Table[l].segs \in SegLists /\ RegsOK
    BY <1>3, <2>1, TableFacts DEF Compiled
  <2>5. CASE Shape(Table[l].segs) = Shape(Table[k].segs)
    <3>1. PathsOf(Table[l].segs) = PathsOf(Table[k].segs)
      BY <2>4, <2>5, SameShape
    <3> QED
      BY <1>3, <2>1, <2>4, <3>1, MeaningFacts DEF StrictlyWithin
  <2>6. CASE Precedes(Shape(Table[k].segs), Shape(Table[l].segs))
    <3>1. DecodePath(path) \in Seq(Texts)
      BY DecodeFacts
    <3>2. PICK w \in Seq(Texts) : PathMatches(Table[l].segs, w) /\ ~PathMatches(Table[k].segs, w)
      BY <1>3, <2>1, <2>4, <2>6, <3>1, FirstIsNarrow
    <3>3. ~(PathsOf(Table[l].segs) \subseteq PathsOf(Table[k].segs))
      BY <3>2 DEF PathsOf
    <3> QED
      BY <1>3, <2>1, <2>4, <3>3, MeaningFacts DEF StrictlyWithin
  <2> QED
    BY <1>1, <2>3, <2>5, <2>6
<1>6. ASSUME NEW l \in Reachable(host, path), Table[k].host = "", Answers(l, want)
      PROVE  Table[l].host = ""
  <2> SUFFICES ASSUME Table[l].host # "" PROVE FALSE
    OBVIOUS
  <2>1. l \in GoodRegs /\ PathMatches(Table[l].segs, DecodePath(path)) /\ Table[l].host = host
    BY DEF Reachable
  <2>2. hostRoot(host) = host
    BY <2>1, HostFacts
  <2>3. l \in RoutesFor(hostRoot(host), path, want)
    BY <1>6, <2>1, <2>2 DEF RoutesFor
  <2>4. h = host
    BY <2>2, <2>3 DEF Owner
  <2> QED
    BY <1>3, <1>6, <2>1, <2>4
<1> QED
  BY <1>3, <1>4, <1>5, <1>6 DEF Best

\* And its values are its own.
LEMMA ServedBinds ==
    ASSUME Compiled, ParamsFit, NEW h, NEW path \in Seq(Texts), NEW want, NEW resp,
           ServedBy(h, path, want, resp)
    PROVE  resp.params = Bindings(Table[resp.route].segs, DecodePath(path))
<1>1. PICK k \in RoutesFor(h, path, want) : \E vals, nv :
        /\ resp = serveEntry([route |-> k, mws |-> mws], vals, nv, path)
        /\ Holds(Shape(Table[k].segs), vals, nv, Len(path))
  BY DEF ServedBy
<1>2. PICK vals, nv : /\ resp = serveEntry([route |-> k, mws |-> mws], vals, nv, path)
                      /\ Holds(Shape(Table[k].segs), vals, nv, Len(path))
  BY <1>1
<1>3. k \in GoodRegs /\ PathMatches(Table[k].segs, DecodePath(path))
  BY DEF RoutesFor
<1>4. resp.route = k
  BY <1>2 DEF serveEntry
<1> QED
  BY <1>2, <1>3, <1>4, BindingsAre

\* The methods a 405 lists: those the path or its slash form is routed for.
LEMMA AllowIs ==
    ASSUME Compiled, NEW h, TrieAt(h) # EmptyTrie, NEW path \in Seq(Texts), NEW m
    PROVE  /\ m \in allowValue(TrieAt(h), path) => m \in TableMethods \cup {"HEAD"}
           /\ m # AnyMethod =>
                (m \in allowValue(TrieAt(h), path)
                   <=> \/ RoutesFor(h, path, m) # {}
                       \/ ~HasSlash(path) /\ RoutesFor(h, SlashForm(path), m) # {})
<1>1. SlashForm(path) \in Seq(Texts)
  BY SlashFormType
<1>2. /\ m \in collectMethods(TrieAt(h), path) => m \in TableMethods \cup {"HEAD"}
      /\ m # AnyMethod => (m \in collectMethods(TrieAt(h), path) <=> RoutesFor(h, path, m) # {})
  BY CollectIs
<1>3. /\ m \in collectMethods(TrieAt(h), SlashForm(path)) => m \in TableMethods \cup {"HEAD"}
      /\ m # AnyMethod => (m \in collectMethods(TrieAt(h), SlashForm(path))
                             <=> RoutesFor(h, SlashForm(path), m) # {})
  BY <1>1, CollectIs
<1> QED
  BY <1>2, <1>3 DEF allowValue

LEMMA RawFacts ==
    ASSUME NEW reg \in Registration
    PROVE  \A i \in 1..Len(reg.route) :
             reg.route[i].form \in {"text", "param", "star", "end", "bad"}
<1> DEFINE Raw == [form : {"text", "param", "star", "end", "bad"}, text : Texts]
<1>1. PICK r : r = reg.route /\ r \in Seq(Raw)
  BY DEF Registration
<1>2. \A i \in 1..Len(r) : r[i] \in Raw
  <2> HIDE DEF Raw
  <2> QED
    BY <1>1
<1> QED
  BY <1>1, <1>2

\* A good pattern that matches a path with two slashes at its end matches it with one.
LEMMA SlashTwice ==
    ASSUME RegsOK, NEW k \in GoodRegs, NEW path \in Seq(Texts), path # <<>>, HasSlash(path),
           PathMatches(Table[k].segs, DecodePath(SlashForm(path)))
    PROVE  PathMatches(Table[k].segs, DecodePath(path))
<1>1. PICK segs, a, b, n, m : /\ segs = Table[k].segs /\ a = DecodePath(path)
                              /\ b = DecodePath(SlashForm(path)) /\ n = Len(path) /\ m = Len(segs)
  OBVIOUS
<1>2. /\ segs \in SegLists /\ Reg(k) \in Registration /\ ~PatternBad(Reg(k))
      /\ segs = Segments(Reg(k))
  BY <1>1, TableFacts
<1>3. n \in Nat /\ n >= 1 /\ Len(a) = n /\ Len(b) = n + 1 /\ a \in Seq(Texts) /\ b \in Seq(Texts)
  <2>1. n \in Nat /\ n >= 1
    BY <1>1, Empty
  <2>2. SlashForm(path) \in Seq(Texts) /\ Len(SlashForm(path)) = n + 1
    BY <1>1, SlashFormType
  <2> QED
    BY <1>1, <2>1, <2>2, DecodeFacts
<1>4. b[n] = "" /\ \A i \in 1..n : b[i] = a[i]
  <2>1. SlashForm(path) \in Seq(Texts) /\ Len(SlashForm(path)) = n + 1
        /\ \A i \in 1..n : SlashForm(path)[i] = path[i]
    BY <1>1, SlashFormType
  <2>2. \A i \in 1..n : i \in 1..n + 1
    BY <1>3
  <2>3. \A i \in 1..n : b[i] = Decode(path[i]) /\ a[i] = Decode(path[i])
    BY <1>1, <2>1, <2>2, DecodeFacts
  <2>4. n \in 1..n
    BY <1>3
  <2>5. path[n] = ""
    BY <1>1 DEF HasSlash
  <2>6. Decode("") = ""
    BY TrieAssumption DEF Decode
  <2> QED
    BY <2>3, <2>4, <2>5, <2>6
<1>5. /\ m \in Nat /\ m >= 1
      /\ \A i \in 1..m : segs[i].kind \in {"lit", "single", "multi"} /\ (IsMulti(segs[i]) => i = m)
  BY <1>1, <1>2, RouteFacts
<1>6. /\ n + 1 = m \/ (IsMulti(segs[m]) /\ n + 1 > m)
      /\ \A i \in 1..m : IsMulti(segs[i]) \/ SegMatches(segs[i], b[i])
  BY <1>1, <1>2, <1>3, MatchFacts
<1>7. n + 1 # m
  <2> SUFFICES ASSUME n + 1 = m PROVE FALSE
    OBVIOUS
  <2>1. n \in 1..m /\ n # m
    BY <1>3
  <2>2. ~IsMulti(segs[n]) /\ SegMatches(segs[n], b[n])
    BY <1>5, <1>6, <2>1
  <2>3. segs[n].kind = "lit" /\ segs[n].text = ""
    BY <1>4, <2>2 DEF SegMatches
  <2>4. m = Len(Reg(k).route) /\ (segs[n] = Multi("") \/ segs[n] = parseSegment(Reg(k).route[n]))
    BY <1>1, <1>2, <2>1, SegmentsFacts
  <2>5. segs[n] = parseSegment(Reg(k).route[n])
    <3>1. Multi("").kind = "multi"
      BY DEF Multi
    <3>2. segs[n] # Multi("")
      BY <2>3, <3>1
    <3> QED
      BY <2>4, <3>2
  <2>6. n \in 1..Len(Reg(k).route) - 1
    <3>1. m = Len(Reg(k).route)
      BY <2>4, Zenon
    <3>2. n \in 1..m - 1
      BY <1>3
    <3> QED
      BY <3>1, <3>2
  <2>7. n \in 1..Len(Reg(k).route) /\ parseSegment(Reg(k).route[n]) # Lit("")
    BY <2>1, <2>4, <2>6, <1>2 DEF PatternBad
  <2>8. Reg(k).route[n].form \in {"text", "param", "star", "end", "bad"}
    BY <1>2, <2>7, RawFacts
  <2>9. parseSegment(Reg(k).route[n]) = Lit("")
    BY <2>3, <2>5, <2>8 DEF parseSegment, Lit, Single, Multi
  <2> QED
    BY <2>7, <2>9
<1>8. IsMulti(segs[m]) /\ n + 1 > m
  BY <1>6, <1>7
<1>9. Len(a) = m \/ (IsMulti(segs[m]) /\ Len(a) > m)
  BY <1>3, <1>5, <1>8
<1>10. ASSUME NEW i \in 1..m PROVE IsMulti(segs[i]) \/ SegMatches(segs[i], a[i])
  <2>1. i \in 1..n
    BY <1>3, <1>5, <1>8
  <2> QED
    BY <1>4, <1>6, <2>1
<1> QED
  BY <1>1, <1>2, <1>3, <1>9, <1>10, MatchFacts

-----------------------------------------------------------------------------
(* Build's report. *)

LEMMA ReportIs ==
    ASSUME RegsOK
    PROVE  \A pair : pair \in detectConflicts(Table) <=>
             \E k, l \in GoodRegs :
               /\ pair = {k, l} /\ k < l
               /\ Table[k].method = Table[l].method /\ Table[k].host = Table[l].host
               /\ Clash(Table[k].segs, Table[l].segs)
<1>1. PICK rs : rs = [k \in DOMAIN regs |-> Reg(k)]
  OBVIOUS
<1>2. DOMAIN regs = 1..Len(regs) /\ Len(regs) \in Nat
      /\ \A k \in 1..Len(regs) : regs[k] \in DOMAIN Registrations
  BY TableFacts DEF RegsOK
<1>3. rs \in Seq(Registration) /\ DOMAIN rs = DOMAIN regs
  <2>1. \A k \in 1..Len(regs) : Reg(k) \in Registration
    BY <1>2, RegistrationFacts DEF Reg
  <2> QED
    BY <1>1, <1>2, <2>1
<1>4. PICK good : good = {k \in DOMAIN rs : ~PatternBad(rs[k])}
  OBVIOUS
<1>5. good = GoodRegs
  BY <1>1, <1>3, <1>4 DEF GoodRegs
<1>6. \A k \in GoodRegs : rs[k] = Reg(k) /\ parsePattern(rs[k]) = Table[k]
  BY <1>1, <1>2, TableFacts
<1>7. PICK t : t = [k \in good |-> parsePattern(rs[k])]
  OBVIOUS
<1>8. t = Table
  <2>1. Table = [k \in GoodRegs |-> Table[k]]
    BY DEF Table
  <2> QED
    BY <1>5, <1>6, <1>7, <2>1
<1>9. \A pair : pair \in detectConflicts(t) <=>
        \E k, l \in good :
          /\ pair = {k, l} /\ k < l
          /\ rs[k].method = rs[l].method /\ rs[k].host = rs[l].host
          /\ Clash(Segments(rs[k]), Segments(rs[l]))
  BY <1>3, <1>4, <1>7, DetectionExact
<1>10. \A k \in GoodRegs : /\ Table[k].method = rs[k].method /\ Table[k].host = rs[k].host
                           /\ Table[k].segs = Segments(rs[k])
  BY <1>6, TableFacts
<1> QED
  BY <1>5, <1>8, <1>9, <1>10

\* In terms of the paths of Paths.
LEMMA AmbiguousIs ==
    ASSUME RegsOK, PathsSuffice, NEW k \in GoodRegs, NEW l \in GoodRegs
    PROVE  Ambiguous(k, l) <=>
             /\ Table[k].method = Table[l].method /\ Table[k].host = Table[l].host
             /\ Clash(Table[k].segs, Table[l].segs)
<1>1. /\ Meaning(k) \subseteq Meaning(l) <=> PathsOf(Table[k].segs) \subseteq PathsOf(Table[l].segs)
      /\ Meaning(k) \cap Meaning(l) # {} <=> PathsOf(Table[k].segs) \cap PathsOf(Table[l].segs) # {}
      /\ Meaning(k) = Meaning(l) <=> PathsOf(Table[k].segs) = PathsOf(Table[l].segs)
  BY MeaningFacts
<1>2. Meaning(l) \subseteq Meaning(k) <=> PathsOf(Table[l].segs) \subseteq PathsOf(Table[k].segs)
  BY MeaningFacts
<1> QED
  BY <1>1, <1>2 DEF Ambiguous, StrictlyWithin, Clash

-----------------------------------------------------------------------------
(* Redirects. *)

LEMMA RequestFacts ==
    ASSUME NEW req \in Requests
    PROVE  /\ req.path \in Seq(Texts) /\ (req.star => req.method = "OPTIONS")
           /\ req = [method |-> req.method, host |-> req.host, path |-> req.path, star |-> req.star]
           /\ \A i \in 1..Len(req.path) :
                req.path[i] \in DOMAIN Decoded \cup DOMAIN Slashed => req.path[i] \in DOMAIN Escaped
<1>1. PICK Strings : Strings = STRING
  OBVIOUS
<1>2. Requests \subseteq [method : Strings, host : Strings, path : Seq(Strings), star : BOOLEAN]
  BY <1>1, RouterAssumption
<1>3. Strings \subseteq Texts
  BY <1>1 DEF Texts
<1>4. \A s \in Seq(Strings) : s \in Seq(Texts)
  BY <1>3
<1>5. req \in [method : Strings, host : Strings, path : Seq(Strings), star : BOOLEAN]
  BY <1>2
<1>6. req.path \in Seq(Strings)
      /\ req = [method |-> req.method, host |-> req.host, path |-> req.path, star |-> req.star]
  BY <1>5
<1>7. DOMAIN req.path = 1..Len(req.path)
  BY <1>6
<1> QED
  BY <1>4, <1>6, <1>7, RouterAssumption

LEMMA CleanSeq == \A p : IsClean(p) => p \in Seq(Texts)
BY DEF IsClean

LEMMA CleanType ==
    ASSUME NEW path \in Seq(Texts)
    PROVE  IsClean(pathClean(path)) /\ pathClean(path) \in Seq(Texts)
<1>1. IsClean(pathClean(path))
  BY CleanIsClean
<1> QED
  BY <1>1 DEF IsClean

\* Any redirect is to a clean path.
LEMMA RedirectIsClean ==
    ASSUME Compiled, built, NEW req, req.path \in Seq(Texts), NEW resp, resp = Respond(req),
           resp.status = 307
    PROVE  IsClean(resp.location)
<1>1. PICK path, want, h : path = GoesBy(req) /\ want = methodID(req.method)
                           /\ h = Owner(req.host, path, want)
  OBVIOUS
<1>2. path \in Seq(Texts)
  BY <1>1, RespondIs
<1>3. SlashForm(pathClean(urlPath(req.path))) \in Seq(Texts)
  <2>1. urlPath(req.path) \in Seq(Texts)
    BY UrlFacts
  <2>2. pathClean(urlPath(req.path)) \in Seq(Texts)
    BY <2>1, CleanType
  <2> QED
    BY <2>2, SlashFormType
<1>4. \E p \in Seq(Texts) : resp = RedirectTo(p)
  BY <1>1, <1>2, <1>3, StatusSays DEF Verdict
<1> QED
  BY <1>4, RedirectFacts

\* The redirect for a missing slash is to a path that has one.
LEMMA SlashRedirectEnds ==
    ASSUME NEW path \in Seq(Texts), NEW resp,
           resp = RedirectTo(SlashForm(pathClean(urlPath(path))))
    PROVE  HasSlash(resp.location)
<1>1. PICK p : p = pathClean(urlPath(path))
  OBVIOUS
<1>2. p \in Seq(Texts)
  <2>1. urlPath(path) \in Seq(Texts)
    BY UrlFacts
  <2> QED
    BY <1>1, <2>1, CleanType
<1>3. SlashForm(p) \in Seq(Texts) /\ Len(SlashForm(p)) = Len(p) + 1 /\ HasSlash(SlashForm(p))
  BY <1>2, SlashFormType
<1>4. SlashForm(p) # <<>>
  <2>1. Len(p) \in Nat
    BY <1>2
  <2>2. Len(SlashForm(p)) >= 1
    BY <1>3, <2>1
  <2> QED
    BY <1>3, <2>2, Empty
<1>5. PICK q : q = SlashForm(p)
  OBVIOUS
<1>6. q \in Seq(Texts) /\ q # <<>> /\ HasSlash(q) /\ resp = RedirectTo(q)
  BY <1>1, <1>3, <1>4, <1>5
<1>7. \A r : r = RedirectTo(q) => HasSlash(r.location)
  BY <1>6, RedirectFacts
<1> QED
  BY <1>6, <1>7

\* A clean path is only redirected for a missing slash.
LEMMA CleanRedirect ==
    ASSUME Compiled, built, NEW req, IsClean(req.path), NEW resp, resp = Respond(req),
           resp.status = 307
    PROVE  /\ ~HasSlash(req.path) /\ HasSlash(resp.location)
           /\ Slashes(Owner(req.host, req.path, methodID(req.method)), req.path, methodID(req.method))
<1>1. PICK path, want, h : path = GoesBy(req) /\ want = methodID(req.method)
                           /\ h = Owner(req.host, path, want)
  OBVIOUS
<1>2. req.path \in Seq(Texts)
  BY DEF IsClean
<1>3. path = req.path
  BY <1>1, CleanFixed DEF GoesBy
<1>4. Slashes(h, path, want) /\ resp = RedirectTo(SlashForm(pathClean(urlPath(req.path))))
  <2>1. \/ Slashes(h, path, want) /\ resp = RedirectTo(SlashForm(pathClean(urlPath(req.path))))
        \/ ~Slashes(h, path, want) /\ path # req.path /\ resp = RedirectTo(path)
    BY <1>1, <1>2, StatusSays DEF Verdict
  <2> QED
    BY <1>3, <2>1
<1>5. HasSlash(resp.location)
  BY <1>2, <1>4, SlashRedirectEnds
<1> QED
  BY <1>1, <1>3, <1>4, <1>5 DEF Slashes

LEMMA NoneGained ==
    ASSUME NEW path \in Seq(Texts), ~HasEscapes(path), NEW r, Within(r, path)
    PROVE  NoEscapes(r)
<1>1. DOMAIN path = 1..Len(path)
  OBVIOUS
<1>2. \A j \in 1..Len(path) : path[j] \notin DOMAIN Escaped
  BY <1>1 DEF HasEscapes
<1> QED
  BY <1>2 DEF Within, NoEscapes

\* A redirect that does not end with a slash was for a path to clean, and keeps
\* its clean form unless there are escapes in it.
LEMMA CleaningRedirect ==
    ASSUME Compiled, built, NEW req, req.path \in Seq(Texts), NEW resp, resp = Respond(req),
           resp.status = 307, ~HasSlash(resp.location)
    PROVE  /\ req.method # "CONNECT" /\ pathClean(req.path) # req.path
           /\ ~HasEscapes(req.path) =>
                /\ resp.location = pathClean(req.path)
                /\ ~Slashes(Owner(req.host, resp.location, methodID(req.method)),
                            resp.location, methodID(req.method))
<1>1. PICK path, want, h : path = GoesBy(req) /\ want = methodID(req.method)
                           /\ h = Owner(req.host, path, want)
  OBVIOUS
<1>2. ~Slashes(h, path, want) /\ path # req.path /\ resp = RedirectTo(path)
  <2>1. \/ resp = RedirectTo(SlashForm(pathClean(urlPath(req.path))))
        \/ ~Slashes(h, path, want) /\ path # req.path /\ resp = RedirectTo(path)
    BY <1>1, StatusSays DEF Verdict
  <2> QED
    BY <2>1, SlashRedirectEnds
<1>3. req.method # "CONNECT" /\ path = pathClean(req.path)
  BY <1>1, <1>2 DEF GoesBy
<1>4. IsClean(path) /\ path \in Seq(Texts) /\ Within(path, req.path)
  BY <1>3, CleanIsClean, CleanSeq
<1>5. ASSUME ~HasEscapes(req.path) PROVE resp.location = path
  <2>1. NoEscapes(path)
    BY <1>4, <1>5, NoneGained
  <2>2. resp.location = pathClean(path)
    BY <1>2, <1>4, <2>1, RedirectFacts
  <2> QED
    BY <1>4, <2>2, CleanFixed
<1> QED
  BY <1>1, <1>2, <1>3, <1>5

-----------------------------------------------------------------------------
(* An exchange, request by request. *)

\* What was asked first, what is asked after that many redirects.
Sent(asked, hops, req) ==
    /\ asked \in Requests /\ hops \in Nat
    /\ req.path \in Seq(Texts) /\ req = [asked EXCEPT !.path = req.path]
    /\ hops = 0 => req = asked
    /\ hops >= 1 => IsClean(req.path) /\ built
    /\ hops = 1 => Respond(asked).status = 307 /\ req.path = Respond(asked).location
    /\ hops >= 2 => HasSlash(req.path) /\ HasEscapes(asked.path)

LEMMA SentFacts ==
    ASSUME NEW asked, NEW hops, NEW req, Sent(asked, hops, req)
    PROVE  /\ req.method = asked.method /\ req.host = asked.host /\ req.star = asked.star
           /\ asked.path \in Seq(Texts) /\ (asked.star => asked.method = "OPTIONS")
           /\ hops \in {0, 1} \/ hops >= 2
<1>1. /\ asked \in Requests /\ hops \in Nat /\ req = [asked EXCEPT !.path = req.path]
  BY DEF Sent
<1>2. /\ asked.path \in Seq(Texts) /\ (asked.star => asked.method = "OPTIONS")
      /\ asked = [method |-> asked.method, host |-> asked.host, path |-> asked.path,
                  star |-> asked.star]
  BY <1>1, RequestFacts
<1>3. hops \in {0, 1} \/ hops >= 2
  BY <1>1
<1> QED
  BY <1>1, <1>2, <1>3

LEMMA SentTurns ==
    ASSUME NEW asked, NEW hops, NEW req, Sent(asked, hops, req), NEW p
    PROVE  /\ [req EXCEPT !.path = p] = [asked EXCEPT !.path = p]
           /\ [asked EXCEPT !.path = p].path = p
<1>1. asked \in Requests /\ req = [asked EXCEPT !.path = req.path]
  BY DEF Sent
<1>2. asked = [method |-> asked.method, host |-> asked.host, path |-> asked.path,
               star |-> asked.star]
  BY <1>1, RequestFacts
<1> QED
  BY <1>1, <1>2

\* Only an unclean path with escapes is redirected a second time.
LEMMA SecondRedirect ==
    ASSUME Compiled, NEW asked, NEW req, Sent(asked, 1, req), Respond(req).status = 307
    PROVE  HasEscapes(asked.path) /\ pathClean(asked.path) # asked.path
<1>1. /\ built /\ IsClean(req.path) /\ Respond(asked).status = 307
      /\ req.path = Respond(asked).location
  BY DEF Sent
<1>2. asked.path \in Seq(Texts) /\ req.method = asked.method /\ req.host = asked.host
  BY SentFacts
<1>3. /\ ~HasSlash(req.path)
      /\ Slashes(Owner(req.host, req.path, methodID(req.method)), req.path, methodID(req.method))
  BY <1>1, CleanRedirect
<1>4. /\ pathClean(asked.path) # asked.path
      /\ ~HasEscapes(asked.path) =>
           ~Slashes(Owner(asked.host, req.path, methodID(asked.method)),
                    req.path, methodID(asked.method))
  BY <1>1, <1>2, <1>3, CleaningRedirect
<1> QED
  BY <1>2, <1>3, <1>4

\* Following a redirect.
LEMMA FollowSends ==
    ASSUME Compiled, built, NEW asked, NEW hops, NEW req, Sent(asked, hops, req),
           Respond(req).status = 307, NEW next, next = [req EXCEPT !.path = Respond(req).location]
    PROVE  Sent(asked, hops + 1, next)
<1>1. /\ asked \in Requests /\ hops \in Nat /\ req.path \in Seq(Texts)
      /\ hops = 0 => req = asked
      /\ hops >= 1 => IsClean(req.path)
      /\ hops >= 2 => HasSlash(req.path) /\ HasEscapes(asked.path)
  BY DEF Sent
<1>2. PICK loc : loc = Respond(req).location
  OBVIOUS
<1>3. IsClean(loc) /\ loc \in Seq(Texts)
  BY <1>1, <1>2, RedirectIsClean, CleanSeq
<1>4. next.path = loc /\ next = [asked EXCEPT !.path = next.path]
  <2>1. next = [req EXCEPT !.path = loc]
    BY <1>2
  <2>2. [req EXCEPT !.path = loc] = [asked EXCEPT !.path = loc] /\ [asked EXCEPT !.path = loc].path = loc
    BY SentTurns
  <2>3. next = [asked EXCEPT !.path = loc] /\ next.path = loc
    BY <2>1, <2>2, Zenon
  <2> QED
    BY <2>3
<1>5. ~(hops >= 2)
  <2> SUFFICES ASSUME hops >= 2 PROVE FALSE
    OBVIOUS
  <2>1. hops >= 1 /\ HasSlash(req.path)
    BY <1>1
  <2> QED
    BY <1>1, <2>1, CleanRedirect
<1>6. CASE hops = 0
  <2>1. hops + 1 = 1 /\ hops + 1 \in Nat
    BY <1>6
  <2> QED
    BY <1>1, <1>2, <1>3, <1>4, <1>6, <2>1 DEF Sent
<1>7. CASE hops = 1
  <2>1. hops + 1 = 2 /\ hops + 1 \in Nat
    BY <1>7
  <2>2. HasSlash(loc)
    BY <1>1, <1>2, <1>7, CleanRedirect
  <2>3. HasEscapes(asked.path)
    BY <1>7, SecondRedirect
  <2> QED
    BY <1>1, <1>2, <1>3, <1>4, <2>1, <2>2, <2>3 DEF Sent
<1> QED
  BY <1>1, <1>5, <1>6, <1>7

-----------------------------------------------------------------------------
(* The invariant. *)

\* What registration and the calls after Build leave behind.
Setup ==
    /\ RegsOK /\ Len(regs) <= MaxRoutes /\ mws \in 0..MaxUses /\ late \in 0..MaxLate
    /\ built \in BOOLEAN
    /\ \A e \in errs \cup report : e.at \subseteq DOMAIN regs

\* What Build froze: the tries and the conflicts of this very table.
Frozen ==
    /\ ~built => errs = {} /\ DOMAIN roots = {}
    /\ built => Compiled /\ Reported = detectConflicts(Table)

\* The exchange under way.
ExchangeOK ==
    exchange = Idle \/
        \E asked, hops, req :
            /\ exchange = [asked |-> asked, hops |-> hops, req |-> req, resp |-> Respond(req)]
            /\ Sent(asked, hops, req)

IInv == Setup /\ Frozen /\ ExchangeOK

\* What is answered depends on the table alone.
LEMMA RespondStable ==
    ASSUME UNCHANGED table
    PROVE  /\ \A req : Respond(req)' = Respond(req)
           /\ GoodRegs' = GoodRegs /\ Table' = Table
           /\ Compiled' <=> Compiled
<1>1. /\ RedirectTrailingSlash' = RedirectTrailingSlash /\ regs' = regs /\ mws' = mws
      /\ built' = built /\ roots' = roots /\ allowAll' = allowAll
  BY DEF table
<1>2. GoodRegs' = GoodRegs
  BY <1>1 DEF GoodRegs, Reg
<1>3. Table' = Table
  BY <1>1, <1>2 DEF Table
<1>4. TableMethods' = TableMethods
  BY <1>2, <1>3 DEF TableMethods
<1>5. \A m : methodID(m)' = methodID(m)
  BY <1>4 DEF methodID
<1>6. \A host, path, want : Walk(host, path, want)' = Walk(host, path, want)
  BY <1>1 DEF Walk, TrieAt, hostRoot, hasHostRoutes
<1>7. \A trie, path : serveNoRoute(trie, path)' = serveNoRoute(trie, path)
  BY <1>1 DEF serveNoRoute
<1>8. \A entry, vals, nv, path : serveEntry(entry, vals, nv, path)' = serveEntry(entry, vals, nv, path)
  BY <1>3 DEF serveEntry
<1>9. \A trie, m, path, want : serveNode(trie, m, path, want)' = serveNode(trie, m, path, want)
  BY <1>8 DEF serveNode
<1>10. \A req, path, want : Route(req, path, want)' = Route(req, path, want)
  BY <1>1, <1>6, <1>7, <1>9 DEF Route
<1>11. \A req : Respond(req)' = Respond(req)
  BY <1>1, <1>5, <1>10 DEF Respond
<1>12. Compiled' <=> Compiled
  BY <1>1, <1>2, <1>3 DEF Compiled, RegsOK, Holding
<1> QED
  BY <1>2, <1>3, <1>11, <1>12

LEMMA BoundFacts == MaxRoutes \in Nat /\ MaxUses \in Nat /\ MaxLate \in Nat
BY RouterAssumption

LEMMA OneMore == \A m \in Nat : \A n \in 0..m : n < m => n + 1 \in 0..m
OBVIOUS

LEMMA SentStable ==
    ASSUME UNCHANGED table
    PROVE  \A asked, hops, req : Sent(asked, hops, req)' <=> Sent(asked, hops, req)
<1>1. \A req : Respond(req)' = Respond(req)
  BY RespondStable
<1>2. built' = built
  BY DEF table
<1> QED
  BY <1>1, <1>2 DEF Sent

\* An action that leaves the table and the exchange alone, or ends the latter.
LEMMA ExchangeKept ==
    ASSUME IInv, UNCHANGED table, exchange' = exchange \/ exchange' = Idle
    PROVE  ExchangeOK'
<1>1. CASE exchange' = Idle
  BY <1>1 DEF ExchangeOK, Idle
<1>2. CASE exchange' = exchange /\ exchange # Idle
  <2>1. PICK asked, hops, req :
          /\ exchange = [asked |-> asked, hops |-> hops, req |-> req, resp |-> Respond(req)]
          /\ Sent(asked, hops, req)
    BY <1>2 DEF IInv, ExchangeOK
  <2>2. Respond(req)' = Respond(req) /\ Sent(asked, hops, req)'
    BY <2>1, RespondStable, SentStable
  <2>3. exchange' = [asked |-> asked, hops |-> hops, req |-> req, resp |-> Respond(req)']
    BY <1>2, <2>1, <2>2
  <2> QED
    BY <2>2, <2>3 DEF ExchangeOK
<1> QED
  BY <1>1, <1>2

LEMMA InitInv == Init => IInv
<1> SUFFICES ASSUME Init PROVE IInv
  OBVIOUS
<1>1. regs \in Seq(DOMAIN Registrations) /\ Len(regs) = 0
  BY DEF Init
<1>2. Setup
  <2>1. mws = 0 /\ late = 0 /\ built = FALSE /\ errs = {} /\ report = {}
    BY DEF Init
  <2>2. \A n \in Nat : 0 \in 0..n /\ 0 <= n
    OBVIOUS
  <2> QED
    BY <1>1, <2>1, <2>2, BoundFacts DEF Setup, RegsOK
<1>3. Frozen
  BY DEF Init, Frozen
<1> QED
  BY <1>2, <1>3 DEF Init, IInv, ExchangeOK

LEMMA HandleInv ==
    ASSUME IInv, NEW i \in DOMAIN Registrations, Handle(i)
    PROVE  IInv'
<1>1. /\ ~built /\ exchange = Idle /\ Len(regs) < MaxRoutes /\ regs' = Append(regs, i)
      /\ mws' = mws /\ built' = built /\ roots' = roots /\ errs' = errs /\ report' = report
      /\ late' = late /\ exchange' = exchange
  BY DEF Handle
<1>2. regs \in Seq(DOMAIN Registrations)
  BY DEF IInv, Setup, RegsOK
<1>3. regs' \in Seq(DOMAIN Registrations) /\ Len(regs') = Len(regs) + 1 /\ Len(regs) \in Nat
      /\ DOMAIN regs' = 1..Len(regs) + 1 /\ DOMAIN regs = 1..Len(regs)
  BY <1>1, <1>2
<1>4. DOMAIN regs \subseteq DOMAIN regs'
  BY <1>3
<1>5. Setup'
  <2>1. \A e \in errs' \cup report' : e.at \subseteq DOMAIN regs'
    BY <1>1, <1>4 DEF IInv, Setup
  <2>2. Len(regs') <= MaxRoutes
    BY <1>1, <1>3, BoundFacts
  <2> QED
    BY <1>1, <1>3, <2>1, <2>2 DEF IInv, Setup, RegsOK
<1>6. Frozen'
  BY <1>1 DEF IInv, Frozen
<1> QED
  BY <1>1, <1>5, <1>6 DEF IInv, ExchangeOK, Idle

LEMMA UseInv ==
    ASSUME IInv, Use
    PROVE  IInv'
<1>1. /\ ~built /\ exchange = Idle /\ mws < MaxUses /\ mws' = mws + 1 /\ regs' = regs
      /\ built' = built /\ roots' = roots /\ errs' = errs /\ report' = report
      /\ late' = late /\ exchange' = exchange
  BY DEF Use
<1>2. Setup'
  <2>1. mws' \in 0..MaxUses
    <3>1. mws \in 0..MaxUses
      BY DEF IInv, Setup
    <3> QED
      BY <1>1, <3>1, BoundFacts
  <2> QED
    BY <1>1, <2>1 DEF IInv, Setup, RegsOK
<1>3. Frozen'
  BY <1>1 DEF IInv, Frozen
<1> QED
  BY <1>1, <1>2, <1>3 DEF IInv, ExchangeOK, Idle

\* Calls after Build, which touch neither the table nor the report of conflicts.
LEMMA LateInv ==
    ASSUME IInv, UNCHANGED <<table, exchange>>, built,
           late' \in 0..MaxLate,
           \A e \in errs' : e \in errs \/ (e.kind # "conflict" /\ e.at = {}),
           errs \subseteq errs',
           report' = report \/ \A e \in report' : e.at = {}
    PROVE  IInv'
<1>1. regs' = regs /\ mws' = mws /\ built' = built /\ roots' = roots /\ exchange' = exchange
      /\ UNCHANGED table
  BY DEF table
<1>2. Setup'
  <2>1. \A e \in errs' \cup report' : e.at \subseteq DOMAIN regs'
    BY <1>1 DEF IInv, Setup
  <2> QED
    BY <1>1, <2>1 DEF IInv, Setup, RegsOK
<1>3. Frozen'
  <2>1. {x \in errs' : x.kind = "conflict"} = {x \in errs : x.kind = "conflict"}
    OBVIOUS
  <2>2. Reported' = Reported
    BY <2>1 DEF Reported
  <2>3. Table' = Table /\ (Compiled' <=> Compiled)
    BY <1>1, RespondStable
  <2> QED
    BY <1>1, <2>2, <2>3 DEF IInv, Frozen
<1>4. ExchangeOK'
  BY <1>1, ExchangeKept
<1> QED
  BY <1>2, <1>3, <1>4 DEF IInv

LEMMA SetupLateInv ==
    ASSUME IInv, NEW call \in {"Handle after Build", "Use after Build"}, SetupLate(call)
    PROVE  IInv'
<1>1. /\ built /\ late < MaxLate /\ late' = late + 1 /\ UNCHANGED <<table, exchange>>
      /\ errs' = errs \cup {[kind |-> call, at |-> {}]} /\ report' = report
  BY DEF SetupLate
<1>2. late' \in 0..MaxLate
  <2>1. late \in 0..MaxLate
    BY DEF IInv, Setup
  <2>2. late' = late + 1 /\ late < MaxLate
    BY <1>1, Zenon
  <2> QED
    BY <2>1, <2>2, BoundFacts, OneMore, Zenon
<1>3. ASSUME NEW e \in errs' PROVE e \in errs \/ (e.kind # "conflict" /\ e.at = {})
  <2>1. e \in errs \/ e = [kind |-> call, at |-> {}]
    BY <1>1
  <2>2. call # "conflict"
    OBVIOUS
  <2>3. [kind |-> call, at |-> {}].kind = call /\ [kind |-> call, at |-> {}].at = {}
    OBVIOUS
  <2> QED
    BY <2>1, <2>2, <2>3, Zenon
<1>4. errs \subseteq errs'
  BY <1>1
<1> QED
  BY <1>1, <1>2, <1>3, <1>4, LateInv

LEMMA BuildAgainInv ==
    ASSUME IInv, BuildAgain
    PROVE  IInv'
<1>1. /\ built /\ late < MaxLate /\ late' = late + 1 /\ UNCHANGED <<table, exchange>>
      /\ report' = {[kind |-> "Build called twice", at |-> {}]} /\ errs' = errs
  BY DEF BuildAgain
<1>2. late' \in 0..MaxLate
  <2>1. late \in 0..MaxLate
    BY DEF IInv, Setup
  <2>2. late' = late + 1 /\ late < MaxLate
    BY <1>1, Zenon
  <2> QED
    BY <2>1, <2>2, BoundFacts, OneMore, Zenon
<1>3. ASSUME NEW e \in report' PROVE e.at = {}
  <2>1. e = [kind |-> "Build called twice", at |-> {}]
    BY <1>1
  <2> QED
    BY <2>1
<1>4. \A e \in errs' : e \in errs \/ (e.kind # "conflict" /\ e.at = {})
  BY <1>1
<1> QED
  BY <1>1, <1>2, <1>3, <1>4, LateInv

LEMMA BuildInv ==
    ASSUME IInv, Build
    PROVE  IInv'
<1>1. /\ ~built /\ exchange = Idle /\ built' = TRUE /\ regs' = regs /\ mws' = mws
      /\ late' = late /\ exchange' = exchange /\ report' = errs'
      /\ roots' = Compile(Table)[Len(regs)]
      /\ errs' = errs \cup {[kind |-> "pattern", at |-> {k}] : k \in DOMAIN regs \ GoodRegs}
                      \cup {[kind |-> "conflict", at |-> pair] : pair \in detectConflicts(Table)}
  BY DEF Build
<1>2. RegsOK /\ errs = {} /\ GoodRegs \subseteq DOMAIN regs
  BY <1>1 DEF IInv, Setup, Frozen, GoodRegs
<1>3. GoodRegs' = GoodRegs
  BY <1>1 DEF GoodRegs, Reg
<1>4. Table' = Table
  BY <1>1, <1>3 DEF Table
<1>5. \A pair \in detectConflicts(Table) : pair \subseteq GoodRegs
  BY <1>2, ReportIs
<1>6. Setup'
  <2>1. \A e \in errs' : e.at \subseteq DOMAIN regs'
    <3> TAKE e \in errs'
    <3>1. CASE e \in {[kind |-> "pattern", at |-> {k}] : k \in DOMAIN regs \ GoodRegs}
      BY <1>1, <3>1
    <3>2. CASE e \in {[kind |-> "conflict", at |-> pair] : pair \in detectConflicts(Table)}
      BY <1>1, <1>2, <1>5, <3>2
    <3> QED
      BY <1>1, <1>2, <3>1, <3>2
  <2>2. \A e \in errs' \cup report' : e.at \subseteq DOMAIN regs'
    BY <1>1, <2>1
  <2> QED
    BY <1>1, <2>2 DEF IInv, Setup, RegsOK
<1>7. Compiled'
  <2>1. Holding(Compile(Table)[Len(regs)], Len(regs))
    BY <1>2, CompileExact
  <2>2. Holding(roots, Len(regs))'
    BY <1>1, <1>3, <1>4, <2>1 DEF Holding
  <2>3. RegsOK'
    BY <1>1, <1>2 DEF RegsOK
  <2> QED
    BY <2>2, <2>3 DEF Compiled
<1>8. Reported' = detectConflicts(Table)
  <2>1. PICK found : found = detectConflicts(Table)
    OBVIOUS
  <2>2. {x \in errs' : x.kind = "conflict"} = {[kind |-> "conflict", at |-> pair] : pair \in found}
    BY <1>1, <1>2, <2>1
  <2>3. Reported' = {e.at : e \in {[kind |-> "conflict", at |-> pair] : pair \in found}}
    BY <2>2 DEF Reported
  <2>4. \A pair : [kind |-> "conflict", at |-> pair].at = pair
    OBVIOUS
  <2>5. \A x : x \in Reported' <=> x \in found
    BY <2>3, <2>4
  <2> QED
    BY <2>1, <2>5
<1>9. Frozen'
  BY <1>1, <1>4, <1>7, <1>8 DEF Frozen
<1> QED
  BY <1>1, <1>6, <1>9 DEF IInv, ExchangeOK, Idle

\* A request, the next after a redirect, and the end of an exchange.
LEMMA SetupKept ==
    ASSUME IInv, UNCHANGED <<table, errs, report, late>>
    PROVE  Setup' /\ Frozen'
<1>1. /\ regs' = regs /\ mws' = mws /\ built' = built /\ roots' = roots
      /\ errs' = errs /\ report' = report /\ late' = late /\ UNCHANGED table
  BY DEF table
<1>2. Table' = Table /\ (Compiled' <=> Compiled)
  BY <1>1, RespondStable
<1>3. Reported' = Reported
  BY <1>1 DEF Reported
<1> QED
  BY <1>1, <1>2, <1>3 DEF IInv, Setup, RegsOK, Frozen

LEMMA ServeInv ==
    ASSUME IInv, NEW req \in Requests, ServeHTTP(req)
    PROVE  IInv'
<1>1. /\ exchange' = [asked |-> req, hops |-> 0, req |-> req, resp |-> Respond(req)]
      /\ UNCHANGED <<table, errs, report, late>> /\ UNCHANGED table
  BY DEF ServeHTTP
<1>2. /\ req.path \in Seq(Texts)
      /\ req = [method |-> req.method, host |-> req.host, path |-> req.path, star |-> req.star]
  BY RequestFacts
<1>3. req = [req EXCEPT !.path = req.path]
  BY <1>2
<1>4. Sent(req, 0, req)
  BY <1>2, <1>3 DEF Sent
<1>5. Sent(req, 0, req)' /\ Respond(req)' = Respond(req)
  BY <1>1, <1>4, SentStable, RespondStable
<1>6. exchange' = [asked |-> req, hops |-> 0, req |-> req, resp |-> Respond(req)']
  BY <1>1, <1>5
<1>7. ExchangeOK'
  BY <1>5, <1>6 DEF ExchangeOK
<1> QED
  BY <1>1, <1>7, SetupKept DEF IInv

LEMMA FollowInv ==
    ASSUME IInv, Follow
    PROVE  IInv'
<1>1. PICK asked, hops, req :
        /\ exchange = [asked |-> asked, hops |-> hops, req |-> req, resp |-> Respond(req)]
        /\ Sent(asked, hops, req)
  BY DEF IInv, ExchangeOK, Follow
<1>2. PICK next : next = [req EXCEPT !.path = Respond(req).location]
  OBVIOUS
<1>3. /\ exchange.resp.status = 307 /\ UNCHANGED <<table, errs, report, late>>
      /\ exchange' = [exchange EXCEPT !.hops = exchange.hops + 1,
                        !.req = [exchange.req EXCEPT !.path = exchange.resp.location],
                        !.resp = Respond([exchange.req EXCEPT !.path = exchange.resp.location])]
  BY DEF Follow
<1>4. /\ Respond(req).status = 307 /\ UNCHANGED table
      /\ exchange' = [asked |-> asked, hops |-> hops + 1, req |-> next, resp |-> Respond(next)]
  BY <1>1, <1>2, <1>3
<1>5. built
  <2>1. ~built => Respond(req).status = 500
    BY DEF Respond
  <2> QED
    BY <1>4, <2>1
<1>6. Compiled
  BY <1>5 DEF IInv, Frozen
<1>7. Sent(asked, hops + 1, next)
  BY <1>1, <1>2, <1>4, <1>5, <1>6, FollowSends
<1>8. Sent(asked, hops + 1, next)' /\ Respond(next)' = Respond(next)
  BY <1>4, <1>7, SentStable, RespondStable
<1>9. exchange' = [asked |-> asked, hops |-> hops + 1, req |-> next, resp |-> Respond(next)']
  BY <1>4, <1>8
<1>10. ExchangeOK'
  BY <1>8, <1>9 DEF ExchangeOK
<1> QED
  BY <1>3, <1>10, SetupKept DEF IInv

\* Setup, Build and every exchange keep it (router.go:71-161, 665-755).
THEOREM RouterInv == Spec => []IInv
<1>1. Init => IInv
  BY InitInv
<1>2. IInv /\ [Next]_vars => IInv'
  <2> SUFFICES ASSUME IInv, [Next]_vars PROVE IInv'
    OBVIOUS
  <2>1. ASSUME NEW i \in DOMAIN Registrations, Handle(i) PROVE IInv'
    BY <2>1, HandleInv
  <2>2. CASE Use
    BY <2>2, UseInv
  <2>3. CASE Build
    BY <2>3, BuildInv
  <2>4. CASE BuildAgain
    BY <2>4, BuildAgainInv
  <2>5. ASSUME NEW call \in {"Handle after Build", "Use after Build"}, SetupLate(call) PROVE IInv'
    BY <2>5, SetupLateInv
  <2>6. ASSUME NEW req \in Requests, ServeHTTP(req) PROVE IInv'
    BY <2>6, ServeInv
  <2>7. CASE Follow
    BY <2>7, FollowInv
  <2>8. CASE Finish
    BY <2>8, SetupKept, ExchangeKept DEF Finish, IInv
  <2>9. CASE UNCHANGED vars
    <3>1. UNCHANGED <<table, errs, report, late>> /\ UNCHANGED table /\ exchange' = exchange
      BY <2>9 DEF vars
    <3> QED
      BY <3>1, SetupKept, ExchangeKept DEF IInv
  <2> QED
    BY <2>1, <2>2, <2>3, <2>4, <2>5, <2>6, <2>7, <2>8, <2>9 DEF Next
<1> QED
  BY <1>1, <1>2, PTL DEF Spec

-----------------------------------------------------------------------------
(* What the invariant gives. *)

LEMMA UnderWay ==
    ASSUME IInv, exchange # Idle
    PROVE  \E asked, hops, req :
             /\ exchange.asked = asked /\ exchange.hops = hops /\ exchange.req = req
             /\ exchange.resp = Respond(req) /\ Sent(asked, hops, req)
BY DEF IInv, ExchangeOK

\* A response of a router that was not built.
LEMMA Unbuilt == ASSUME ~built, NEW req PROVE Respond(req) = [status |-> 500]
BY DEF Respond

\* The response is one of a built router, to a path in segments.
LEMMA AnsweredFacts ==
    ASSUME IInv, exchange # Idle, exchange.resp.status # 500
    PROVE  /\ Compiled /\ built /\ exchange.req.path \in Seq(Texts)
           /\ exchange.resp = Respond(exchange.req)
           /\ exchange.req.star => exchange.req.method = "OPTIONS"
<1>1. PICK asked, hops, req :
        /\ exchange.asked = asked /\ exchange.hops = hops /\ exchange.req = req
        /\ exchange.resp = Respond(req) /\ Sent(asked, hops, req)
  BY UnderWay
<1>2. built
  BY <1>1, Unbuilt
<1>3. Compiled
  BY <1>2 DEF IInv, Frozen
<1>4. req.path \in Seq(Texts)
  BY <1>1 DEF Sent
<1>5. req.star => req.method = "OPTIONS"
  BY <1>1, SentFacts
<1> QED
  BY <1>1, <1>2, <1>3, <1>4, <1>5

LEMMA TypeHolds == ASSUME IInv PROVE TypeOK
<1>1. ASSUME NEW h \in DOMAIN roots, NEW n \in DOMAIN roots[h]
      PROVE  /\ n = Root \/ Front(n) \in DOMAIN roots[h]
             /\ \A m \in DOMAIN roots[h][n] :
                  roots[h][n][m] \in [route : GoodRegs, mws : {mws}]
  <2>1. Holding(roots, Len(regs))
    BY DEF IInv, Frozen, Compiled
  <2>2. IsTrie(roots[h])
    BY <2>1 DEF Holding
  <2>3. n \in Seq(Edges) /\ \A j \in 0..Len(n) : SubSeq(n, 1, j) \in DOMAIN roots[h]
    BY <2>2 DEF IsTrie
  <2>4. n = Root \/ Len(n) - 1 \in 0..Len(n)
    <3>1. PICK E : E = Edges
      OBVIOUS
    <3>2. n \in Seq(E)
      BY <2>3, <3>1
    <3> QED
      BY <3>2 DEF Root
  <2>5. n = Root \/ Front(n) \in DOMAIN roots[h]
    BY <2>3, <2>4 DEF Front
  <2>6. \A m \in DOMAIN roots[h][n] : roots[h][n][m] \in [route : GoodRegs, mws : {mws}]
    BY <2>1 DEF Holding
  <2> QED
    BY <2>5, <2>6
<1>2. ASSUME exchange # Idle PROVE exchange.resp.status \in {200, 307, 404, 405, 500}
  <2>1. CASE exchange.resp.status = 500
    BY <2>1
  <2>2. CASE exchange.resp.status # 500
    <3>1. /\ Compiled /\ built /\ exchange.req.path \in Seq(Texts)
          /\ exchange.resp = Respond(exchange.req)
      BY <1>2, <2>2, AnsweredFacts
    <3> QED
      BY <3>1, StatusSays DEF Verdict
  <2> QED
    BY <2>1, <2>2
<1>3. /\ regs \in Seq(DOMAIN Registrations) /\ Len(regs) <= MaxRoutes
      /\ mws \in 0..MaxUses /\ late \in 0..MaxLate /\ built \in BOOLEAN
      /\ \A e \in errs \cup report : e.at \subseteq DOMAIN regs
  BY DEF IInv, Setup, RegsOK
<1> QED
  BY <1>1, <1>2, <1>3 DEF TypeOK

LEMMA ReportHolds ==
    ASSUME IInv, PathsSuffice PROVE ConflictsReported /\ NoFalseConflict
<1> SUFFICES ASSUME built PROVE ConflictsReported /\ NoFalseConflict
  BY DEF ConflictsReported, NoFalseConflict
<1>1. RegsOK /\ Reported = detectConflicts(Table)
  BY DEF IInv, Setup, Frozen
<1>2. \A k, l \in GoodRegs :
        Ambiguous(k, l) <=> /\ Table[k].method = Table[l].method /\ Table[k].host = Table[l].host
                            /\ Clash(Table[k].segs, Table[l].segs)
  BY <1>1, AmbiguousIs
<1>3. \A pair : pair \in Reported <=>
        \E k, l \in GoodRegs : pair = {k, l} /\ k < l /\ Ambiguous(k, l)
  BY <1>1, <1>2, ReportIs
<1>4. ConflictsReported
  BY <1>3 DEF ConflictsReported
<1>5. NoFalseConflict
  <2> SUFFICES ASSUME NEW pair \in Reported
               PROVE  \E k, l \in pair : k < l /\ Ambiguous(k, l)
    BY DEF NoFalseConflict
  <2>1. PICK k \in GoodRegs, l \in GoodRegs : pair = {k, l} /\ k < l /\ Ambiguous(k, l)
    BY <1>3
  <2> QED
    BY <2>1
<1> QED
  BY <1>4, <1>5

\* A handler ran, for the request under way.
LEMMA ServedFacts ==
    ASSUME IInv, Answered(200), exchange.resp.route # 0,
           NEW req, req = exchange.req, NEW want, want = methodID(req.method)
    PROVE  /\ Compiled /\ req.path \in Seq(Texts) /\ want # AnyMethod /\ want = req.method
           /\ GoesBy(req) = req.path
           /\ ServedBy(Owner(req.host, req.path, want), req.path, want, exchange.resp)
<1>1. /\ Compiled /\ built /\ req.path \in Seq(Texts) /\ exchange.resp = Respond(req)
      /\ exchange.resp.status = 200
  BY AnsweredFacts DEF Answered
<1>2. PICK path, h, resp : path = GoesBy(req) /\ h = Owner(req.host, path, want) /\ resp = Respond(req)
  OBVIOUS
<1>3. path = req.path /\ want # AnyMethod /\ want = req.method /\ ServedBy(h, path, want, resp)
  BY <1>1, <1>2, StatusSays DEF Verdict
<1> QED
  BY <1>1, <1>2, <1>3

LEMMA SpecificHolds == ASSUME IInv, PathsSuffice PROVE MostSpecificServed
<1> SUFFICES ASSUME Answered(200), exchange.resp.route # 0
             PROVE  LET k == exchange.resp.route
                        req == exchange.req
                        matching == Reachable(req.host, req.path)
                    IN  /\ k \in matching /\ Answers(k, req.method)
                        /\ \A l \in matching :
                             /\ Table[l].method = Table[k].method /\ Table[l].host = Table[k].host
                                  => ~StrictlyWithin(l, k)
                             /\ Table[k].host = "" /\ Answers(l, req.method) => Table[l].host = ""
  BY DEF MostSpecificServed
<1>1. PICK req, k, want, h, resp :
        /\ req = exchange.req /\ resp = exchange.resp /\ k = resp.route
        /\ want = methodID(req.method) /\ h = Owner(req.host, req.path, want)
  OBVIOUS
<1>2. /\ Compiled /\ req.path \in Seq(Texts) /\ want # AnyMethod /\ want = req.method
      /\ ServedBy(Owner(req.host, req.path, want), req.path, want, exchange.resp)
  BY <1>1, ServedFacts
<1>3. ServedBy(h, req.path, want, resp)
  BY <1>1, <1>2
<1>4. Best(k, req.host, req.path, want)
  <2>1. PICK host, path : host = req.host /\ path = req.path
    OBVIOUS
  <2>2. /\ path \in Seq(Texts) /\ h = Owner(host, path, want) /\ ServedBy(h, path, want, resp)
    BY <1>1, <1>2, <1>3, <2>1
  <2>3. Best(k, host, path, want)
    BY <1>1, <1>2, <2>2, ServedIsMostSpecific
  <2> QED
    BY <2>1, <2>3
<1>5. Best(k, req.host, req.path, req.method)
  BY <1>2, <1>4
<1> QED
  BY <1>1, <1>5 DEF Best

LEMMA BindingsHold == ASSUME IInv, ParamsFit PROVE BindingsFromWinner
<1> SUFFICES ASSUME Answered(200), exchange.resp.route # 0
             PROVE  exchange.resp.params
                      = Bindings(Table[exchange.resp.route].segs, DecodePath(exchange.req.path))
  BY DEF BindingsFromWinner
<1>1. PICK req, want : req = exchange.req /\ want = methodID(req.method)
  OBVIOUS
<1>2. /\ Compiled /\ req.path \in Seq(Texts)
      /\ ServedBy(Owner(req.host, req.path, want), req.path, want, exchange.resp)
  BY <1>1, ServedFacts
<1> QED
  BY <1>1, <1>2, ServedBinds

-----------------------------------------------------------------------------
(* Refusals. *)

\* A method that has routes gets a handler or a redirect exactly where one of
\* them, or the slash form's, is due.
LEMMA TriedIs ==
    ASSUME Compiled, built, NEW req, NEW q, q = req.path, NEW m, m = req.method, NEW h,
           \A path, want : Owner(req.host, path, want) = h, TrieAt(h) # EmptyTrie,
           IsClean(q), ~req.star, methodID(m) = m, m # AnyMethod
    PROVE  Respond(req).status \in {200, 307}
             <=> Slashes(h, q, m) \/ RoutesFor(h, q, m) # {}
<1>1. PICK path, want, resp :
        /\ path = GoesBy(req) /\ want = methodID(req.method) /\ resp = Respond(req)
  OBVIOUS
<1>2. req.path \in Seq(Texts) /\ path = req.path /\ path # <<>>
  BY <1>1, CleanFixed, CleanSeq DEF GoesBy, IsClean
<1>3. want = m /\ want # AnyMethod /\ h = Owner(req.host, path, want)
  BY <1>1
<1>4. Asks(req)
  BY <1>2 DEF Asks
<1>5. Verdict(req, path, want, h, resp)
  BY <1>1, <1>2, <1>3, StatusSays
<1>6. resp.status \in {200, 307} <=> Slashes(h, path, want) \/ RoutesFor(h, path, want) # {}
  BY <1>2, <1>3, <1>4, <1>5 DEF Verdict
<1> QED
  BY <1>1, <1>2, <1>3, <1>6

\* The request under way is a request.
LEMMA RecordFacts ==
    ASSUME IInv, exchange # Idle, NEW req, req = exchange.req
    PROVE  /\ req = [method |-> req.method, host |-> req.host, path |-> req.path, star |-> req.star]
           /\ req.star => req.method = "OPTIONS"
<1>1. PICK asked, hops : Sent(asked, hops, req)
  BY UnderWay
<1>2. asked \in Requests /\ req = [asked EXCEPT !.path = req.path]
  BY <1>1 DEF Sent
<1>3. asked = [method |-> asked.method, host |-> asked.host, path |-> asked.path,
               star |-> asked.star]
  BY <1>2, RequestFacts
<1>4. req.star => req.method = "OPTIONS"
  BY <1>1, SentFacts
<1> QED
  BY <1>2, <1>3, <1>4

\* The request asked again with another method and path.
Tried(req, m, path) == Respond([req EXCEPT !.method = m, !.path = path]).status \in {200, 307}

\* The method is listed where it has routes, and gets an answer where it has.
Honest(req, resp, h, m) ==
    /\ m \in resp.allow <=> \/ RoutesFor(h, req.path, m) # {}
                            \/ ~HasSlash(req.path) /\ RoutesFor(h, SlashForm(req.path), m) # {}
    /\ \A q : IsClean(q) =>
         (Tried(req, m, q) <=> Slashes(h, q, m) \/ RoutesFor(h, q, m) # {})

\* The methods of a 405, on a clean path and with one table to ask.
LEMMA ListIsHonest ==
    ASSUME Compiled, built, NEW req, NEW p, p = req.path, NEW resp, resp = Respond(req), NEW h,
           \A path, want : Owner(req.host, path, want) = h, IsClean(p), resp.status = 405,
           req = [method |-> req.method, host |-> req.host, path |-> p, star |-> req.star],
           req.star => req.method = "OPTIONS", NEW m \in TableMethods \cup resp.allow
    PROVE  Honest(req, resp, h, m)
<1>1. p \in Seq(Texts) /\ GoesBy(req) = p
  BY CleanSeq, CleanFixed DEF GoesBy
<1>2. Asks(req) /\ TrieAt(h) # EmptyTrie /\ resp.allow = allowValue(TrieAt(h), p)
  <2>1. PICK path, want : path = GoesBy(req) /\ want = methodID(req.method)
    OBVIOUS
  <2>2. h = Owner(req.host, path, want)
    OBVIOUS
  <2>3. Asks(req) /\ TrieAt(h) # EmptyTrie /\ resp.allow = allowValue(TrieAt(h), path)
    BY <1>1, <2>1, <2>2, StatusSays DEF Verdict
  <2> QED
    BY <1>1, <2>1, <2>3
<1>3. ~req.star
  BY <1>2 DEF Asks
<1>4. m \in TableMethods \cup {"HEAD"}
  BY <1>1, <1>2, AllowIs
<1>5. methodID(m) = m /\ m # AnyMethod
  BY <1>4, MethodFacts
<1>6. m \in resp.allow <=> \/ RoutesFor(h, p, m) # {}
                           \/ ~HasSlash(p) /\ RoutesFor(h, SlashForm(p), m) # {}
  BY <1>1, <1>2, <1>5, AllowIs
<1>7. ASSUME NEW q, IsClean(q)
      PROVE  Tried(req, m, q) <=> Slashes(h, q, m) \/ RoutesFor(h, q, m) # {}
  <2>1. PICK r : r = [req EXCEPT !.method = m, !.path = q]
    OBVIOUS
  <2>2. r.host = req.host /\ r.path = q /\ r.method = m /\ r.star = req.star
    BY <2>1
  <2>3. \A path, want : Owner(r.host, path, want) = h
    BY <2>2
  <2>4. Respond(r).status \in {200, 307} <=> Slashes(h, q, m) \/ RoutesFor(h, q, m) # {}
    BY <1>2, <1>3, <1>5, <1>7, <2>2, <2>3, TriedIs
  <2> QED
    BY <2>1, <2>4 DEF Tried
<1> QED
  BY <1>6, <1>7 DEF Honest

LEMMA AllowHolds == ASSUME IInv PROVE AllowIsHonest
<1>1. PICK req, p, resp, h :
        req = exchange.req /\ p = req.path /\ resp = exchange.resp /\ h = ""
  OBVIOUS
<1> SUFFICES ASSUME Answered(405), OneTable, pathClean(p) = p,
                    NEW m \in TableMethods \cup resp.allow
             PROVE  m \in resp.allow <=>
                      \E q \in {p} \cup (IF RedirectTrailingSlash \/ HasSlash(p) THEN {}
                                         ELSE {SlashForm(p)}) : Tried(req, m, q)
  <2>1. AllowIsHonest <=>
          (Answered(405) /\ OneTable /\ pathClean(exchange.req.path) = exchange.req.path =>
             \A m \in TableMethods \cup exchange.resp.allow :
                m \in exchange.resp.allow <=>
                  \E q \in {exchange.req.path} \cup
                             (IF RedirectTrailingSlash \/ HasSlash(exchange.req.path) THEN {}
                              ELSE {SlashForm(exchange.req.path)}) : Tried(exchange.req, m, q))
    BY Zenon DEF AllowIsHonest, Tried
  <2> QED
    BY <1>1, <2>1
<1>2. exchange # Idle /\ resp.status = 405
  BY <1>1 DEF Answered
<1>3. /\ Compiled /\ built /\ p \in Seq(Texts) /\ resp = Respond(req)
      /\ req = [method |-> req.method, host |-> req.host, path |-> p, star |-> req.star]
      /\ req.star => req.method = "OPTIONS"
  <2>1. resp.status # 500
    BY <1>2
  <2>2. /\ req = [method |-> req.method, host |-> req.host, path |-> req.path, star |-> req.star]
        /\ req.star => req.method = "OPTIONS"
    BY <1>1, <1>2, RecordFacts
  <2> QED
    BY <1>1, <1>2, <2>1, <2>2, AnsweredFacts
<1>4. \A path, want : Owner(req.host, path, want) = h
  BY <1>1 DEF OneTable, Owner
<1>5. IsClean(p)
  BY <1>3, CleanType
<1>6. /\ m \in resp.allow <=> \/ RoutesFor(h, p, m) # {}
                              \/ ~HasSlash(p) /\ RoutesFor(h, SlashForm(p), m) # {}
      /\ \A q : IsClean(q) =>
           (Tried(req, m, q) <=> Slashes(h, q, m) \/ RoutesFor(h, q, m) # {})
  <2>1. p = req.path
    BY <1>1
  <2>2. Honest(req, resp, h, m)
    BY <1>2, <1>3, <1>4, <1>5, <2>1, ListIsHonest
  <2> QED
    BY <2>1, <2>2 DEF Honest
<1>7. CASE RedirectTrailingSlash \/ HasSlash(p)
  BY <1>5, <1>6, <1>7 DEF Slashes
<1>8. CASE ~RedirectTrailingSlash /\ ~HasSlash(p)
  <2>1. IsClean(SlashForm(p))
    BY <1>5, <1>8, SlashClean
  <2> QED
    BY <1>5, <1>6, <1>8, <2>1 DEF Slashes
<1> QED
  BY <1>7, <1>8

\* Where no table of its own answers for the host, what it may use has no host.
LEMMA OneTableFacts ==
    ASSUME Compiled, NEW host, hostRoot(host) = "", NEW path
    PROVE  /\ Reachable(host, path) = RoutesFor("", path, AnyMethod)
           /\ TrieAt("") = EmptyTrie => Reachable(host, path) = {}
<1>1. \A k \in GoodRegs : Table[k].host = host => host = ""
  BY HostFacts
<1>2. Reachable(host, path) = RoutesFor("", path, AnyMethod)
  BY <1>1 DEF Reachable, RoutesFor
<1>3. TrieAt("") = EmptyTrie => \A k \in GoodRegs : Table[k].host # ""
  BY TrieFacts
<1> QED
  BY <1>2, <1>3 DEF RoutesFor

LEMMA NotFoundHolds == ASSUME IInv PROVE NotFoundIsHonest
<1>1. PICK req, path, host, resp :
        /\ req = exchange.req /\ path = req.path /\ host = req.host /\ resp = exchange.resp
  OBVIOUS
<1> SUFFICES ASSUME Answered(404), OneTable, path # <<>> PROVE NothingThere
  BY <1>1 DEF NotFoundIsHonest
<1>2. exchange # Idle /\ resp.status = 404
  BY <1>1 DEF Answered
<1>3. Compiled /\ built /\ path \in Seq(Texts) /\ resp = Respond(req)
  BY <1>1, <1>2, AnsweredFacts
<1>4. hostRoot(host) = ""
  BY <1>1 DEF OneTable
<1>5. \/ TrieAt("") = EmptyTrie
      \/ /\ RoutesFor("", path, AnyMethod) = {}
         /\ RedirectTrailingSlash /\ ~HasSlash(path) => RoutesFor("", SlashForm(path), AnyMethod) = {}
  <2>1. PICK goes, want, h : /\ goes = GoesBy(req) /\ want = methodID(req.method)
                             /\ h = Owner(req.host, goes, want)
    OBVIOUS
  <2>2. h = ""
    BY <1>1, <1>4, <2>1 DEF Owner
  <2>3. Verdict(req, goes, want, h, resp)
    <3>1. req.path \in Seq(Texts) /\ resp = Respond(req)
      BY <1>1, <1>3
    <3> QED
      BY <1>3, <2>1, <3>1, StatusSays
  <2>4. \/ ~Asks(req) /\ req.path = <<>>
        \/ TrieAt(h) = EmptyTrie
        \/ /\ goes = req.path /\ RoutesFor(h, goes, AnyMethod) = {}
           /\ RedirectTrailingSlash /\ ~HasSlash(goes)
                => RoutesFor(h, SlashForm(goes), AnyMethod) = {}
    BY <1>2, <2>3 DEF Verdict
  <2> QED
    BY <1>1, <2>2, <2>4
<1>6. \A q : /\ Reachable(host, q) = RoutesFor("", q, AnyMethod)
             /\ TrieAt("") = EmptyTrie => Reachable(host, q) = {}
  BY <1>3, <1>4, OneTableFacts
<1>7. Reachable(host, path) = {}
  BY <1>5, <1>6
<1>8. ASSUME RedirectTrailingSlash PROVE Reachable(host, SlashForm(path)) = {}
  <2>1. CASE TrieAt("") = EmptyTrie \/ ~HasSlash(path)
    BY <1>5, <1>6, <1>8, <2>1
  <2>2. CASE HasSlash(path)
    <3> SUFFICES ASSUME NEW k \in Reachable(host, SlashForm(path)) PROVE FALSE
      OBVIOUS
    <3>1. /\ k \in GoodRegs /\ Table[k].host \in {host, ""}
          /\ PathMatches(Table[k].segs, DecodePath(SlashForm(path)))
      BY DEF Reachable
    <3>2. RegsOK
      BY <1>3 DEF Compiled
    <3>3. PathMatches(Table[k].segs, DecodePath(path))
      BY <1>3, <2>2, <3>1, <3>2, SlashTwice
    <3> QED
      BY <1>7, <3>1, <3>3 DEF Reachable
  <2> QED
    BY <2>1, <2>2
<1> QED
  BY <1>1, <1>7, <1>8 DEF NothingThere

-----------------------------------------------------------------------------
(* Where redirects lead. *)

LEMMA RedirectsHold == ASSUME IInv PROVE RedirectsEnd
<1>1. ASSUME Answered(307)
      PROVE  \/ exchange.hops = 0
             \/ /\ exchange.hops = 1 /\ HasEscapes(exchange.asked.path)
                /\ pathClean(exchange.asked.path) # exchange.asked.path
  <2>1. exchange # Idle /\ exchange.resp.status = 307
    BY <1>1 DEF Answered
  <2>2. PICK asked, hops, req :
          /\ exchange.asked = asked /\ exchange.hops = hops /\ exchange.req = req
          /\ exchange.resp = Respond(req) /\ Sent(asked, hops, req)
    BY <2>1, UnderWay
  <2>3. Compiled /\ built
    BY <2>1, AnsweredFacts
  <2>4. Respond(req).status = 307
    BY <2>1, <2>2
  <2>5. CASE hops = 0
    BY <2>2, <2>5
  <2>6. CASE hops = 1
    BY <2>2, <2>3, <2>4, <2>6, SecondRedirect
  <2>7. CASE hops >= 2
    <3>1. IsClean(req.path) /\ HasSlash(req.path)
      <4>1. hops >= 1
        BY <2>2, <2>7 DEF Sent
      <4> QED
        BY <2>2, <2>7, <4>1 DEF Sent
    <3> QED
      BY <2>3, <2>4, <3>1, CleanRedirect
  <2> QED
    BY <2>2, <2>5, <2>6, <2>7, SentFacts
<1>2. ASSUME Answered(200), exchange.req.method # "CONNECT", exchange.resp.route # 0
      PROVE  pathClean(exchange.req.path) = exchange.req.path
  <2>1. GoesBy(exchange.req) = exchange.req.path
    BY <1>2, ServedFacts
  <2> QED
    BY <1>2, <2>1 DEF GoesBy
<1> QED
  BY <1>1, <1>2 DEF RedirectsEnd

\* A path without escapes and its clean form are the same URL path.
LEMMA SameUrl ==
    ASSUME NEW asked \in Requests, ~HasEscapes(asked.path), NEW p, p = pathClean(asked.path)
    PROVE  urlPath(asked.path) = asked.path /\ urlPath(p) = p
<1> DEFINE Plain(t) == t \notin DOMAIN Decoded \cup DOMAIN Slashed
<1>1. PICK a : a = asked.path /\ a \in Seq(Texts)
  BY RequestFacts
<1>2. \A i \in 1..Len(a) : Plain(a[i])
  <2>1. \A i \in 1..Len(a) : a[i] \in DOMAIN Decoded \cup DOMAIN Slashed => a[i] \in DOMAIN Escaped
    BY <1>1, RequestFacts
  <2>2. \A i \in 1..Len(a) : a[i] \notin DOMAIN Escaped
    <3>1. DOMAIN a = 1..Len(a)
      BY <1>1
    <3> QED
      BY <1>1, <3>1 DEF HasEscapes
  <2> QED
    BY <2>1, <2>2
<1>3. \A t : t = "" => Plain(t)
  BY TrieAssumption, RouterAssumption
<1>4. p \in Seq(Texts) /\ Within(p, a)
  <2>1. p = pathClean(a)
    BY <1>1
  <2> QED
    BY <1>1, <2>1, CleanIsClean, CleanSeq
<1>5. \A i \in 1..Len(p) : Plain(p[i])
  BY <1>2, <1>3, <1>4 DEF Within
<1> QED
  BY <1>1, <1>2, <1>4, <1>5, UrlFacts

\* A request gets what the request for its clean form gets, or a redirect there.
LEMMA DirectIs ==
    ASSUME Compiled, built, NEW asked \in Requests, asked.method # "CONNECT", ~asked.star,
           ~HasEscapes(asked.path), NEW p, p = pathClean(asked.path),
           NEW direct, direct = [asked EXCEPT !.path = p]
    PROVE  \/ Respond(asked) = Respond(direct)
           \/ /\ Respond(asked).status = 307 /\ Respond(asked).location = p
              /\ Respond(direct).status # 307
<1>1. /\ asked.path \in Seq(Texts)
      /\ asked = [method |-> asked.method, host |-> asked.host, path |-> asked.path,
                  star |-> asked.star]
  BY RequestFacts
<1>2. /\ direct.path = p /\ direct.method = asked.method /\ direct.host = asked.host
      /\ direct.star = asked.star /\ (p = asked.path => direct = asked)
  BY <1>1
<1>3. IsClean(p) /\ p \in Seq(Texts) /\ pathClean(p) = p
  BY <1>1, CleanType, CleanFixed
<1>4. GoesBy(asked) = p /\ GoesBy(direct) = p
  BY <1>2, <1>3 DEF GoesBy
<1>5. Asks(asked) /\ Asks(direct)
  BY <1>2 DEF Asks
<1>6. PICK want, h, ra, rd :
        /\ want = methodID(asked.method) /\ h = Owner(asked.host, p, want)
        /\ ra = Respond(asked) /\ rd = Respond(direct)
  OBVIOUS
<1>7. Reply(asked, p, want, h, ra)
  BY <1>1, <1>4, <1>5, <1>6, AsksReply
<1>8. Reply(direct, p, want, h, rd) /\ Verdict(direct, p, want, h, rd)
  <2>1. direct.path \in Seq(Texts) /\ want = methodID(direct.method) /\ h = Owner(direct.host, p, want)
    BY <1>2, <1>3, <1>6
  <2>2. p = GoesBy(direct) /\ rd = Respond(direct)
    BY <1>4, <1>6
  <2>3. Reply(direct, p, want, h, rd)
    BY <1>5, <2>1, <2>2, AsksReply
  <2>4. Verdict(direct, p, want, h, rd)
    BY <2>1, <2>2, StatusSays
  <2> QED
    BY <2>3, <2>4
<1>9. CASE TrieAt(h) = EmptyTrie
  BY <1>6, <1>7, <1>8, <1>9 DEF Reply
<1>10. CASE TrieAt(h) # EmptyTrie /\ Slashes(h, p, want)
  <2>1. urlPath(asked.path) = asked.path /\ urlPath(direct.path) = p
    BY <1>2, SameUrl
  <2>2. pathClean(urlPath(asked.path)) = p /\ pathClean(urlPath(direct.path)) = p
    BY <1>3, <2>1
  <2>3. ra = RedirectTo(SlashForm(p)) /\ rd = RedirectTo(SlashForm(p))
    BY <1>7, <1>8, <1>10, <2>2 DEF Reply
  <2> QED
    BY <1>6, <2>3
<1>11. CASE TrieAt(h) # EmptyTrie /\ ~Slashes(h, p, want) /\ p # asked.path
  <2>1. ra = RedirectTo(p)
    BY <1>7, <1>11 DEF Reply
  <2>2. NoEscapes(p)
    <3>1. Within(p, asked.path)
      BY <1>1, CleanIsClean
    <3> QED
      BY <1>1, <3>1, NoneGained
  <2>3. ra.status = 307 /\ ra.location = p
    BY <1>3, <2>1, <2>2, RedirectFacts
  <2>4. rd.status # 307
    BY <1>2, <1>8, <1>11 DEF Verdict
  <2> QED
    BY <1>6, <2>3, <2>4
<1>12. CASE p = asked.path
  BY <1>2, <1>12
<1> QED
  BY <1>9, <1>10, <1>11, <1>12

LEMMA CleanFormHolds == ASSUME IInv PROVE CleanFormReached
<1>1. PICK asked, hops, req, p, direct :
        /\ exchange.asked = asked /\ exchange.hops = hops /\ exchange.req = req
        /\ p = pathClean(asked.path) /\ direct = [asked EXCEPT !.path = p]
  OBVIOUS
<1> SUFFICES ASSUME exchange # Idle, hops = 1 \/ exchange.resp.status # 307,
                    asked.method # "CONNECT", ~asked.star, ~HasEscapes(asked.path)
             PROVE  IF Respond(direct).status = 307
                    THEN Respond(direct).location = req.path
                    ELSE Respond(direct) = exchange.resp
  BY <1>1 DEF CleanFormReached
<1>2. exchange.resp = Respond(req) /\ Sent(asked, hops, req)
  BY <1>1, UnderWay
<1>3. CASE ~built
  BY <1>2, <1>3, Unbuilt
<1>4. CASE built
  <2>1. Compiled
    BY <1>4 DEF IInv, Frozen
  <2>2. asked \in Requests
    BY <1>2 DEF Sent
  <2>3. \/ Respond(asked) = Respond(direct)
        \/ /\ Respond(asked).status = 307 /\ Respond(asked).location = p
           /\ Respond(direct).status # 307
    BY <1>1, <1>4, <2>1, <2>2, DirectIs
  <2>4. CASE hops = 0
    <3>1. req = asked /\ exchange.resp.status # 307
      BY <1>2, <2>4 DEF Sent
    <3> QED
      BY <1>2, <2>3, <3>1
  <2>5. CASE hops = 1
    <3>1. /\ Respond(asked).status = 307 /\ req.path = Respond(asked).location
          /\ req = [asked EXCEPT !.path = req.path]
      BY <1>2, <2>5 DEF Sent
    <3>2. CASE Respond(asked) = Respond(direct)
      BY <3>1, <3>2
    <3>3. CASE Respond(asked).location = p /\ Respond(direct).status # 307
      BY <1>1, <1>2, <3>1, <3>3
    <3> QED
      BY <2>3, <3>2, <3>3
  <2>6. CASE hops >= 2
    BY <1>2, <2>6 DEF Sent
  <2> QED
    BY <1>2, <2>4, <2>5, <2>6, SentFacts
<1> QED
  BY <1>3, <1>4

-----------------------------------------------------------------------------
(* The properties of the runs, for every table, request and bound. *)

\* The compiled tries hang together and their entries are routes of the table,
\* and a response has one of five statuses (router.go:104-161, 601-648, 665-755).
THEOREM RouterTyped == Spec => []TypeOK
BY RouterInv, TypeHolds, PTL

\* Build reports every ambiguous pair, whichever of the two algorithms its group
\* went to (router.go:343-346, 432-488).
THEOREM Reporting == ASSUME PathsSuffice PROVE Spec => []ConflictsReported
<1>1. IInv => ConflictsReported
  BY ReportHolds
<1> QED
  BY <1>1, RouterInv, PTL

\* And refuses no table for a pair that is not ambiguous.
THEOREM NoFalseReport == ASSUME PathsSuffice PROVE Spec => []NoFalseConflict
<1>1. IInv => NoFalseConflict
  BY ReportHolds
<1> QED
  BY <1>1, RouterInv, PTL

\* The walk, which commits edge by edge, serves the most specific route of those
\* that match, and a pattern of no host only where the host has none
\* (router.go:665-668, 702-711, 876-936).
THEOREM MostSpecific == ASSUME PathsSuffice PROVE Spec => []MostSpecificServed
<1>1. IInv => MostSpecificServed
  BY SpecificHolds
<1> QED
  BY <1>1, RouterInv, PTL

\* Path values are the served route's own, whatever edges the walk tried and left
\* (router.go:760-767, 904-934).
THEOREM OwnBindings == ASSUME ParamsFit PROVE Spec => []BindingsFromWinner
<1>1. IInv => BindingsFromWinner
  BY BindingsHold
<1> QED
  BY <1>1, RouterInv, PTL

\* The methods a 405 lists are those that would not be refused
\* (router.go:801-831).
THEOREM AllowHonest == Spec => []AllowIsHonest
BY RouterInv, AllowHolds, PTL

\* A 404 hides no 405 and no redirect where one table answers
\* (router.go:781-799).
THEOREM NotFoundHonest == Spec => []NotFoundIsHonest
BY RouterInv, NotFoundHolds, PTL

\* A redirect leads to another at most when cleaning met escapes, and a handler
\* runs for a clean path only (router.go:719-738, 769-779, 1006-1008).
THEOREM RedirectsTerminate == Spec => []RedirectsEnd
BY RouterInv, RedirectsHold, PTL

\* An unclean path without escapes gets, by its redirect, what its clean form
\* gets (router.go:1006-1008).
THEOREM CleanFormServed == Spec => []CleanFormReached
BY RouterInv, CleanFormHolds, PTL
=============================================================================
