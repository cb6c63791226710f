----------------------------- MODULE RouteTrie -----------------------------
(***************************************************************************)
(* The compiled segment trie of router.go and the walks over it.           *)
(*                                                                         *)
(* A path is the sequence of its segments as they are on the wire, and     *)
(* each is decoded once, as the walk comes to it.                          *)
(* A node is named by the edges that lead to it from its root: a literal   *)
(* text, "single" or "multi".  A trie is a function from its nodes to      *)
(* their handlers, and a node's handlers a function from the methods       *)
(* registered there to entries.                                            *)
(***************************************************************************)
EXTENDS RouteConflicts, SequencesExt

CONSTANTS
    MaxInlineParams,   \* maxInlineParams (8 in the code)
    Decoded            \* segments with percent-escapes, and what they decode to

ASSUME TrieAssumption ==
    /\ MaxInlineParams \in Nat
    /\ DOMAIN Decoded \subseteq STRING \ {""}
    /\ \A seg \in DOMAIN Decoded : Decoded[seg] \in STRING \ {""}

\* decodeSegmentFast.  It refuses an escape that is none, which url.URL's
\* EscapedPath never returns.
Decode(seg) == IF seg \in DOMAIN Decoded THEN Decoded[seg] ELSE seg

DecodePath(path) == [i \in DOMAIN path |-> Decode(path[i])]

NoHandlers == [m \in {} |-> 0]
EmptyTrie  == [n \in {} |-> NoHandlers]      \* a nil root

EdgeOf(s) == IF s.kind = "lit" THEN <<"lit", s.text>> ELSE <<s.kind>>

Shape(segs) == [i \in 1..Len(segs) |-> EdgeOf(segs[i])]

\* insert: create the nodes along the pattern, and register the entry at the
\* last unless the method has one there already.
insert(trie, p, entry) ==
    LET nodes == {SubSeq(Shape(p.segs), 1, i) : i \in 0..Len(p.segs)}
        grown == [n \in DOMAIN trie \cup nodes |->
                    IF n \in DOMAIN trie THEN trie[n] ELSE NoHandlers]
        last == Shape(p.segs)
    IN  [grown EXCEPT ![last] =
            [m \in DOMAIN @ \cup {p.method} |-> IF m \in DOMAIN @ THEN @[m] ELSE entry]]

Child(n, e) == Append(n, e)

\* serves: AnyMethod is the negative id of the code, which asks for any handler --
\* and which methodID also gives a method no pattern registers.
AnyMethod == "any"

serves(trie, n, want) ==
    LET methods == DOMAIN trie[n] IN
    IF want = AnyMethod THEN methods # {}
    ELSE want \in methods \/ (want = "HEAD" /\ "GET" \in methods)

\* The array of bindings is one for the whole walk: an edge that leads nowhere
\* leaves behind what it wrote, and only the count nv goes back.  A value is kept
\* as the place it has in the path, its first segment and its last.
NoVals == [i \in 1..MaxInlineParams |-> <<1, 0>>]

Put(vals, nv, v) == IF nv < MaxInlineParams THEN [vals EXCEPT ![nv + 1] = v] ELSE vals
Up(nv) == IF nv < MaxInlineParams THEN nv + 1 ELSE nv

Miss(vals) == [found |-> FALSE, vals |-> vals]
Match(n, vals, nv) == [found |-> TRUE, node |-> n, vals |-> vals, nv |-> nv]

\* Where a call of matchSegments may be: its node, the array and the count.
Cursors(trie, len) ==
    [node : DOMAIN trie, vals : [1..MaxInlineParams -> (1..len + 1) \X (0..len)],
     nv : 0..MaxInlineParams]

\* The call made on the child c, if there is one; below answers it.
Enter(trie, below, c, vals, nv) ==
    IF c \in DOMAIN trie THEN below[[node |-> c, vals |-> vals, nv |-> nv]] ELSE Miss(vals)

\* The wildcard edge takes the path from its segment i to the last.
TryMulti(trie, path, want, i, at, vals, nv) ==
    LET multi == Child(at.node, <<"multi">>) IN
    IF multi \in DOMAIN trie /\ serves(trie, multi, want)
    THEN Match(multi, Put(vals, nv, <<i, Len(path)>>), Up(nv)) ELSE Miss(vals)

\* Mutation: a literal edge that exists is taken for good.
TryEdgesNoBacktrack(trie, path, want, below, i, at) ==
    LET seg == Decode(path[i])
        lit == Child(at.node, <<"lit", seg>>)
        single == Child(at.node, <<"single">>)
    IN  IF lit \in DOMAIN trie THEN Enter(trie, below, lit, at.vals, at.nv)
        ELSE IF seg # "" /\ single \in DOMAIN trie
        THEN Enter(trie, below, single, Put(at.vals, at.nv, <<i, i>>), Up(at.nv))
        ELSE TryMulti(trie, path, want, i, at, at.vals, at.nv)

\* Mutation: the count does not go back after a parameter edge that led nowhere.
TryEdgesLeaky(trie, path, want, below, i, at) ==
    LET seg == Decode(path[i])
        param == seg # "" /\ Child(at.node, <<"single">>) \in DOMAIN trie
        lit == Enter(trie, below, Child(at.node, <<"lit", seg>>), at.vals, at.nv)
        single == IF param THEN Enter(trie, below, Child(at.node, <<"single">>),
                                      Put(lit.vals, at.nv, <<i, i>>), Up(at.nv))
                  ELSE Miss(lit.vals)
    IN  IF lit.found THEN lit
        ELSE IF single.found THEN single
        ELSE TryMulti(trie, path, want, i, at, single.vals, IF param THEN Up(at.nv) ELSE at.nv)

\* One call at segment i: literal, then parameter, then wildcard; an edge that
\* leads nowhere does not keep the next from being tried.
TryEdges(trie, path, want, below, i, at) ==
    LET seg == Decode(path[i])
        param == seg # "" /\ Child(at.node, <<"single">>) \in DOMAIN trie
        lit == Enter(trie, below, Child(at.node, <<"lit", seg>>), at.vals, at.nv)
        single == IF param THEN Enter(trie, below, Child(at.node, <<"single">>),
                                      Put(lit.vals, at.nv, <<i, i>>), Up(at.nv))
                  ELSE Miss(lit.vals)
    IN  IF lit.found THEN lit
        ELSE IF single.found THEN single
        ELSE TryMulti(trie, path, want, i, at, single.vals, at.nv)

\* Behind the last segment the node has to serve the method.
Ends(trie, path, want) ==
    [at \in Cursors(trie, Len(path)) |->
        IF serves(trie, at.node, want) THEN Match(at.node, at.vals, at.nv) ELSE Miss(at.vals)]

\* The calls at segment i, given what those at the next one answer.
CallsAt(trie, path, want, below, i) ==
    [at \in Cursors(trie, Len(path)) |-> TryEdges(trie, path, want, below, i, at)]

\* Entry d is the calls on the last d segments of the path.
matchSegments(trie, path, want) ==
    LET calls[d \in 0..Len(path)] ==
          IF d = 0 THEN Ends(trie, path, want)
          ELSE CallsAt(trie, path, want, calls[d - 1], Len(path) - d + 1)
    IN  calls

Root == <<>>

\* A walk from the root into the array vals; a nil root matches nothing.
walkFrom(trie, path, want, vals) ==
    IF trie = EmptyTrie THEN Miss(vals)
    ELSE matchSegments(trie, path, want)[Len(path)][[node |-> Root, vals |-> vals, nv |-> 0]]

lookupPath(trie, path, want) == walkFrom(trie, path, want, NoVals).found

\* addMethods: GET implies HEAD.
addMethods(trie, n) ==
    IF n \notin DOMAIN trie THEN {}
    ELSE DOMAIN trie[n] \cup (IF "GET" \in DOMAIN trie[n] THEN {"HEAD"} ELSE {})

\* Every node that matches the path contributes, not only the one that wins.
CollectAt(trie, path, below, i) ==
    LET seg == Decode(path[i])
        At(c) == IF c \in DOMAIN trie THEN below[c] ELSE {}
    IN  [n \in DOMAIN trie |->
           At(Child(n, <<"lit", seg>>))
           \cup (IF seg = "" THEN {} ELSE At(Child(n, <<"single">>)))
           \cup addMethods(trie, Child(n, <<"multi">>))]

\* Entry d is the calls on the last d segments.
collects(trie, path) ==
    LET calls[d \in 0..Len(path)] ==
          IF d = 0 THEN [n \in DOMAIN trie |-> addMethods(trie, n)]
          ELSE CollectAt(trie, path, calls[d - 1], Len(path) - d + 1)
    IN  calls

collectMethods(trie, path) == collects(trie, path)[Len(path)][Root]

HasSlash(path) == path[Len(path)] = ""
SlashForm(path) == Append(path, "")

\* Mutation: the trailing-slash form is left out.
allowValueBare(trie, path) == collectMethods(trie, path)

allowValue(trie, path) ==
    collectMethods(trie, path)
    \cup (IF HasSlash(path) THEN {} ELSE collectMethods(trie, SlashForm(path)))
=============================================================================
