---------------------------- MODULE RoutePattern ----------------------------
(***************************************************************************)
(* router.go: patterns, and the relation between two of them that decides  *)
(* whether a table is unambiguous.                                         *)
(*                                                                         *)
(* A path is the sequence of its decoded segments: /a/b is <<a, b>>, a     *)
(* trailing slash leaves an empty last segment, and / is <<"">>.  A        *)
(* registered pattern is a method, a host ("" for none) and a sequence of  *)
(* raw segments, each the shape parseSegment tells apart:                  *)
(*    text    a literal, "" between or after slashes                       *)
(*    param   {name}        star   *        end   {$}                      *)
(*    bad     anything it refuses: mixed, unterminated, a bad escape       *)
(***************************************************************************)
EXTENDS Integers, FiniteSets, Sequences

\* Parsed segments.
Lit(t)    == [kind |-> "lit",    text |-> t]
Single(x) == [kind |-> "single", text |-> x]
Multi(x)  == [kind |-> "multi",  text |-> x]

IsMulti(s) == s.kind = "multi"
IsWild(s)  == s.kind \in {"single", "multi"}

parseSegment(raw) ==
    CASE raw.form = "star"  -> Multi("*")
      [] raw.form = "end"   -> Lit("")
      [] raw.form = "param" -> Single(raw.text)
      [] raw.form \in {"text", "bad"} -> Lit(raw.text)

BadMethods == {"", "G T"}   \* empty, or not a token

\* Why parsePattern refuses a registration: no such reason, no error.
PatternBad(reg) ==
    LET n == Len(reg.route)
        s == [i \in 1..n |-> parseSegment(reg.route[i])]
    IN  \/ reg.method \in BadMethods
        \/ n = 0                                            \* no leading slash
        \/ \E i \in 1..n : reg.route[i].form = "bad"
        \/ \E i \in 1..(n - 1) : s[i] = Lit("") \/ IsMulti(s[i])
        \/ \E i, j \in 1..n : i < j /\ IsWild(s[i]) /\ IsWild(s[j]) /\ s[i].text = s[j].text

\* The segments of a good pattern; a trailing slash is the subtree wildcard.
Segments(reg) ==
    [i \in 1..Len(reg.route) |->
        IF reg.route[i] = [form |-> "text", text |-> ""] THEN Multi("")
        ELSE parseSegment(reg.route[i])]

\* The wildcard names in match order; "" and anonymous wildcards bind nothing.
Named(names, s) == IF IsWild(s) THEN Append(names, s.text) ELSE names

\* Entry i is the names of the first i segments.
NamesUpTo(segs) ==
    LET names[i \in 0..Len(segs)] == IF i = 0 THEN <<>> ELSE Named(names[i - 1], segs[i])
    IN  names

WildNames(segs) == NamesUpTo(segs)[Len(segs)]

parsePattern(reg) ==
    [method |-> reg.method, host |-> reg.host, segs |-> Segments(reg),
     names |-> WildNames(Segments(reg))]

-----------------------------------------------------------------------------
(* The relation between patterns. *)

Relations == {"equivalent", "moreGeneral", "moreSpecific", "overlaps", "disjoint"}

combineRel(a, b) ==
    IF "disjoint" \in {a, b} THEN "disjoint"
    ELSE IF a = "equivalent" THEN b
    ELSE IF b = "equivalent" \/ a = b THEN a
    ELSE "overlaps"

\* Two non-multi segments at the same position.
compareSegs(s1, s2) ==
    CASE s1.kind = "lit" /\ s2.kind = "lit" ->
            IF s1.text = s2.text THEN "equivalent" ELSE "disjoint"
      [] s1.kind = "lit" /\ s2.kind # "lit" ->
            IF s1.text = "" THEN "disjoint" ELSE "moreSpecific"
      [] s1.kind # "lit" /\ s2.kind = "lit" ->
            IF s2.text = "" THEN "disjoint" ELSE "moreGeneral"
      [] s1.kind # "lit" /\ s2.kind # "lit" -> "equivalent"

\* What a multi on either side says of the rest of both patterns.
compareTails(s1, s2) ==
    IF IsMulti(s1) /\ IsMulti(s2) THEN "equivalent"
    ELSE IF IsMulti(s1) THEN "moreGeneral" ELSE "moreSpecific"

Common(p1, p2) == IF Len(p1) <= Len(p2) THEN Len(p1) ELSE Len(p2)

\* The verdict on position i of both.
compareAt(p1, p2, i) ==
    IF IsMulti(p1[i]) \/ IsMulti(p2[i]) THEN compareTails(p1[i], p2[i])
    ELSE compareSegs(p1[i], p2[i])

\* The loop over positions: entry i is its rel behind position i.
relAfter(p1, p2) ==
    LET rel[i \in 0..Common(p1, p2)] ==
          IF i = 0 THEN "equivalent" ELSE combineRel(rel[i - 1], compareAt(p1, p2, i))
    IN  rel

\* The loop stops at the first multi, or where the shorter pattern ends.
comparePaths(p1, p2) ==
    LET multis == {i \in 1..Common(p1, p2) : IsMulti(p1[i]) \/ IsMulti(p2[i])}
    IN  IF multis # {}
        THEN relAfter(p1, p2)[CHOOSE i \in multis : \A j \in multis : i <= j]
        ELSE IF Len(p1) = Len(p2) THEN relAfter(p1, p2)[Len(p1)] ELSE "disjoint"

Conflicting(p, q) ==
    comparePaths(p.segs, q.segs) \in {"equivalent", "overlaps"}

-----------------------------------------------------------------------------
(* What a pattern means: the reference the rest is checked against. *)

SegMatches(s, seg) == IF s.kind = "lit" THEN s.text = seg ELSE seg # ""

\* A final multi takes one or more remaining segments, empty ones included.
PathMatches(segs, path) ==
    LET n == Len(segs) IN
    IF IsMulti(segs[n])
    THEN Len(path) >= n /\ \A i \in 1..(n - 1) : SegMatches(segs[i], path[i])
    ELSE Len(path) = n /\ \A i \in 1..n : SegMatches(segs[i], path[i])
=============================================================================
