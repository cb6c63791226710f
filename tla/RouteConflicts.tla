--------------------------- MODULE RouteConflicts ---------------------------
(***************************************************************************)
(* Build's conflict detection (router.go): the table is grouped by method  *)
(* and host, and a group too large to compare pair by pair is split on the *)
(* literals at one position after another.  Routes are identified by their *)
(* index in the parsed table, and the errors by the pairs they name.       *)
(***************************************************************************)
EXTENDS RoutePattern, FiniteSetsExt

CONSTANT PairwiseLimit   \* pairwiseLimit (32 in the code)

ASSUME PairwiseAssumption == PairwiseLimit \in Nat

\* pairwise: every conflicting pair of the group g, a set of indices of table.
pairwise(table, g) ==
    {{p[1], p[2]} : p \in {x \in g \X g : /\ x[1] < x[2]
                                          /\ Conflicting(table[x[1]], table[x[2]])}}

LitAt(p, depth) == depth <= Len(p.segs) /\ p.segs[depth].kind = "lit"

\* Mutation: patterns without a literal here do not join the buckets.
SplitLiteralsOnly(table, g, depth) ==
    LET lits  == {i \in g : LitAt(table[i], depth)}
        texts == {table[i].segs[depth].text : i \in lits}
    IN  IF Cardinality(g) <= PairwiseLimit \/ Cardinality(texts) < 2 THEN {}
        ELSE {{i \in lits : table[i].segs[depth].text = t} : t \in texts} \cup {g \ lits}

\* The groups one call of scanGroup goes on with; none if it compares pairs.  A
\* pattern with no literal at this depth (a wildcard, or one that has ended) can
\* match alongside any literal, so it joins every bucket.
Split(table, g, depth) ==
    LET lits  == {i \in g : LitAt(table[i], depth)}
        wild  == g \ lits
        texts == {table[i].segs[depth].text : i \in lits}
    IN  IF Cardinality(g) <= PairwiseLimit \/ Cardinality(texts) < 2 THEN {}
        ELSE {{i \in lits : table[i].segs[depth].text = t} \cup wild : t \in texts}
               \cup {wild}

SplitAll(table, groups, depth) == UNION {Split(table, g, depth) : g \in groups}

\* No pattern has a literal this deep.
Deepest(table) == 1 + Max({Len(table[i].segs) : i \in DOMAIN table} \cup {0})

\* The recursion of scanGroup from g on: entry d is the groups it is called with
\* behind d splits.
Calls(table, g) ==
    LET groups[d \in 0..Deepest(table)] ==
          IF d = 0 THEN {g} ELSE SplitAll(table, groups[d - 1], d)
    IN  groups

\* What the calls find: seen drops what two of them report.
scanGroup(table, g) ==
    UNION {pairwise(table, c) :
             c \in UNION {{x \in Calls(table, g)[d - 1] : Split(table, x, d) = {}}
                            : d \in 1..Deepest(table)}}

\* Mutation: routes are grouped by method alone.
detectConflictsAnyHost(table) ==
    UNION {scanGroup(table, {j \in DOMAIN table : table[j].method = table[i].method})
             : i \in DOMAIN table}

detectConflicts(table) ==
    UNION {scanGroup(table, {j \in DOMAIN table : /\ table[j].method = table[i].method
                                                  /\ table[j].host = table[i].host})
             : i \in DOMAIN table}
=============================================================================
