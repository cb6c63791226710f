------------------------------- MODULE Router -------------------------------
(***************************************************************************)
(* router.go: a Router from New through Handle, Use and Build to           *)
(* ServeHTTP.  Registrations and requests come from constant sets; Build   *)
(* compiles the tries of module RouteTrie and freezes them; ServeHTTP is   *)
(* one step, since it reads only what Build froze.                         *)
(*                                                                         *)
(* A request's path is what url.URL's EscapedPath returns, in segments; its *)
(* host is the authority without its port and in lower case, which is what *)
(* hostRoot compares.                                                      *)
(***************************************************************************)
EXTENDS RouteTrie

CONSTANTS
    Registrations,          \* sequence of the calls of Handle there may be
    Requests,               \* what may be asked of the router
    Paths,                  \* paths enough to tell any two patterns apart
    MaxRoutes, MaxUses,     \* bounds on the registrations and the Use calls
    MaxLate,                \* bound on the setup calls made after Build
    DotNames,               \* segments that begin or end with a dot, . and .. aside
    RedirectModes,          \* what the field RedirectTrailingSlash is set to
    Escaped,                \* texts that need escaping, and how they are escaped
    Slashed                 \* texts with a slash in them, and the segments between

\* No pattern has the name the model gives to "any method", no request but
\* OPTIONS is about the server, and what decodes or has a slash needs escaping.
ASSUME RouterAssumption ==
    /\ Registrations \in Seq([method : STRING \ {AnyMethod}, host : STRING,
                              route : Seq([form : {"text", "param", "star", "end", "bad"},
                                           text : STRING])])
    /\ Requests \subseteq [method : STRING, host : STRING, path : Seq(STRING), star : BOOLEAN]
    /\ \A req \in Requests :
         /\ req.star => req.method = "OPTIONS"
         /\ \A i \in DOMAIN req.path :
              req.path[i] \in DOMAIN Decoded \cup DOMAIN Slashed => req.path[i] \in DOMAIN Escaped
    /\ MaxRoutes \in Nat /\ MaxUses \in Nat /\ MaxLate \in Nat
    /\ RedirectModes \subseteq BOOLEAN
    /\ \A text \in DOMAIN Escaped : Escaped[text] \in STRING /\ Decode(Escaped[text]) = text
    /\ "" \notin DOMAIN Slashed /\ \A text \in DOMAIN Slashed : Slashed[text] \in Seq(STRING)

VARIABLES
    RedirectTrailingSlash,   \* the field of that name
    regs,        \* what Handle recorded, as indices of Registrations
    mws,         \* number of middlewares
    errs,        \* errors recorded, as [kind, at]
    built,
    roots,       \* host -> trie
    allowAll,    \* every method of the table
    report,      \* what the last Build returned
    late,        \* setup calls made after Build
    exchange     \* a request, as first asked and now, and its response

table == <<RedirectTrailingSlash, regs, mws, built, roots, allowAll>>
vars == <<table, errs, report, late, exchange>>

Idle == [req |-> "none"]

CommonMethods ==
    {"GET", "HEAD", "POST", "PUT", "PATCH", "DELETE", "OPTIONS", "CONNECT", "TRACE"}

-----------------------------------------------------------------------------
(* Registration and Build. *)

Init ==
    /\ RedirectTrailingSlash \in RedirectModes
    /\ regs = <<>> /\ mws = 0 /\ errs = {} /\ built = FALSE
    /\ roots = [h \in {} |-> EmptyTrie] /\ allowAll = {}
    /\ report = {} /\ late = 0
    /\ exchange = Idle

\* The caller registers in the order of Registrations: which of two routes
\* comes first matters only when they conflict.
Handle(i) ==
    /\ ~built /\ exchange = Idle
    /\ Len(regs) < MaxRoutes
    /\ regs # <<>> => i > regs[Len(regs)]
    /\ regs' = Append(regs, i)
    /\ UNCHANGED <<RedirectTrailingSlash, mws, built, roots, allowAll, errs, report, late, exchange>>

\* Mutation: no guard, so a late Use is taken.
UseUnguarded ==
    /\ exchange = Idle /\ mws < MaxUses
    /\ mws' = mws + 1
    /\ UNCHANGED <<RedirectTrailingSlash, regs, built, roots, allowAll, errs, report, late, exchange>>

Use ==
    /\ ~built /\ exchange = Idle /\ mws < MaxUses
    /\ mws' = mws + 1
    /\ UNCHANGED <<RedirectTrailingSlash, regs, built, roots, allowAll, errs, report, late, exchange>>

\* After Build, Handle and Use only record an error.
SetupLate(call) ==
    /\ built /\ exchange = Idle /\ late < MaxLate
    /\ late' = late + 1
    /\ errs' = errs \cup {[kind |-> call, at |-> {}]}
    /\ UNCHANGED <<table, report, exchange>>

\* A second Build reports itself and nothing else.
BuildAgain ==
    /\ built /\ exchange = Idle /\ late < MaxLate
    /\ late' = late + 1
    /\ report' = {[kind |-> "Build called twice", at |-> {}]}
    /\ UNCHANGED <<table, errs, exchange>>

Reg(k) == Registrations[regs[k]]

GoodRegs == {k \in DOMAIN regs : ~PatternBad(Reg(k))}

Parsed == [i \in DOMAIN Registrations |-> parsePattern(Registrations[i])]

\* The parsed table, indexed like regs.
Table == [k \in GoodRegs |-> Parsed[regs[k]]]

TableMethods == {Table[k].method : k \in GoodRegs}

\* insert, into the trie of the route's host.
InsertRoute(tries, k, p) ==
    LET trie == IF p.host \in DOMAIN tries THEN tries[p.host] ELSE [n \in {Root} |-> NoHandlers]
    IN  [h \in DOMAIN tries \cup {p.host} |->
           IF h = p.host THEN insert(trie, p, [route |-> k, mws |-> mws]) ELSE tries[h]]

\* The loop over the parsed table: entry k is the tries behind route k.
Compile(parsed) ==
    LET tries[k \in 0..Len(regs)] ==
          IF k = 0 THEN [h \in {} |-> EmptyTrie]
          ELSE IF k \in DOMAIN parsed THEN InsertRoute(tries[k - 1], k, parsed[k])
          ELSE tries[k - 1]
    IN  tries

Build ==
    /\ ~built /\ exchange = Idle
    /\ errs' = errs \cup {[kind |-> "pattern", at |-> {k}] : k \in DOMAIN regs \ GoodRegs}
                    \cup {[kind |-> "conflict", at |-> pair] : pair \in detectConflicts(Table)}
    /\ roots' = Compile(Table)[Len(regs)]
    /\ allowAll' = LET ms == {Reg(k).method : k \in DOMAIN regs} \ {""}
                   IN  ms \cup (IF "GET" \in ms THEN {"HEAD"} ELSE {})
    /\ built' = TRUE
    /\ report' = errs'
    /\ UNCHANGED <<RedirectTrailingSlash, regs, mws, late, exchange>>

-----------------------------------------------------------------------------
(* Paths. *)

\* One segment of path.Clean: an empty one and . go, .. takes the one before.
CleanStep(kept, seg) ==
    IF seg \in {"", "."} THEN kept
    ELSE IF seg # ".." THEN Append(kept, seg)
    ELSE IF kept = <<>> THEN <<>> ELSE Front(kept)

\* Entry i is what is kept of the first i segments.
CleanLoop(path) ==
    LET kept[i \in 0..Len(path)] == IF i = 0 THEN <<>> ELSE CleanStep(kept[i - 1], path[i])
    IN  kept

\* Mutation: path.Clean alone, which drops a trailing slash.
pathCleanBare(path) ==
    LET kept == CleanLoop(path)[Len(path)] IN IF kept = <<>> THEN <<"">> ELSE kept

\* path.Clean, and the trailing slash it drops.
pathClean(path) ==
    LET kept == CleanLoop(path)[Len(path)] IN
    IF kept = <<>> THEN <<"">> ELSE IF HasSlash(path) THEN SlashForm(kept) ELSE kept

Dotted == {".", ".."} \cup DotNames

\* Mutation: only a doubled slash is looked for.
needsCleanSlashes(path) ==
    path = <<>> \/ \E i \in 1..(Len(path) - 1) : path[i] = ""

needsClean(path) ==
    \/ path = <<>>
    \/ \E i \in 1..(Len(path) - 1) : path[i] = ""
    \/ \E i \in DOMAIN path : path[i] \in Dotted

cleanPath(path) ==
    IF ~needsClean(path) THEN path
    ELSE IF path = <<>> THEN <<"">> ELSE pathClean(path)

\* The path of a URL, decoded: an escaped slash now divides segments.
urlPath(path) ==
    FlattenSeq([i \in DOMAIN path |->
        LET text == Decode(path[i]) IN IF text \in DOMAIN Slashed THEN Slashed[text] ELSE <<text>>])

-----------------------------------------------------------------------------
(* ServeHTTP. *)

NotFound          == [status |-> 404]
NotAllowed(allow) == [status |-> 405, allow |-> allow]

\* The target is taken for a decoded path and escaped, and http.Redirect cleans
\* what comes of it.
RedirectTo(path) ==
    [status |-> 307,
     location |-> pathClean([i \in DOMAIN path |->
                     IF path[i] \in DOMAIN Escaped THEN Escaped[path[i]] ELSE path[i]])]

\* methodID; an unregistered method of its own gets the id that asks for any.
methodID(m) == IF m \in CommonMethods \cup TableMethods THEN m ELSE AnyMethod

hasHostRoutes == \E h \in DOMAIN roots : h # ""

hostRoot(host) == IF hasHostRoutes /\ host \in DOMAIN roots THEN host ELSE ""

TrieAt(h) == IF h \in DOMAIN roots THEN roots[h] ELSE EmptyTrie

\* The first n values walked, under their names; "" binds nothing.
PathValues(names, vals, n, path) ==
    LET bound == {i \in 1..n : names[i] # ""}
        Value(v) == SubSeq(DecodePath(path), v[1], v[2])
    IN  [x \in {names[i] : i \in bound} |-> Value(vals[CHOOSE i \in bound : names[i] = x])]

\* serveEntry: the values go by the names of the entry served.
serveEntry(entry, vals, nv, path) ==
    LET names == Table[entry.route].names
        n == IF nv <= Len(names) THEN nv ELSE Len(names)
    IN  [status |-> 200, route |-> entry.route, mws |-> entry.mws,
         params |-> PathValues(names, vals, n, path)]

serveNoRoute(trie, path) ==
    IF lookupPath(trie, path, AnyMethod) THEN NotAllowed(allowValue(trie, path))
    ELSE IF /\ RedirectTrailingSlash /\ ~HasSlash(path)
            /\ lookupPath(trie, SlashForm(path), AnyMethod)
    THEN NotAllowed(allowValue(trie, path))
    ELSE NotFound

\* Mutation: the patterns of no host are asked first.
WalkHostlessFirst(host, path, want) ==
    LET any == walkFrom(TrieAt(""), path, want, NoVals) IN
    IF any.found THEN [trie |-> TrieAt(""), match |-> any]
    ELSE [trie |-> TrieAt(hostRoot(host)),
          match |-> walkFrom(TrieAt(hostRoot(host)), path, want, NoVals)]

\* The trie asked in the end and what it found: the host's, and failing that
\* the hostless one.
Walk(host, path, want) ==
    LET own == walkFrom(TrieAt(hostRoot(host)), path, want, NoVals) IN
    IF own.found \/ hostRoot(host) = ""
    THEN [trie |-> TrieAt(hostRoot(host)), match |-> own]
    ELSE [trie |-> TrieAt(""), match |-> walkFrom(TrieAt(""), path, want, own.vals)]

\* A walk ended at a node: run its handler for the method.
serveNode(trie, m, path, want) ==
    LET handlers == trie[m.node] IN
    IF want \in DOMAIN handlers THEN serveEntry(handlers[want], m.vals, m.nv, path)
    ELSE IF want = "HEAD" /\ "GET" \in DOMAIN handlers
    THEN serveEntry(handlers["GET"], m.vals, m.nv, path)
    ELSE NotAllowed(allowValue(trie, path))

\* What a request whose path is path, cleaned or not, is answered.
Route(req, path, want) ==
    LET w == Walk(req.host, path, want)
        trie == w.trie
    IN  IF trie = EmptyTrie THEN NotFound
        ELSE IF /\ ~w.match.found /\ RedirectTrailingSlash /\ ~HasSlash(path)
                /\ lookupPath(trie, SlashForm(path), want)
        THEN RedirectTo(SlashForm(cleanPath(urlPath(req.path))))
        ELSE IF path # req.path THEN RedirectTo(path)
        ELSE IF ~w.match.found THEN serveNoRoute(trie, path)
        ELSE serveNode(trie, w.match, path, want)

Respond(req) ==
    IF ~built THEN [status |-> 500]
    ELSE IF req.method = "OPTIONS" /\ req.star
    THEN [status |-> 200, route |-> 0, allow |-> allowAll]
    ELSE IF req.method = "CONNECT"
    THEN IF req.path = <<>> THEN NotFound ELSE Route(req, req.path, "CONNECT")
    ELSE Route(req, cleanPath(req.path), methodID(req.method))

ServeHTTP(req) ==
    /\ exchange = Idle
    /\ exchange' = [asked |-> req, hops |-> 0, req |-> req, resp |-> Respond(req)]
    /\ UNCHANGED <<table, errs, report, late>>

\* The client asks again where a redirect sent it.
Follow ==
    /\ exchange # Idle /\ exchange.resp.status = 307
    /\ \E path \in {exchange.resp.location} : LET req == [exchange.req EXCEPT !.path = path] IN
         exchange' = [exchange EXCEPT !.hops = @ + 1, !.req = req, !.resp = Respond(req)]
    /\ UNCHANGED <<table, errs, report, late>>

\* The exchange is over.
Finish ==
    /\ exchange # Idle
    /\ exchange' = Idle
    /\ UNCHANGED <<table, errs, report, late>>

Next ==
    \/ \E i \in DOMAIN Registrations : Handle(i)
    \/ Use \/ Build \/ BuildAgain
    \/ \E call \in {"Handle after Build", "Use after Build"} : SetupLate(call)
    \/ \E req \in Requests : ServeHTTP(req)
    \/ Follow \/ Finish

Spec == Init /\ [][Next]_vars
-----------------------------------------------------------------------------
(* Properties. *)

\* A compiled trie hangs together, and its entries are routes of the table
\* behind every middleware that was ever accepted.
TypeOK ==
    /\ regs \in Seq(DOMAIN Registrations) /\ Len(regs) <= MaxRoutes
    /\ mws \in 0..MaxUses /\ late \in 0..MaxLate /\ built \in BOOLEAN
    /\ \A e \in errs \cup report : e.at \subseteq DOMAIN regs
    /\ \A h \in DOMAIN roots, n \in UNION {DOMAIN roots[g] : g \in DOMAIN roots} :
         n \in DOMAIN roots[h] =>
           /\ n = Root \/ Front(n) \in DOMAIN roots[h]
           /\ \A m \in DOMAIN roots[h][n] :
                roots[h][n][m] \in [route : GoodRegs, mws : {mws}]
    /\ exchange # Idle => exchange.resp.status \in {200, 307, 404, 405, 500}

\* The paths of Paths a route matches, by what patterns mean.
Meanings ==
    [i \in DOMAIN Registrations |->
        IF PatternBad(Registrations[i]) THEN {}
        ELSE {path \in Paths : PathMatches(Parsed[i].segs, path)}]

Meaning(k) == Meanings[regs[k]]

\* Paths has an example wherever two patterns meet or differ; by theorem
\* RelationTrue, comparePaths says where that is.
PathsTellApart ==
    /\ Paths \subseteq Seq(STRING)
    /\ \A i, j \in DOMAIN Registrations :
         ~PatternBad(Registrations[i]) /\ ~PatternBad(Registrations[j]) =>
           LET rel == comparePaths(Parsed[i].segs, Parsed[j].segs) IN
           /\ rel # "disjoint" => Meanings[i] \cap Meanings[j] # {}
           /\ rel \notin {"equivalent", "moreSpecific"} => ~(Meanings[i] \subseteq Meanings[j])

StrictlyWithin(k, l) == Meaning(k) \subseteq Meaning(l) /\ Meaning(k) # Meaning(l)

\* Some request matches both routes and neither is more specific.
Ambiguous(k, l) ==
    /\ Table[k].method = Table[l].method /\ Table[k].host = Table[l].host
    /\ Meaning(k) \cap Meaning(l) # {}
    /\ ~StrictlyWithin(k, l) /\ ~StrictlyWithin(l, k)

Reported == {e.at : e \in {x \in errs : x.kind = "conflict"}}

\* Build reports every ambiguous pair of routes, however the groups were split
\* (router.go:343-346, 432-488).
ConflictsReported ==
    built => \A k, l \in GoodRegs : k < l /\ Ambiguous(k, l) => {k, l} \in Reported

\* And it refuses no table for a pair that has an answer.
NoFalseConflict ==
    built => \A pair \in Reported : \E k, l \in pair : k < l /\ Ambiguous(k, l)

-----------------------------------------------------------------------------
Answered(status) == exchange # Idle /\ exchange.resp.status = status

\* A table Build accepted.
Accepted == built /\ errs = {}

\* The routes a request's host may use: its own, and those of no host.
Reachable(host, path) ==
    {k \in GoodRegs :
        Table[k].host \in {host, ""} /\ PathMatches(Table[k].segs, DecodePath(path))}

Answers(k, m) == Table[k].method = m \/ (m = "HEAD" /\ Table[k].method = "GET")

\* A handler runs only for a request its pattern matches, and no pattern of its
\* method and host that matches it is more specific: the walk, which commits
\* edge by edge, finds what the meaning of the patterns selects (router.go
\* 665-668, 876-936).  A pattern for any host runs only when the request's own
\* host has none that answers (router.go:702-711).
MostSpecificServed ==
    Answered(200) /\ exchange.resp.route # 0 =>
        LET k == exchange.resp.route
            req == exchange.req
            matching == Reachable(req.host, req.path)
        IN  /\ k \in matching /\ Answers(k, req.method)
            /\ \A l \in matching :
                 /\ Table[l].method = Table[k].method /\ Table[l].host = Table[k].host
                      => ~StrictlyWithin(l, k)
                 /\ Table[k].host = "" /\ Answers(l, req.method) => Table[l].host = ""

\* What the named wildcards of a pattern stand for in a path it matches.
Bindings(segs, path) ==
    LET at(x) == CHOOSE j \in DOMAIN segs : IsWild(segs[j]) /\ segs[j].text = x
    IN  [x \in {segs[i].text : i \in {j \in DOMAIN segs : IsWild(segs[j])}} \ {""} |->
           IF IsMulti(segs[at(x)]) THEN SubSeq(path, at(x), Len(path)) ELSE <<path[at(x)]>>]

\* The array of values has room for every named wildcard of every pattern.
ParamsFit ==
    \A i \in DOMAIN Registrations : ~PatternBad(Registrations[i]) =>
        LET segs == Segments(Registrations[i]) IN
        \A j \in 1..Len(segs) :
            IsWild(segs[j]) /\ segs[j].text # ""
              => Cardinality({l \in 1..j : IsWild(segs[l])}) <= MaxInlineParams

\* Path values are those of the walk that won: each named wildcard of the
\* served pattern is bound to the segment at its own position, a final one to
\* the rest of the path, whatever edges were tried before (router.go:760-767,
\* 904-934).
BindingsFromWinner ==
    Answered(200) /\ exchange.resp.route # 0 =>
        exchange.resp.params =
            Bindings(Table[exchange.resp.route].segs, DecodePath(exchange.req.path))

\* The request's host has no table of its own.
OneTable == hostRoot(exchange.req.host) = ""

\* 405 is honest: a method it lists is not refused when it is tried, on this path
\* or, with the redirect off, on its trailing-slash form; and a method of the
\* table it leaves out would be (router.go:801-831).
AllowIsHonest ==
    LET req == exchange.req
        tried == {req.path} \cup
                 (IF RedirectTrailingSlash \/ HasSlash(req.path) THEN {} ELSE {SlashForm(req.path)})
    IN  Answered(405) /\ OneTable /\ pathClean(req.path) = req.path =>
            \A m \in TableMethods \cup exchange.resp.allow :
                m \in exchange.resp.allow <=>
                    \E path \in tried :
                        Respond([req EXCEPT !.method = m, !.path = path]).status \in {200, 307}

\* No pattern the host may use matches the path for any method, nor its
\* trailing-slash form while the redirect is on.
NothingThere ==
    LET path == exchange.req.path IN
    /\ Reachable(exchange.req.host, path) = {}
    /\ RedirectTrailingSlash => Reachable(exchange.req.host, SlashForm(path)) = {}

\* 404 is honest where one table answers: it hides no 405 and no redirect
\* (router.go:781-799).
NotFoundIsHonest ==
    Accepted /\ Answered(404) /\ OneTable /\ exchange.req.path # <<>> => NothingThere

\* As documented, for every host: a path matched by patterns of other methods
\* is a 405, and one whose slash form a pattern matches a redirect
\* (docs/lld/router.md:119, 162-181).
HostNotFoundIsHonest ==
    Accepted /\ Answered(404) /\ exchange.req.path # <<>> => NothingThere

HasEscapes(path) == \E i \in DOMAIN path : path[i] \in DOMAIN Escaped

\* A redirect is followed once: what it leads to is not redirected again, except
\* that an unclean path loses its escapes to the first and may lack a slash
\* after it.  A path that needs cleaning is never served as it stands
\* (router.go:719-738, 769-779, 1006-1008).
RedirectsEnd ==
    /\ Answered(307) =>
         \/ exchange.hops = 0
         \/ /\ exchange.hops = 1 /\ HasEscapes(exchange.asked.path)
            /\ pathClean(exchange.asked.path) # exchange.asked.path
    /\ Answered(200) /\ exchange.req.method # "CONNECT" =>
         exchange.resp.route = 0 \/ pathClean(exchange.req.path) = exchange.req.path

\* An unclean path gets, by way of its redirect, what its clean form gets: the
\* same handler and values, refusal or redirect (router.go:1006-1008,
\* docs/lld/router.md:62-64).  One with escapes may not: they are escaped again.
CleanFormReached ==
    /\ exchange # Idle /\ (exchange.hops = 1 \/ exchange.resp.status # 307)
    /\ exchange.asked.method # "CONNECT" /\ ~exchange.asked.star
    /\ ~HasEscapes(exchange.asked.path)
    => \A direct \in {Respond([exchange.asked EXCEPT !.path = pathClean(@)])} :
         IF direct.status = 307 THEN direct.location = exchange.req.path
         ELSE direct = exchange.resp

\* The trailing-slash redirect as documented: "only when the slash variant has
\* a pattern matching the request method", else 405 (docs/lld/router.md:166-172;
\* router.go:29-30).
RedirectOnlyWhereServed ==
    /\ Answered(307) /\ exchange.req.path # <<>>
    /\ exchange.resp.location = SlashForm(exchange.req.path)
    => \E k \in Reachable(exchange.req.host, exchange.resp.location) :
         Answers(k, exchange.req.method)

\* HEAD as documented: "served by the GET handler when no HEAD pattern exists;
\* an explicit HEAD pattern wins" (docs/lld/router.md:135-137).
ExplicitHeadWins ==
    /\ Accepted /\ Answered(200) /\ exchange.req.method = "HEAD"
    /\ \E l \in Reachable(exchange.req.host, exchange.req.path) : Table[l].method = "HEAD"
    => Table[exchange.resp.route].method = "HEAD"
=============================================================================
