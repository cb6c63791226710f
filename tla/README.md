# simdhttp: a verification project

simdhttp is an HTTP/1.1 toolkit for Go: a head parser, a request-body reader, a
router, and helpers over the standard `net/http` types. This directory holds
TLA+ models of it, TLC configurations that check them on small instances, and
TLAPS proofs of the properties that matter most for every instance. Paths below
are relative to the repository (`src/`).

    tlc -config BodyReader.cfg MCBodyReader.tla     # any run of the table below
    tlapm BodyReader_proofs.tla                     # each other *_proofs module, and LeastNumber

## 1. The system

| Part | State | Operations | Talks to |
|---|---|---|---|
| Head parser, `http1/parser.go` | none between calls, each `Parse` starts over on a longer buffer; but the views of a `Request` that is used again, and its scratch index | `Parse` in two profiles with four limits | the caller's buffer; fills the two lists the framing table decides on |
| Compatibility parser, `parser.go` | a reused header list and scratch index | `Parse` | the same buffer; older, without the later checks |
| Framing table, `http1/framing.go` | none | `FramingOf`, `parseContentLength` | decides what the body reader will be given |
| Body reader, `http1/body.go` | position in the chunked grammar, bytes owed, served and consumed, sticky error, verdict of `Close`, trailers | `NewBodyReader`, `Read`, `Close`, `Consumed`, `Drained`, `Trailers` | the connection's `bufio.Reader`; the connection loop asks it where the next head starts and whether the connection is reusable |
| Router, `router.go` | registrations, middlewares, recorded errors, one trie per host, frozen by `Build` | `Handle`, `Use`, `Build`, `ServeHTTP` | handlers, the `net/http` server |
| Error adapter, `wrap.go` | "response started" per response | `Wrap`, the tracker's `Write`, `WriteHeader`, `Flush`, `Hijack`, `ReadFrom`, `Unwrap` | handlers, the server's `ResponseWriter` |
| Helpers, `helpers.go` | a `sync.Pool` of buffers | `JSON`, `JSONDecodeLimit`, `Param`, `Query*`, `Form` | request body, response |

The loop that composes the first four is not shipped: the docs and
`TestBodyPipelinedHeadParses` describe it, and a server that uses the package
writes it.

What is hard in it:

* **The body reader** sits between a peer that decides byte by byte what arrives
  and when it stops, and a handler that reads and closes in any order. It keeps
  several counters of the same bytes (served, owed, consumed, drain budget), and
  one that goes wrong moves the boundary between two requests. Correct means:
  no body past its budget, end-of-body only behind a whole body, the account of
  consumed bytes exact on failing paths too, a final error, a bounded `Close`
  that always returns, and a reuse verdict that is never too generous.
* **The head parser** is called again and again on a growing buffer that is cut
  anywhere and may already hold what follows the head. Correct means: the
  verdict is what the lines call for, wherever the cuts are; a head that is
  complete is answered; nothing of an earlier head is left in the `Request`; a
  limit is that of the head, not of what follows it (which does not hold).
* **The framing table** has to refuse every head that another hop could read
  differently, and no other.
* **The connection** stands on all three agreeing: one head with two readings
  shifts every request behind it.
* **The router's conflict detection** is a pairwise relation made fast by
  splitting groups; a pair that is never compared is a silent choice.
* **The router's walk** backtracks through one shared array of bindings, tries
  two tables for a request with a host, decodes as it goes, and its 404, 405,
  307 and `Allow` answers come from separate recursions that have to agree with
  one another.
* **The error adapter** must never send a second status, nor let half a response
  end as a whole one, and knows of the response only what passes through it.

No goroutine is started anywhere in the package; one request owns one reader,
and the router is read-only after `Build`. The interleavings that matter are
those of the caller's calls with the wire's behaviour. Every hazard found while
reading is listed, at its line, under `hazards` in `PROJECT.json`.

## 2. Modules

| Module | Models |
|---|---|
| `BodyStream` | abstract specification: what a request body promises |
| `BodyReader` | `http1/body.go`, the detailed reader; implements `BodyStream` |
| `BodyReader_proofs` | its types, the accounting of body bytes, the end of the body, the budget, `Close`, progress, position, trailers, and the refinement of `BodyStream`: theorems |
| `Framing`, `Framing_proofs` | `http1/framing.go` and the two digit loops; theorems |
| `HeadParser` | `http1/parser.go`, and `Parse` of `parser.go` over the same bytes |
| `Connection`, `Connection_proofs` | one request after another on a connection: `HeadParser`, `Framing` and the body reader composed; theorems |
| `RoutePattern` | patterns of `router.go`, the relation between two, and what a pattern means |
| `RouteConflicts`, `RouteConflicts_proofs` | `detectConflicts`, `scanGroup`, `pairwise`; theorems about them and about the relation |
| `RouteTrie`, `RouteTrie_proofs` | `insert`, `matchSegments`, `collectMethods`, `allowValue`, the decoding of segments; theorems |
| `Router`, `Router_proofs` | a router from `New` to `ServeHTTP`; theorems |
| `Response` | abstract specification: what one exchange promises the client |
| `ErrorAdapter`, `ErrorAdapter_proofs` | `wrap.go`, and the two helpers that write or read; implements `Response`; theorems |
| `LeastNumber` | least elements of sets of numbers, the proofs' form of induction |
| `MCBodyReader`, `MCFraming`, `MCConnection`, `MCRouter`, `MCErrorAdapter` | the instances for TLC |

### BodyReader

The variables are the fields of the Go struct under their own names (`remain`,
`served`, `consumed`, `err`, `closed`, `closeErr`, `drained`, `state`,
`chunkRemain`, `trailers`), the locals that outlive a step (`count` of
`readTrailers`, `held` for the part of a line `readLine` has, `budget` of
`Close`, `want` for `len(p)`), two of the connection's `bufio.Reader` (`pos`, the
bytes that left it, and `empties`, how often in a row it returned nothing), and
history: `declared` (sum of accepted chunk sizes), `encoded` (length of the
chunked encoding as far as accepted lines settle it: the lines, and behind each
size line its data and their CRLF) and two counters as they were when `Close` began. `pc` says which call is in
progress.

`pos` moves in the connection's own primitives only, `BufRead` for `Read` and
`BufTake` for `ReadSlice` and `io.ReadFull`. `consumed` moves where the code has
its four increments (`body.go:178`, `237`, `317`, `383`): `FixedRead`,
`ChunkData`, `ExpectCRLF` and `Fragment`, each of which can forget one.

A `Read` is `ReadRefused` (empty `p`, or a sticky error) or `ReadCall` followed
by the steps of `ReadStep`, one for each iteration of the loop of `readChunked`
or exit of `readFixed`: a size line taken or refused, data, the CRLF behind it,
a trailer field taken or refused, the end. `Close` is `CloseAgain`,
`CloseSettled`, or `CloseCall` followed by the very same steps, whose `Return`
runs the body of `Close`'s drain loop instead of going back to the caller.

The peer's bytes are revealed when they are looked at. A line is a record of
what the reader measures of it, in total length, terminator, extension length
and parsed size; data is a number of bytes. Every byte is looked at once, so
choosing it late loses no behaviour. `readLine` is a step for each fragment of
`ReadSlice`: a full buffer without a line feed is held (`LineGoesOn`), a line past
its limit is refused whatever else the fragment brought (`LineTooLong`), the
connection may end inside it (`LineTruncated`), and the fragment with the line
feed completes it (`LineEnds`), be it in time for a whole line or not. `bufio`'s
`Read` is external: any count up to the room, with or without an error, and
nothing at all with none. That last answer is the reader's to handle: both
callers go round again (`body.go:192`, `252`), in the same call and from the same
state. `MaxEmptyReads` bounds how often in a row the connection gives it, as
`bufio` does before it reports `io.ErrNoProgress`.

### Framing

One decision per behaviour: a list of `Content-Length` values and one of
`Transfer-Encoding` values, or a numeral where a chunk size is due. Numerals are
sequences of digits in a small base, with a small integer that wraps, so the
guard of the accumulator is checked at the edge it exists for. `OneReading`
compares the verdict with every way another hop might read the same head.

### HeadParser and Connection

The bytes of a connection are its lines: where each ends, whether by CR LF, and
what the byte tests of the parser find in it (a flaw of the request line, of a
field's name or value, the name if it is one of the three that count, the value
if it matters). The tests themselves, loops over bytes, are outcomes a line
carries; their order and what each leads to are the model's. `Parse` is a step
for the request line and one for each line of the block, as the code walks them:
`RequestLineRefused`, `RequestLine`, `LineRefused`, `Field`, `HeadComplete`,
`OutOfLines`. The walk sees only the line ends its scratch index has room for,
and the index keeps the room an earlier head gave it. What a head *is*, without
an order of tests or a cursor, is stated beside it: `Offences` of a line, and
the line that `Decides` a head. `rootParse` is `Parse` of the package above, as
a function of the same bytes.

`Connection` adds the caller: parse everything received since the head began,
read more while it is incomplete, frame the body, serve it, and go on behind it
if `Close` allows, or close. The loop is external, and marked so in the map. The
body reader stands in it as what `BodyReader_proofs` proves: a reusable
connection stands behind the whole body. The sender is not trusted: `starts` are
the places where it began a message, and `SenderAssumption` only asks that it
went by *some one* of the length fields it sent (`Meant`).

### Router

A path is the sequence of its segments as they are on the wire, so `/a/` is
`<<"a", "">>` and `/a%2Fb` is one segment. `Decoded`, `Escaped` and `Slashed` say
of the segments that need it how they decode, how they are escaped, and where a
decoded path would be divided. The walk decodes each segment once; a
trailing-slash redirect starts from the decoded path, a clean-path redirect from
the escaped one, and both are escaped again, as in the code. An escape that is
none cannot occur: `EscapedPath` returns a valid encoding whatever the request.

A trie is a function from nodes, named by the edges that lead to them, to
handlers. The array of bindings is threaded through the walk with everything
that dead branches leave in it, only the count goes back, as in the code.
`ServeHTTP` is one step because it reads nothing but what `Build` froze; setting
the router up and serving do not overlap, which the package leaves to its user.
`Follow` is the client, not the router: it asks again at the location of a 307, and
`exchange` keeps the request as first asked and the number of redirects followed,
so that a property can say where a redirect leads and that redirects end. The
properties compare what the walk, the redirects and `Allow` do with
`PathMatches`, the meaning of a pattern stated in one definition without a trie.

No operator of the router is recursive, so that all of it can be proved about.
`scanGroup`'s recursion is unrolled: `Calls` is the set of groups it is called
with at each depth. `matchSegments` and `collectMethods` are recursive functions
of the number of segments left: entry `d` is what a call with `d` segments to go
returns from any node, array and count, in terms of the calls one segment
further. A value in the array is a place in the path, its first and last segment;
`PathValues` turns places into the segments a handler sees.

### ErrorAdapter

The handler makes any of its calls in any order (`WriteHeader`, `Write`,
`ReadFrom`, `Flush`, `Hijack`, `JSON`, `JSONDecodeLimit`), then returns an error,
returns nil, or panics. A writer is two sets of optional interfaces: those its
own type has, which decide the wrapper `trackerFor` picks, and those of the
writers below its `Unwrap`, which `http.ResponseController` finds although the
tracker does not have them. The server's side of the response (a status counts
once, body bytes send one, nothing counts once hijacked) is external, as
`wrap.go` relies on it. `sentNothing` is history: a call counted as a start that
sent nothing.

## 3. Runs

| Run | Module, cfg | Expected | Shows |
|---|---|---|---|
| `body` | `MCBodyReader`, `BodyReader.cfg` | pass | limits, end of body, accounting, `Close`, trailers, progress, and the refinement of `BodyStream` |
| `body_overflow` | `MCBodyReader`, `BodyOverflow.cfg` | violation | a chunk size near the int64 maximum passes the budget check |
| `framing` | `MCFraming`, `Framing.cfg` | pass | accepted heads have one reading, plain heads are accepted, numbers are exact |
| `connection` | `MCConnection`, `Connection.cfg` | pass | boundaries, verdicts, views, limits and answers, wherever the bytes are cut; the two parsers agree |
| `route_conflicts` | `MCRouter`, `RouteConflicts.cfg` | pass | `Build` compiles a whole trie that late calls leave alone, and reports exactly the ambiguous pairs |
| `router_match` | `MCRouter`, `RouterMatch.cfg` | pass | what is served, bound, allowed, not found and redirected |
| `router_params` | `MCRouter`, `RouterParams.cfg` | violation | the ninth path value of a route is lost |
| `router_hosts` | `MCRouter`, `RouterHosts.cfg` | violation | a host's 405 or redirect becomes a 404 |
| `router_slash` | `MCRouter`, `RouterSlash.cfg` | violation | an unregistered method is redirected to a refusal |
| `router_head` | `MCRouter`, `RouterHead.cfg` | violation | an explicit `HEAD` pattern loses to a `GET` route |
| `adapter` | `MCErrorAdapter`, `ErrorAdapter.cfg` | pass | errors stand alone or are seen, decodes see whole bodies, and the refinement of `Response` |
| `adapter_unwrap` | `MCErrorAdapter`, `ErrorAdapterUnwrap.cfg` | violation | a flush past the tracker, and an error's text behind a 200 |

The violation runs each check one sentence of a doc or comment, quoted under
`findings` in `PROJECT.json`. Other findings there have no run of their own; what
the code does instead is in the models, and the properties named say what holds:

* `Close` may take a byte more than `MaxDrainSize`, and all framing bytes besides
  (`body.go:515`, `DrainBounded`);
* a body read to `io.EOF` is not `Drained()` until `Close` was called
  (`body.go:535`, `CloseVerdict`);
* a request line or value past its limit is *incomplete* until its line feed
  arrives (`parser.go:112`, `VerdictJustified`);
* the limit of a head is compared with all that is buffered, so whether a small
  complete head goes through depends on what follows it, and on the cuts
  (`parser.go:108`, `VerdictJustified`);
* the head parser refuses every coding but `chunked` as malformed, so the 501 of
  the framing table cannot be reached behind it (`parser.go:295`, `TypeOK` of
  `Connection`);
* with the trailing-slash redirect off, `Allow` still lists the methods of the
  slash form (`router.go:819`, `AllowIsHonest`);
* a clean-path redirect escapes its path twice, so `//%61` reaches a handler that
  `/%61` does not (`router.go:774`, `CleanFormReached`);
* `OPTIONS *` is answered before any lookup, so an explicit `OPTIONS` pattern never
  wins it (`router.go:678`, `Respond`). With the URL `net/http` makes of `*` no
  pattern could match; with a path set since, one could.

Two things the models show that no doc denies, worth knowing: a
1xx status, a failed `Hijack` or a copy from a source that fails at once counts
as a start, and a later error then aborts though nothing was sent (`wrap.go:134`);
`parser.go:149` of the root package does not see a control byte behind a tab.

**Bounds.** *body*: bodies of up to four bytes with a budget of four, fixed
lengths one past it, reads of 0, 1 and 3 bytes, a drain budget of 2 and a
scratch buffer of 2, a `bufio` buffer of 3 (`BufferSize`) and one empty read in a
row (`MaxEmptyReads`). A line within its limit of 4 and one past it both take
two fragments or more, and one empty read is enough for every place where one can
occur, since going round leads back to the same state. So a chunk can be smaller and larger than a read, the
budget can be met, crossed by a chunk and crossed by several; the drain budget
can be used up exactly and exceeded; the clamp to it and the scratch size both
bite. Lines are one of each kind the parser tells apart, on both sides of every
limit, two trailers and a third over the limit. *framing*: every numeral one
digit past the width limit in base 3 with a 5-bit integer, up to two occurrences
of each header. *connection*: one to three messages, bytes received 1 to 4 at a
time, so that every line can be cut anywhere, between CR and LF too, and a read
can bring the end of a head with what follows it. `Plain` messages have every
kind of body, one of them a body that is itself a request; `Ambiguous` heads
could be framed otherwise, with every body meant; `Broken` heads have one flaw
of each kind, or several in one head. The limits of the two profiles lie on both
sides of what the messages have (whole head 26 and 15 bytes, request line 5 and
3, three and two fields, values of 2 and 1), and a `Request` is new or left from
the middle of another head. *route_conflicts*: every table of up to five of
sixteen registrations (literals, parameters, wildcards, subtrees, `{$}`, another
host, another method, three that are refused) with `PairwiseLimit` 2 in place of
32, so that groups of three to five are really split, at two depths; a middleware or
none, and a call after `Build`.
*router_match*: every table of up to three of fourteen routes, with the
trailing-slash redirect on and off, twenty-four request paths (clean ones of up
to three segments, chosen to reach every pattern and miss every pattern, seven
unclean spellings, and escapes of a letter, a slash and a dot segment, clean and
unclean), five methods, one of them unregistered, a request with a host of its
own and one without; the array of bindings holds 2, so it is full for the
longest pattern. *adapter*: up to three calls of a handler, every error of the
mapper, five writers (both server kinds, and middlewares that pass on what they
wrap), bodies of 0 to 3 bytes with and without a fault at the end, limits of 0
and 2. `MaxRoutes`, `MaxUses`, `MaxLate`, `MaxCalls` and `MaxRead` only bound
how often or how much the environment does something. `Handle` takes
registrations in the order of `Registrations`, so TLC sees each table in one
order only; the theorems are about every sequence `Registrations`, in any order
and with repetitions.

Deadlock is checked except in `framing` and `route_conflicts`: the first asks one
question, the other stops once the bounded calls are used up.

**Fairness.** `FairSpec` of `BodyReader` adds weak fairness of `ReadStep`: a call
in progress goes on. The reader never waits for anything but the connection, and
a read of the connection returns with bytes, with its end, or with an error;
that a silent peer ends in an error is the read deadline of the surrounding
server, and that empty reads end is `bufio`'s `io.ErrNoProgress`: two assumptions
here. Nothing obliges the caller to call.
`CallsReturn` therefore says that the reader itself never loops, whatever chunks
arrive, in whatever fragments. An endless series of chunks does not refute it: each non-empty chunk
returns from `Read`, and uses up the budget of a drain. Nor does an endless
series of trailers, which their count bounds.

`Connection` has weak fairness of `ParseHead`, `Receive`, `Refuse` and `Frame`
together: `Parse` is a function and returns, the loop acts on what it returned,
and bytes that were sent arrive. Nothing is assumed of the peer's sending more,
nor of the handler's being done. `HeadsAnswered` says that a head whose deciding
line was sent is answered, which fails if a line end finds no room in the index
or the cuts ever hide one.

**Every property is tied to the code by a mutant**: an operator beside the one
that models the code, changed the way a plausible slip would, under which TLC
finds the property violated.

## 4. Proofs

For every value of the constants: every framing, set of lines and limits, every
table of routes, every set of writers and errors, every order of calls.

| Theorem | Module | States |
|---|---|---|
| `TypeCorrect` | `BodyReader_proofs` | `Spec => []TypeOK` |
| `WholeBodyAtEOF` | `BodyReader_proofs` | `Spec => []EOFOnlyAtEnd`: the end is reported only behind a whole body |
| `FinalError` | `BodyReader_proofs` | `Spec => ErrorIsFinal`: after an error no call moves a byte |
| `BodyWithinLimit` | `BodyReader_proofs` | `NoWrap => (Spec => []ServedWithinLimit)`: the budget holds |
| `ReuseVerdict` | `BodyReader_proofs` | `Spec => []CloseVerdict`: `Close` returns nil exactly on a reusable connection |
| `CloseDrainBounded` | `BodyReader_proofs` | `Spec => []DrainBounded`: a drain passes its budget by one body byte at most |
| `ReadProgress` | `BodyReader_proofs` | `Spec => ReadMakesProgress`: a `Read` with room goes round empty-handed only and answers with a byte or an error |
| `PositionExact` | `BodyReader_proofs` | `Spec => []ConsumedIsPosition`: `Consumed()` is the place on the connection, at the end that of the next head |
| `TrailersPublishedAtEnd` | `BodyReader_proofs` | `Spec => []TrailersOnlyAtEnd` |
| `StreamSafety` | `BodyReader_proofs` | `NoWrap => (Spec => Stream!Spec)`: the reader implements `BodyStream` |
| `HeadsHaveOneReading` | `Framing_proofs` | `Spec => []OneReading`: an accepted head has one reading |
| `PlainHeadsPass` | `Framing_proofs` | `Spec => []PlainHeadsAccepted`: nothing else is refused |
| `ChunkSizesExact` | `Framing_proofs` | `Spec => []ChunkSizeExact`: a size is read exactly or refused |
| `ConnectionTypes` | `Connection_proofs` | `Spec => []TypeOK` |
| `StaysInStep` | `Connection_proofs` | `Spec => []InStep`: heads are parsed where messages begin |
| `VerdictsJustified` | `Connection_proofs` | `Spec => []VerdictJustified`: a verdict is what the lines received call for |
| `ViewsAreExact` | `Connection_proofs` | `Spec => []ViewsExact`: a reused `Request` shows one head only |
| `RootAgrees` | `Connection_proofs` | `Spec => []RootParserAgrees`: the two parsers agree, gaps aside |
| `RelationTrue` | `RouteConflicts_proofs` | each verdict of `comparePaths` says what holds of the two sets of paths |
| `ConflictIsAmbiguity` | `RouteConflicts_proofs` | two registrations conflict exactly when some path matches both and neither is more specific |
| `DetectionExact` | `RouteConflicts_proofs` | `detectConflicts` names exactly the ambiguous pairs, however groups are split |
| `WalkExact` | `RouteTrie_proofs` | a walk finds a node exactly when one matches and serves, the first in precedence, with that node's values |
| `CollectExact` | `RouteTrie_proofs` | a method is collected for a path exactly when a walk for it would find a node |
| `CompileExact` | `Router_proofs` | the tries `Build` compiles hold the table, no more and no less |
| `CleanedAlways` | `Router_proofs` | the scan for dirt never misses a path that cleaning would change |
| `RespondIs` | `Router_proofs` | each response in terms of the patterns and their meaning alone |
| `RouterInv` | `Router_proofs` | `Spec => []IInv`, the inductive invariant |
| `RouterTyped` | `Router_proofs` | `Spec => []TypeOK` |
| `Reporting` | `Router_proofs` | `PathsSuffice`: `Spec => []ConflictsReported` |
| `NoFalseReport` | `Router_proofs` | `PathsSuffice`: `Spec => []NoFalseConflict` |
| `MostSpecific` | `Router_proofs` | `PathsSuffice`: `Spec => []MostSpecificServed` |
| `OwnBindings` | `Router_proofs` | `ParamsFit`: `Spec => []BindingsFromWinner` |
| `AllowHonest` | `Router_proofs` | `Spec => []AllowIsHonest` |
| `NotFoundHonest` | `Router_proofs` | `Spec => []NotFoundIsHonest` |
| `RedirectsTerminate` | `Router_proofs` | `Spec => []RedirectsEnd` |
| `CleanFormServed` | `Router_proofs` | `Spec => []CleanFormReached` |
| `AdapterTypes` | `ErrorAdapter_proofs` | `Spec => []TypeOK` |
| `FailureShown` | `ErrorAdapter_proofs` | `Spec => []FailureIsVisible`: a failed response never ends as a whole one |
| `AbortsCaused` | `ErrorAdapter_proofs` | `Spec => []AbortHasCause`: no connection is dropped before an answer began |
| `DecodesWholeBodies` | `ErrorAdapter_proofs` | `Spec => []WholeBodyDecoded` |
| `ErrorsStandAlone` | `ErrorAdapter_proofs` | `NothingHidden => (Spec => []ErrorStandsAlone)`: never a second status |
| `AdapterImplementsResponse` | `ErrorAdapter_proofs` | `NothingHidden => (Spec => Exchange!Spec)` |

They rest on the named assumptions of the modules. *Body reader*: the limits are
naturals, `MaxBodySize` is within int64, `MaxDrainSize` below its maximum, the
scratch buffer is not empty, and lines have the measures they are said to have.
*Framing*: a base of at least 2, and as many digits as the largest integer has.
*Connection*: lines follow one another, each long enough for its terminator, and
`SenderAssumption`. *Router*: `RouterAssumption` and `TrieAssumption` give
registrations, requests and escapes their types, keep the model's name for "any
method" out of the patterns, let only an `OPTIONS` request be about the server,
and ask of escapes that what decodes or holds a slash needs escaping, that an
escaped text decodes to the text, and that nothing decodes to an empty segment.
*Adapter*: errors map to final statuses, and a decode limit
is below the int64 maximum.

**Body reader.** `EOFOnlyAtEnd` is not inductive: that the state is `csDone` says
nothing of what was served. The inductive invariant `AccountInv` adds what ties
the counters: a call in progress has no error recorded (`Live`); for a fixed body
served and owed bytes add up to the declared length (`FixedAccounting`); for a
chunked one served bytes and the rest of the chunk add up to the sizes declared
(`ChunkAccounting`); and outside chunk data nothing is owed (`ChunkStateInv`).
The budget needs in addition that the sum in the check does not wrap: `NoWrap`
says of the lines exactly what run `body_overflow` violates, so the theorem and
the finding are the two sides of one boundary. The other theorems strengthen
their property in the same way: `CloseInv` adds to `CloseVerdict` what holds
before and while `Close` runs, `TrailerInv` says where trailer fields are before
they are published, and both use `ReadStepShape`: a step inside `Read` either
answers the call, with a byte or an error, or leaves the call and the count of
served bytes alone. `ReadProgress` rests on it too, however often the connection
answers with nothing. `PositionExact` needs `WireInv`: beside `consumed = pos`, that what was taken and
what the chunk under way still owes (`Owed`: its rest and its CRLF) add up to the
encoding settled so far and the part of a line that is held; at `io.EOF` nothing
is owed or held, and the reader stands behind the encoding. A path that forgets
one of the four increments, or that counts a fragment only once it is known to be
wanted, ends at another byte.
The refinement maps the growth of `declared` to `Announce`,
a `Close` behind a whole body to `Release`, every other step inside `Read` to
`Deliver`, and the rest to stuttering.

**Framing.** Both digit loops are one recursive function of the position, and the
provers have no induction over it, so `LeastNumber` supplies it in a form that
takes a set instead of a predicate: the set of positions at which something
holds reaches the last (`Reaches`). The loop's invariant is that the accumulator
is the prefix's value, or the loop has given up and the value is past the limit.
`GuardExact` says the chunk loop's guard fails exactly when the next value would
not fit, `WrapExact` that a wrapped product is seen.

**Connection.** `ConnInv` is `TypeOK` and `InStep` with: the head begins at a line
(`Placed`); where the walk stands, every line before it goes on (`GoesOn`), and
the views and counts are those of exactly these lines (`WalkInv`); what was
accepted (`AcceptedInv`); and that the body ends where a message starts
(`BodyInv`). The delicate leaf is `OutOfLines`: a walk that runs out of index
must have run out of bytes. A field takes at least two bytes, so `k` lines behind
the first take at least `2k`, and the index has room for half the bytes of the
block and one (`ScratchSuffices`). `InStep` rests on `FramedAsMeant`: a head the
table accepts has one length field, so the sender went by that one.
`RootParserAgrees` needs more than the verdict, namely why a walk stopped;
`StoppedInv` records it, and `RootWalk` follows the other parser along the same
lines.

**Routes.** `comparePaths` combines the relations at each position. The lemmas say
what a combined prefix means: `Apart` (a position with no common text leaves
no common path), `Inside`, `Meet` (a path through both can be put together
position by position) and `Beyond` (the longer pattern past the other's final
wildcard). Splitting a group by its literals at a position keeps every pair that
can conflict together in some part (`SplitKeepsPairs`), because two different
literals at one position are disjoint; so by induction over the depth each
conflicting pair reaches a group that is compared pairwise (`ScanExact`).
`DetectionExact` is over all paths and tables of every size what
`ConflictsReported` and `NoFalseConflict` check on small ones.

**Walks.** A trie is taken as what `insert` can build (`IsTrie`): with a node, all
those on the way to it. `WalkExact` is by induction over the segments left
(`Reaches` again): a call returns the first, in the order literal, parameter,
wildcard, of the nodes below its own that take the rest of the path and serve the
method (`Takers`), and `Holds` says that the array has that node's values in their
places up to the count returned. Nothing but its type is asked of the array a
call is given, so what abandoned edges leave in it cannot matter, and the second
walk of a request with a host may start on the first one's array. Nodes are
compared by the first edge they differ in (`Precedes`), where the walk commits.

**Router.** None of the properties is inductive: they say what a response is
worth, and a step only has the tries. `IInv` has three parts. `Setup`: what was
registered is typed and within bounds. `Frozen`: before `Build` there is no trie
and no error; after it the tries are those of this very table (`Compiled`, whose
`Holding` each `insert` keeps, `CompileExact`), and the conflicts recorded are
those `detectConflicts` finds. `ExchangeOK`: the response under way is what
`Respond` gives, and the request is the one first asked, or where its redirect
led, or where a second one did (`Sent`), each with what the next stage needs: a
path that was redirected to is clean, and one redirected to twice ends with a
slash and began with escapes. `RespondStable` carries the response over the steps
that leave the table alone.

The properties follow from `RespondIs`, which replaces walks by sets of routes
(`RoutesFor`), and from facts about patterns. `MostSpecificServed`: two patterns
that match one path and differ in shape differ first in an edge where the
winner's is narrower, so the loser has a path the winner lacks (`FirstIsNarrow`).
`AllowIsHonest`: the listed methods have ids of their own, and a clean path tried
again is answered by the same sets (`TriedIs`). `NotFoundIsHonest`: a good pattern
that matches a path with two slashes at its end matches it with one
(`SlashTwice`). `RedirectsEnd`: a clean path is only redirected for a missing
slash (`CleanRedirect`), and a redirect that cleaned a path without escapes would
have added the slash itself (`CleaningRedirect`). `CleanFormReached`: without
escapes the URL's path is the path (`SameUrl`), and a path and its clean form are
answered alike but for the redirect between them (`DirectIs`).

Four theorems have a hypothesis on the constants. `PathsSuffice` says that `Paths`,
the set over which the *properties* compare what two patterns mean, has an
example wherever two patterns of the table meet or differ; no code depends on it.
Over all paths it cannot be evaluated, so `PathsTellApart` states it through
`comparePaths`, `ToldApart` proves that this is enough, and TLC evaluates it for
every instance (`InstanceAssumption` of `MCRouter`). `ParamsFit` says that the array
of `maxInlineParams` values has room for the named wildcards of every pattern;
the code does not see to it, and run `router_params` is the other side. TLC
evaluates it too, for every other instance.

**Adapter.** The invariant `OpenInv` ties what the client has seen to what the
tracker recorded: while the exchange is open the adapter has said nothing, who
began the response is the handler, and a recorded start has a cause. That no
start is missed (`StartKnown`) needs `NothingHidden`: no writer hides an
interface of one below it. Run `adapter_unwrap` is the other side.

**Only model-checked.** The liveness properties, `CallsReturn` and `HeadsAnswered`,
since the provers have neither fairness nor `ENABLED`. Every other property of a
passing run is stated by a theorem.

## 5. Not modelled

* The byte tests of a head (token and target tables, host syntax, control bytes,
  folding of names): a line carries their outcome.
* The text of patterns: a registration is the list of the shapes that
  `parseSegment` tells apart, one shape standing for all that it refuses.
* The content of bodies and fields; `Trailers()` is the number of fields. A
  wildcard's value is its decoded segments, not the string they make.
* `Param`, `Query*` and `Form`: stateless conversions of strings. The pool of
  buffers: nothing outside `JSON` can see it.
* A `JSONDecodeLimit` of the int64 maximum and a `MaxDrainSize` of it, which wrap
  (`helpers.go:66`, `body.go:515`): assumptions exclude them.
* The connection loop as code: it is not part of the repository.
* The order in which `Build` reports errors (`scanGroup` ranges over a map), and
  their wording.
* The SIMD kernels and the JSON codec, which are other modules, and benchmarks.

## 6. What could follow

* Body reader and connection composed step by step, rather than through what is
  proved of the reader.
* The liveness properties proved by hand from the progress lemmas.
