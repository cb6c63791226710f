----------------------------- MODULE HeadParser -----------------------------
(***************************************************************************)
(* http1/parser.go, Parse: one request head out of the bytes received so   *)
(* far, within the limits of a profile, into a Request that is used again  *)
(* for the next head; and Parse of the package above it (parser.go), which *)
(* has none of the checks added since.                                     *)
(*                                                                         *)
(* The bytes of a connection are its lines: where each ends and what the   *)
(* checks tell of it.  The caller's side is module Connection.             *)
(***************************************************************************)
EXTENDS Integers, Sequences, FiniteSetsExt

CONSTANTS
    Wires,          \* what peers may send: lines, and where its messages start
    profileLimits,  \* by profile
    Requests,       \* a Request as earlier use may have left it
    Base, MaxDigits, MaxInt   \* numerals, as in Framing

None == "nil"
OK   == "ok"
Profiles == {"Compatible", "Strict"}
Singletons == {"Host", "Content-Length", "Transfer-Encoding"}
LimitErrors == {"ErrHeadTooLarge", "ErrRequestLineTooLarge", "ErrValueTooLarge",
                "ErrTooManyHeaders"}
Verdicts == {None, OK, "ErrIncomplete", "ErrMalformed", "ErrMissingHost"} \cup LimitErrors

\* A line with its line feed.  As a request line it is flawed in its spaces or
\* an empty target, in its target, version or method; as a field, in its colon
\* or name, or by a control byte, which may hide behind the first tab of a long
\* value.  "other" bytes are neither.  Values are digits of a Content-Length, a
\* coding, and whether a Host is valid; length is the value's.  chunksEnd is
\* where a chunked body that follows the line ends.
RequestFlaws == {"none", "spaces", "target", "version", "method"}
FieldFlaws   == {"none", "name", "control", "late control"}
IsLine(l) ==
    /\ l.end \in Nat /\ l.crlf \in BOOLEAN /\ l.kind \in {"request", "field", "blank", "other"}
    /\ l.flaw \in (IF l.kind = "request" THEN RequestFlaws ELSE FieldFlaws)
    /\ l.version \in {"1.0", "1.1"}
    /\ l.name \in Singletons \cup {"another"} /\ l.length \in Nat
    /\ l.chunksEnd \in Nat

\* Where line i of a wire starts.
Start(w, i) == IF i = 1 THEN 0 ELSE w.lines[i - 1].end
Size(w)     == Start(w, Len(w.lines) + 1)

ASSUME WireAssumption ==
    \A w \in Wires :
        /\ w.lines \in Seq({w.lines[i] : i \in DOMAIN w.lines})
        /\ \A i \in DOMAIN w.lines : IsLine(w.lines[i])
        /\ \A i \in DOMAIN w.lines :
             w.lines[i].end >= Start(w, i) + (IF w.lines[i].crlf THEN 2 ELSE 1)
        /\ \A i, j \in 1..Len(w.lines) + 1 : i < j => Start(w, i) < Start(w, j)

ASSUME LimitAssumption ==
    profileLimits \in [Profiles -> [headSize : Nat, requestLine : Nat,
                                    headerCount : Nat, valueLen : Nat]]

ASSUME RequestAssumption == \A r \in Requests : r.lineEnds \in Nat

VARIABLES
    wire, profile,   \* of this connection
    base,            \* where the head starts that is being read
    got,             \* where the bytes received so far end
    phase,           \* what the connection is doing
    verdict,         \* what Parse last returned of this head
    consumed,        \* and how many bytes, counted from base
    headers,         \* req.Headers, by the lines they alias
    cl, te,          \* req.ContentLengthLines and TransferEncodingLines
    lineEnds,        \* capacity of the scratch index of line ends
    line,            \* the line the walk is at
    seen,            \* fields counted so far: hostCount, clSeen, teSeen
    hostNonEmpty

connVars == <<wire, profile, base, got>>
reqVars  == <<headers, cl, te, lineEnds>>
walkVars == <<line, seen, hostNonEmpty>>

Table == INSTANCE Framing WITH CLLists <- {}, TELists <- {}, Numerals <- {}, answer <- verdict

-----------------------------------------------------------------------------
(* The bytes. *)

\* The line byte p of a wire is in.
LineAt(w, p) ==
    CHOOSE i \in 1..Len(w.lines) + 1 :
        Start(w, i) <= p /\ (i <= Len(w.lines) => p < w.lines[i].end)

First == LineAt(wire, base)

Received(i) == i \in DOMAIN wire.lines /\ wire.lines[i].end <= got

lim == profileLimits[profile]

\* Line ends beyond the scratch are not found.
Indexed(i, capacity) == Received(i) /\ i - First <= capacity

\* Mutation: an index for lines of at least eight bytes.
ScratchForTall == (got - wire.lines[First].end) \div 8 + 1

Scratch == (got - wire.lines[First].end) \div 2 + 1

-----------------------------------------------------------------------------
(* Parse. *)

Answer(v, n) == phase' = "answered" /\ verdict' = v /\ consumed' = n

RequestLineError ==
    IF got - base > lim.headSize THEN "ErrHeadTooLarge"
    ELSE IF ~Received(First) THEN "ErrIncomplete"
    ELSE LET l == wire.lines[First] IN
         IF l.end - base - 1 > lim.requestLine THEN "ErrRequestLineTooLarge"
         ELSE IF ~l.crlf \/ l.kind # "request" \/ l.flaw # "none" THEN "ErrMalformed"
         ELSE None

RequestLineRefused ==
    /\ phase = "head" /\ RequestLineError # None
    /\ Answer(RequestLineError, 0)
    /\ UNCHANGED <<connVars, reqVars, walkVars>>

\* Mutation: the framing views keep what the last head left in them.
RequestLineStale ==
    /\ phase = "head" /\ RequestLineError = None
    /\ phase' = "walk" /\ headers' = <<>>
    /\ lineEnds' = IF lineEnds < Scratch THEN Scratch ELSE lineEnds
    /\ line' = First + 1 /\ seen' = {} /\ hostNonEmpty' = FALSE
    /\ UNCHANGED <<connVars, verdict, consumed, cl, te>>

RequestLine ==
    /\ phase = "head" /\ RequestLineError = None
    /\ phase' = "walk" /\ headers' = <<>> /\ cl' = <<>> /\ te' = <<>>
    /\ lineEnds' = IF lineEnds < Scratch THEN Scratch ELSE lineEnds
    /\ line' = First + 1 /\ seen' = {} /\ hostNonEmpty' = FALSE
    /\ UNCHANGED <<connVars, verdict, consumed>>

\* Mutation: a repeated field is let through.
FieldErrorOnce(l) ==
    IF l.flaw # "none" THEN "ErrMalformed"
    ELSE IF l.length > lim.valueLen THEN "ErrValueTooLarge"
    ELSE IF Len(headers) >= lim.headerCount THEN "ErrTooManyHeaders"
    ELSE IF l.name = "Transfer-Encoding" /\ ~Table!ValidTransferEncoding(l.value) THEN "ErrMalformed"
    ELSE None

\* What the walk finds wrong with a field line, in its order.
FieldError(l) ==
    IF \/ l.flaw # "none"
       \/ l.name = "Host" /\ ("Host" \in seen \/ (l.length > 0 /\ l.value = "invalid"))
    THEN "ErrMalformed"
    ELSE IF l.length > lim.valueLen THEN "ErrValueTooLarge"
    ELSE IF Len(headers) >= lim.headerCount THEN "ErrTooManyHeaders"
    ELSE IF \/ l.name = "Content-Length" /\ "Content-Length" \in seen
            \/ /\ l.name = "Transfer-Encoding"
               /\ ("Transfer-Encoding" \in seen \/ ~Table!ValidTransferEncoding(l.value))
    THEN "ErrMalformed"
    ELSE None

\* HTTP/1.1 needs a Host, and Strict does not say what is missing.
HostError ==
    IF wire.lines[First].version = "1.0" \/ hostNonEmpty THEN None
    ELSE IF profile = "Strict" THEN "ErrMalformed" ELSE "ErrMissingHost"

LineError ==
    LET l == wire.lines[line] IN
    IF ~l.crlf \/ l.kind \notin {"field", "blank"} THEN "ErrMalformed"
    ELSE IF l.kind = "blank" THEN HostError ELSE FieldError(l)

Walking == phase = "walk" /\ UNCHANGED <<connVars, lineEnds>>

LineRefused ==
    /\ Walking /\ Indexed(line, lineEnds) /\ LineError # None
    /\ Answer(LineError, 0)
    /\ UNCHANGED <<headers, cl, te, walkVars>>

HeadComplete ==
    /\ Walking /\ Indexed(line, lineEnds) /\ LineError = None
    /\ wire.lines[line].kind = "blank"
    /\ Answer(OK, wire.lines[line].end - base)
    /\ UNCHANGED <<headers, cl, te, walkVars>>

Field ==
    /\ Walking /\ Indexed(line, lineEnds) /\ LineError = None
    /\ LET l == wire.lines[line] IN
         /\ l.kind = "field"
         /\ headers' = Append(headers, line)
         /\ cl' = IF l.name = "Content-Length" THEN Append(cl, l.value) ELSE cl
         /\ te' = IF l.name = "Transfer-Encoding" THEN Append(te, l.value) ELSE te
         /\ seen' = seen \cup ({l.name} \cap Singletons)
         /\ hostNonEmpty' = (hostNonEmpty \/ (l.name = "Host" /\ l.length > 0))
    /\ line' = line + 1
    /\ UNCHANGED <<phase, verdict, consumed>>

OutOfLines ==
    /\ Walking /\ ~Indexed(line, lineEnds)
    /\ Answer("ErrIncomplete", 0)
    /\ UNCHANGED <<headers, cl, te, walkVars>>

Parse == RequestLineRefused \/ RequestLine \/ LineRefused \/ HeadComplete \/ Field \/ OutOfLines

-----------------------------------------------------------------------------
(* Parse of the package above, over the same bytes. *)

\* Mutation: a header value is not looked at.
rootRefusesNames(l) == ~l.crlf \/ l.kind \notin {"field", "blank"}

rootRefuses(l) ==
    \/ ~l.crlf \/ l.kind \notin {"field", "blank"}
    \/ l.kind = "field" /\ l.flaw \in {"name", "control"}

rootParse ==
    IF ~Received(First) THEN [verdict |-> "ErrIncomplete", consumed |-> 0]
    ELSE IF \/ ~wire.lines[First].crlf \/ wire.lines[First].kind # "request"
            \/ wire.lines[First].flaw \in {"spaces", "version", "method"}
    THEN [verdict |-> "ErrMalformed", consumed |-> 0]
    ELSE LET stops == {i \in First + 1 .. Len(wire.lines) :
                         /\ Indexed(i, Scratch)
                         /\ rootRefuses(wire.lines[i]) \/ wire.lines[i].kind = "blank"}
         IN  IF stops = {} THEN [verdict |-> "ErrIncomplete", consumed |-> 0]
             ELSE IF rootRefuses(wire.lines[Min(stops)])
             THEN [verdict |-> "ErrMalformed", consumed |-> 0]
             ELSE [verdict |-> OK, consumed |-> wire.lines[Min(stops)].end - base]

-----------------------------------------------------------------------------
(* What a head is, by the lines of the wire. *)

\* Line i of the head at line f is no field line, or one there may not be.
Malformed(f, i) ==
    LET l == wire.lines[i] IN
    \/ ~l.crlf \/ l.kind \in {"request", "other"}
    \/ /\ l.kind = "field"
       /\ \/ l.flaw # "none"
          \/ l.name \in Singletons /\ \E j \in f + 1 .. i - 1 : wire.lines[j].name = l.name
          \/ l.name = "Host" /\ l.length > 0 /\ l.value = "invalid"
          \/ l.name = "Transfer-Encoding" /\ l.value # "chunked"

\* It ends an HTTP/1.1 head that names no host.
HostMissing(f, i) ==
    /\ wire.lines[i].kind = "blank" /\ wire.lines[f].version = "1.1"
    /\ ~\E j \in f + 1 .. i - 1 : wire.lines[j].name = "Host" /\ wire.lines[j].length > 0

\* What is wrong with it.
Offences(f, i) ==
    LET l == wire.lines[i] IN
    {e \in Verdicts :
        \/ e = "ErrMalformed" /\ (Malformed(f, i) \/ (HostMissing(f, i) /\ profile = "Strict"))
        \/ e = "ErrMissingHost" /\ HostMissing(f, i) /\ profile # "Strict"
        \/ e = "ErrValueTooLarge" /\ l.kind = "field" /\ l.length > lim.valueLen
        \/ e = "ErrTooManyHeaders" /\ l.kind = "field" /\ i - f > lim.headerCount}

\* Line i is an ordinary field of the head at f, so the head goes on.
GoesOn(f, i) == wire.lines[i].kind = "field" /\ Offences(f, i) = {}

\* Line t decides the head at f.
Decides(f, t) ==
    /\ t \in DOMAIN wire.lines /\ f < t /\ ~GoesOn(f, t)
    /\ \A i \in f + 1 .. t - 1 : GoesOn(f, i)

GoodRequestLine(f) ==
    /\ wire.lines[f].kind = "request" /\ wire.lines[f].crlf /\ wire.lines[f].flaw = "none"
    /\ wire.lines[f].end - base - 1 <= lim.requestLine
=============================================================================
