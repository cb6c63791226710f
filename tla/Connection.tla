----------------------------- MODULE Connection -----------------------------
(***************************************************************************)
(* A connection that carries one request after another: the head parser,   *)
(* the framing table and the body reader as their caller composes them.    *)
(*                                                                         *)
(* The caller is not part of the code; its loop is the one the docs and    *)
(* TestBodyPipelinedHeadParses describe: call Parse on everything received *)
(* since the head began, read more while it is incomplete, frame the body, *)
(* let the handler have it, and go on behind it if Close allows.  The body *)
(* reader is what BodyReader_proofs proves of it: when it calls the        *)
(* connection reusable, the whole body and nothing else has been taken.    *)
(***************************************************************************)
EXTENDS HeadParser

CONSTANTS MaxRead   \* bound: bytes one read of the connection returns

VARIABLES
    bodyEnd,   \* where the body being served ends
    refusal    \* why the framing table refused a head

vars == <<connVars, phase, verdict, consumed, reqVars, walkVars, bodyEnd, refusal>>

\* The head of a message, from its first line to its blank one.
IsHead(w, f, t) ==
    /\ f < t /\ t \in DOMAIN w.lines /\ w.lines[t].kind = "blank" /\ w.lines[t].crlf
    /\ \A i \in f + 1 .. t - 1 : w.lines[i].kind = "field"

FieldsOf(w, f, t, name) == {i \in f + 1 .. t - 1 : w.lines[i].name = name}

\* The next message may be meant to start at n: some one of the length fields
\* says so, or there is none.  A number that is no length promises nothing.
Meant(w, f, t, n) ==
    \/ \E i \in FieldsOf(w, f, t, "Content-Length") :
         LET length == Table!parseContentLength(w.lines[i].value)
         IN  length = Table!Bad \/ n = w.lines[t].end + length
    \/ FieldsOf(w, f, t, "Transfer-Encoding") # {} /\ n = w.lines[t].chunksEnd
    \/ /\ FieldsOf(w, f, t, "Content-Length") \cup FieldsOf(w, f, t, "Transfer-Encoding") = {}
       /\ n = w.lines[t].end

\* Whoever sends has one of these in mind, whichever.
ASSUME SenderAssumption ==
    /\ MaxRead \in Nat \ {0}
    /\ \A w \in Wires :
         /\ w.starts \subseteq Nat /\ 0 \in w.starts
         /\ \A s \in w.starts : s <= Size(w) => \E i \in 1..Len(w.lines) + 1 : Start(w, i) = s
         /\ \A f, t \in DOMAIN w.lines :
              IsHead(w, f, t) /\ Start(w, f) \in w.starts =>
                  \E n \in w.starts : Meant(w, f, t, n)

Init ==
    /\ wire \in Wires /\ profile \in Profiles
    /\ base = 0 /\ got = 0
    /\ phase = "head" /\ verdict = None /\ consumed = 0
    /\ \E r \in Requests : headers = r.headers /\ cl = r.cl /\ te = r.te /\ lineEnds = r.lineEnds
    /\ line = 1 /\ seen = {} /\ hostNonEmpty = FALSE
    /\ bodyEnd = 0 /\ refusal = None

-----------------------------------------------------------------------------
(* The caller. *)

ParseHead == Parse /\ UNCHANGED <<bodyEnd, refusal>>

Incomplete == phase = "answered" /\ verdict = "ErrIncomplete"

\* More of the head arrives, and perhaps bytes of what follows it.
Receive ==
    /\ Incomplete /\ got < Size(wire)
    /\ got' \in {n \in got + 1 .. got + MaxRead : n <= Size(wire)}
    /\ phase' = "head"
    /\ UNCHANGED <<wire, profile, base, verdict, consumed, reqVars, walkVars, bodyEnd, refusal>>

\* The peer has nothing more to say.
Hangup ==
    /\ Incomplete /\ got = Size(wire) /\ phase' = "closed"
    /\ UNCHANGED <<connVars, verdict, consumed, reqVars, walkVars, bodyEnd, refusal>>

Refuse ==
    /\ phase = "answered" /\ verdict \notin {OK, "ErrIncomplete"} /\ phase' = "closed"
    /\ UNCHANGED <<connVars, verdict, consumed, reqVars, walkVars, bodyEnd, refusal>>

framing == Table!FramingOf(cl, te)

Frame ==
    /\ phase = "answered" /\ verdict = OK
    /\ \/ /\ framing.kind = "error" /\ phase' = "closed"
          /\ refusal' = framing.error /\ UNCHANGED bodyEnd
       \/ /\ framing.kind # "error" /\ phase' = "body"
          /\ bodyEnd' = IF framing.kind = "chunked" THEN wire.lines[line].chunksEnd
                        ELSE base + consumed + framing.length
          /\ UNCHANGED refusal
    /\ UNCHANGED <<connVars, verdict, consumed, reqVars, walkVars>>

\* The handler is done and Close says the connection may go on; the buffered
\* reader may have read ahead.
ServeBody ==
    /\ phase = "body" /\ bodyEnd <= Size(wire)
    /\ phase' = "head" /\ base' = bodyEnd /\ verdict' = None /\ consumed' = 0
    /\ \E ahead \in 0..MaxRead :
         LET n == (IF got > bodyEnd THEN got ELSE bodyEnd) + ahead
         IN  n <= Size(wire) /\ got' = n
    /\ UNCHANGED <<wire, profile, reqVars, walkVars, bodyEnd, refusal>>

\* The body failed, was too long to drain or was cut short.
AbandonBody ==
    /\ phase = "body" /\ phase' = "closed"
    /\ UNCHANGED <<connVars, verdict, consumed, reqVars, walkVars, bodyEnd, refusal>>

Closed == phase = "closed" /\ UNCHANGED vars

Next == ParseHead \/ Receive \/ Hangup \/ Refuse \/ Frame \/ ServeBody \/ AbandonBody \/ Closed

\* The caller keeps going, and what the peer has sent arrives.
Fairness == WF_vars(ParseHead \/ Receive \/ Refuse \/ Frame)

Spec == Init /\ [][Next]_vars /\ Fairness

-----------------------------------------------------------------------------
(* Properties. *)

\* The table's own refusal of a coding is never reached behind this parser.
TypeOK ==
    /\ profile \in Profiles
    /\ base \in 0..Size(wire) /\ got \in base..Size(wire)
    /\ phase \in {"head", "walk", "answered", "body", "closed"}
    /\ verdict \in Verdicts /\ consumed \in Nat
    /\ lineEnds \in Nat /\ line \in 1..Len(wire.lines) + 1
    /\ seen \subseteq Singletons /\ hostNonEmpty \in BOOLEAN
    /\ bodyEnd \in Nat
    /\ refusal \in {None, "ErrBadContentLength", "ErrAmbiguousFraming"}

\* A head is only ever parsed where the sender began a message, whichever of its
\* length fields the sender went by: no body byte is read as a request, and no
\* request as a body (docs/lld/http1-body-framing.md section 5).
InStep == phase \in {"head", "walk", "answered", "body"} => base \in wire.starts

\* What a verdict says of the lines received, wherever the bytes were cut: a
\* head is accepted if its first deciding line is its blank one, with nothing
\* wrong before; refused for something wrong with the first line that is; and
\* incomplete only while no line received decides it (parser.go:69-71).
VerdictJustified ==
    LET decided(e) == \E t \in DOMAIN wire.lines :
                        Received(t) /\ Decides(First, t) /\ e \in Offences(First, t)
    IN  phase = "answered" =>
        /\ verdict = OK =>
             /\ GoodRequestLine(First) /\ Received(line) /\ Decides(First, line)
             /\ wire.lines[line].kind = "blank" /\ Offences(First, line) = {}
             /\ consumed = wire.lines[line].end - base
        /\ verdict = "ErrIncomplete" =>
             \/ ~Received(First)
             \/ /\ GoodRequestLine(First)
                /\ \A t \in DOMAIN wire.lines : Decides(First, t) => ~Received(t)
        /\ verdict = "ErrMalformed" =>
             Received(First) /\ (~GoodRequestLine(First) \/ decided("ErrMalformed"))
        /\ verdict \in {"ErrMissingHost", "ErrValueTooLarge", "ErrTooManyHeaders"} =>
             GoodRequestLine(First) /\ decided(verdict)

\* A Request used again says nothing of an earlier head: its headers are the
\* lines of this one, and its framing views the fields of this one, one of a
\* kind at most (parser.go:34-38, 157-159).
ViewsExact ==
    phase \in {"answered", "body"} /\ verdict = OK =>
        /\ headers = [i \in 1 .. line - First - 1 |-> First + i]
        /\ Len(cl) <= 1 /\ Len(te) <= 1
        /\ {cl[i] : i \in DOMAIN cl} =
             {wire.lines[i].value : i \in FieldsOf(wire, First, line, "Content-Length")}
        /\ {te[i] : i \in DOMAIN te} =
             {wire.lines[i].value : i \in FieldsOf(wire, First, line, "Transfer-Encoding")}

\* The package above accepts every head this parser accepts, with the same end,
\* and what it accepts beyond that are the known gaps: limits, Host, the target,
\* repeated or unknown framing, and a control byte behind a tab.
RootParserAgrees ==
    LET root == rootParse
        last == LineAt(wire, base + root.consumed - 1)
    IN  phase = "answered" =>
        /\ verdict = OK => root = [verdict |-> OK, consumed |-> consumed]
        /\ verdict = "ErrMissingHost" => root.verdict = OK
        /\ verdict = "ErrIncomplete" => root.verdict = "ErrIncomplete"
        /\ root.verdict = OK /\ verdict = "ErrMalformed" =>
             \/ wire.lines[First].flaw = "target"
             \/ \E i \in First + 1 .. last :
                  LET l == wire.lines[i] IN
                  \/ l.flaw = "late control"
                  \/ l.name = "Host" /\ l.value = "invalid"
                  \/ l.name = "Transfer-Encoding" /\ l.value # "chunked"
                  \/ \E j \in First + 1 .. i - 1 : l.name \in Singletons /\ wire.lines[j].name = l.name
                  \/ l.kind = "blank" /\ profile = "Strict" /\ wire.lines[First].version = "1.1"

\* The bytes of the wire decide the head that starts at base.
Decidable ==
    /\ First \in DOMAIN wire.lines
    /\ ~GoodRequestLine(First) \/ \E t \in DOMAIN wire.lines : Decides(First, t)

\* A head the peer has sent is answered: the caller is never left asking for
\* more bytes of a head that is complete.
HeadsAnswered ==
    phase = "head" /\ Decidable ~>
        phase = "body" \/ (phase = "closed" /\ verdict # "ErrIncomplete")
=============================================================================
