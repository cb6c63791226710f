----------------------------- MODULE BodyReader -----------------------------
(***************************************************************************)
(* http1/body.go: the reader that serves one request body from a           *)
(* connection's bufio.Reader.  One request owns one reader; the caller     *)
(* issues Read and Close in any order and any number of times, and the     *)
(* peer decides byte by byte what arrives.                                 *)
(*                                                                         *)
(* The peer's bytes are revealed when they are first looked at: a line is  *)
(* a record of the measures the reader takes of it (total length,          *)
(* terminator, extension length, parsed size ...), chosen from a constant  *)
(* set when its end is found; body data is a number of bytes.  Every byte  *)
(* is looked at once, so this loses no behaviour.                          *)
(*                                                                         *)
(* The connection's place, pos, is moved by the operations of bufio alone; *)
(* the reader's own count of it, consumed, only where the code adds to it. *)
(***************************************************************************)
EXTENDS Integers

CONSTANTS
    Framings,              \* the verdicts of FramingOf this reader may be given
    ReadSizes,             \* the lengths of p a caller passes to Read
    ChunkLines,            \* what may arrive where a chunk-size line is due
    TrailerLines,          \* what may arrive where a trailer line is due
    MaxBodySize, MaxChunkSizeLine, MaxChunkExtensionLen,
    MaxTrailerCount, MaxTrailerValueLen, MaxDrainSize,   \* Limits
    MaxTrailerNameLen,     \* the constant of that name (256 in the code)
    ScratchSize,           \* Close's scratch buffer (512 in the code)
    BufferSize,            \* the bufio.Reader's buffer: what ReadSlice can hold
    MaxEmptyReads,         \* how often in a row bufio's Read may return (0, nil)
    MaxInt                 \* the largest int64

ASSUME LimitsAssumption ==
    /\ MaxBodySize \in Nat /\ MaxChunkSizeLine \in Nat
    /\ MaxChunkExtensionLen \in Nat /\ MaxTrailerCount \in Nat
    /\ MaxTrailerValueLen \in Nat /\ MaxDrainSize \in Nat
    /\ MaxTrailerNameLen \in Nat /\ ScratchSize \in Nat \ {0}
    /\ BufferSize \in Nat \ {0} /\ MaxEmptyReads \in Nat
    /\ MaxInt \in Nat /\ MaxBodySize <= MaxInt /\ MaxDrainSize < MaxInt

BadSize == -1   \* parseHexInt64 said no: empty, not hex, or past int64

ChunkLineType ==
    [len : Nat, crlf : BOOLEAN, ext : Nat, size : {BadSize} \cup 0..MaxInt]

TrailerLineType ==
    [len : Nat, crlf : BOOLEAN, blank : BOOLEAN, nameOK : BOOLEAN,
     val : Nat, valOK : BOOLEAN]

Kinds == {"none", "fixed", "chunked"}

ASSUME InputsAssumption ==
    /\ ReadSizes \subseteq Nat
    /\ ChunkLines \subseteq ChunkLineType
    /\ TrailerLines \subseteq TrailerLineType
    /\ Framings \subseteq [kind : Kinds, length : 0..MaxInt]

None == "nil"   \* Go's nil error

Errors ==
    {"EOF", "ErrUnexpectedEOF", "ErrNet", "ErrBodyTooLarge", "ErrBadChunk",
     "ErrChunkLineTooLong", "ErrChunkExtensionTooLong", "ErrTooManyTrailers",
     "ErrValueTooLarge", "ErrMalformed", "ErrDrainTooLarge"}

ChunkStates == {"csHeader", "csData", "csDataCRLF", "csTrailers", "csDone"}

VARIABLES
    framing,      \* the Framing handed to NewBodyReader
    remain,       \* fixed framing: body bytes still owed
    served,       \* body bytes handed out
    consumed,     \* bytes the reader counts as taken off the connection
    err,          \* sticky error
    closed, closeErr, drained,
    state,        \* chunkState
    chunkRemain,  \* bytes left in the chunk being served
    trailers,     \* number of published trailer fields
    count,        \* readTrailers' loop variable (and fields held in h)
    held,         \* bytes held of the line being read: len(b.line)
    pc,           \* "idle", or the call in progress: "Read" or "Close"
    want,         \* len(p) of the Read in progress
    budget,       \* Close's remaining drain budget
    result,       \* what the last call returned
    pos,          \* bufio: bytes that left the connection
    empties,      \* bufio: (0, nil) returned so many times in a row
    declared,     \* history: sum of the accepted chunk sizes
    encoded,      \* history: bytes of the chunked encoding accepted so far
    servedAtClose, posAtClose   \* history: those counters when Close began

chunkVars == <<state, chunkRemain, trailers, count, declared, encoded>>
wireVars  == <<consumed, held, pos, empties>>
callVars  == <<pc, want, budget, result, closeErr, drained>>
closeMark == <<closed, servedAtClose, posAtClose>>

vars == <<framing, remain, served, err, chunkVars, wireVars, callVars, closeMark>>

Lesser(a, b) == IF a <= b THEN a ELSE b

\* int64 addition of two non-negative values.
Add64(a, b) == IF a + b > MaxInt THEN a + b - 2 * (MaxInt + 1) ELSE a + b

-----------------------------------------------------------------------------
\* NewBodyReader: a declared length over the budget fails before a byte moves.
Init ==
    /\ framing \in Framings
    /\ remain = IF framing.kind = "fixed" THEN framing.length ELSE 0
    /\ err = IF framing.kind = "fixed" /\ framing.length > MaxBodySize
             THEN "ErrBodyTooLarge" ELSE None
    /\ served = 0 /\ consumed = 0 /\ held = 0 /\ pos = 0 /\ empties = 0
    /\ declared = 0 /\ encoded = 0
    /\ closed = FALSE /\ closeErr = None /\ drained = FALSE
    /\ servedAtClose = 0 /\ posAtClose = 0
    /\ state = "csHeader" /\ chunkRemain = 0 /\ trailers = 0 /\ count = 0
    /\ pc = "idle" /\ want = 0 /\ budget = 0
    /\ result = [n |-> 0, err |-> None]

\* What br.Read(p) can answer for len(p) = room: any count up to it, with or
\* without an error, and nothing at all with none.
Answers(room) == [n : 0..room, err : {None, "EOF", "ErrNet"}]

BufRead(r) ==
    /\ pos' = pos + r.n
    /\ IF r.n = 0 /\ r.err = None
       THEN empties < MaxEmptyReads /\ empties' = empties + 1
       ELSE empties' = 0

\* ReadSlice and io.ReadFull: n bytes, with or without what was asked for.
BufTake(n) == pos' = pos + n /\ UNCHANGED empties

\* Mutation: the budget does not clamp the drain's reads.
DrainWantUnclamped(left) == ScratchSize

\* Mutation: the clamp without its extra byte.
DrainWantExact(left) == Lesser(ScratchSize, left)

\* Close's loop asks for one byte past the budget, so exceeding it shows.
DrainWant(left) == Lesser(ScratchSize, left + 1)

CloseReturns(e, atEnd) ==
    /\ pc' = "idle" /\ want' = 0
    /\ closeErr' = e /\ drained' = atEnd
    /\ result' = [n |-> 0, err |-> e]

\* Mutation: any error Read reports is taken for the end of the body.
DrainStepTrusting(n, e) ==
    LET left == budget - n IN
    /\ budget' = left
    /\ \/ left < 0  /\ CloseReturns("ErrDrainTooLarge", FALSE)
       \/ left >= 0 /\ e # None /\ CloseReturns(None, TRUE)
       \/ /\ left >= 0 /\ e = None
          /\ want' = DrainWant(left)
          /\ UNCHANGED <<pc, result, closeErr, drained>>

\* The body of Close's loop after one Read of n bytes and error e.
DrainStep(n, e) ==
    LET left == budget - n IN
    /\ budget' = left
    /\ \/ left < 0  /\ CloseReturns("ErrDrainTooLarge", FALSE)
       \/ left >= 0 /\ e = "EOF" /\ CloseReturns(None, TRUE)
       \/ left >= 0 /\ e \notin {None, "EOF"} /\ CloseReturns(e, FALSE)
       \/ /\ left >= 0 /\ e = None
          /\ want' = DrainWant(left)
          /\ UNCHANGED <<pc, result, closeErr, drained>>

\* Read returns (n, e): to the caller, or to the loop of Close.
Return(n, e) ==
    \/ /\ pc = "Read"
       /\ pc' = "idle" /\ want' = 0
       /\ result' = [n |-> n, err |-> e]
       /\ UNCHANGED <<budget, closeErr, drained>>
    \/ pc = "Close" /\ DrainStep(n, e)

\* fail: record a terminal error and return it with no bytes.
Fail(e) == err' = e /\ Return(0, e)

\* Mutation: the connection's EOF is always the body's.
EndOfDataTrusting(e, short) == e

\* An EOF from the connection while the body is short is a truncation.
EndOfData(e, short) == IF e = "EOF" /\ short THEN "ErrUnexpectedEOF" ELSE e

-----------------------------------------------------------------------------
(* The caller. *)

\* Read on an empty p, or on a reader that already failed or ended.
ReadRefused(len) ==
    /\ pc = "idle"
    /\ len = 0 \/ err # None
    /\ result' = [n |-> 0, err |-> IF len = 0 THEN None ELSE err]
    /\ UNCHANGED <<framing, remain, served, err, chunkVars, wireVars, closeMark,
                   pc, want, budget, closeErr, drained>>

\* Mutation: the sticky error is not looked at.
ReadCallForgetful(len) ==
    /\ pc = "idle" /\ len > 0
    /\ pc' = "Read" /\ want' = len
    /\ UNCHANGED <<framing, remain, served, err, chunkVars, wireVars, closeMark,
                   budget, result, closeErr, drained>>

\* Read on a live reader: the steps of ReadStep serve it.
ReadCall(len) ==
    /\ pc = "idle" /\ len > 0 /\ err = None
    /\ pc' = "Read" /\ want' = len
    /\ UNCHANGED <<framing, remain, served, err, chunkVars, wireVars, closeMark,
                   budget, result, closeErr, drained>>

\* A second Close repeats what the first reported.
CloseAgain ==
    /\ pc = "idle" /\ closed
    /\ result' = [n |-> 0, err |-> closeErr]
    /\ UNCHANGED <<framing, remain, served, err, chunkVars, wireVars, closeMark,
                   pc, want, budget, closeErr, drained>>

\* Close when the body has already ended or failed: no byte is read.
CloseSettled ==
    /\ pc = "idle" /\ ~closed /\ err # None
    /\ closed' = TRUE /\ servedAtClose' = served /\ posAtClose' = pos
    /\ CloseReturns(IF err = "EOF" THEN None ELSE err, err = "EOF")
    /\ UNCHANGED <<framing, remain, served, err, chunkVars, wireVars, budget>>

CloseCall ==
    /\ pc = "idle" /\ ~closed /\ err = None
    /\ closed' = TRUE /\ servedAtClose' = served /\ posAtClose' = pos
    /\ pc' = "Close" /\ budget' = MaxDrainSize /\ want' = DrainWant(MaxDrainSize)
    /\ UNCHANGED <<framing, remain, served, err, chunkVars, wireVars,
                   result, closeErr, drained>>

-----------------------------------------------------------------------------
(* Inside Read.  err = None whenever one of these steps is possible. *)

\* Read with no room returns (0, nil) at once, so a drain that asked for
\* nothing would go round for ever: a stuttering step, not one of these.
Reading(kind) == pc # "idle" /\ want > 0 /\ framing.kind = kind

NoneRead ==
    /\ Reading("none")
    /\ Fail("EOF")
    /\ UNCHANGED <<framing, remain, served, chunkVars, wireVars, closeMark>>

\* readFixed's two early exits.
FixedVerdict ==
    IF remain = 0 THEN "EOF"
    ELSE IF served >= MaxBodySize THEN "ErrBodyTooLarge" ELSE None

FixedStop ==
    /\ Reading("fixed") /\ FixedVerdict # None
    /\ Fail(FixedVerdict)
    /\ UNCHANGED <<framing, remain, served, chunkVars, wireVars, closeMark>>

\* Mutation: p is not clamped to what the body still owes.
FixedRoomUnclamped == Lesser(want, MaxBodySize - served)

FixedRoom == Lesser(want, Lesser(MaxBodySize - served, remain))

\* Mutation: an empty read is passed on.
FixedReadOnce ==
    /\ Reading("fixed") /\ FixedVerdict = None
    /\ \E r \in Answers(FixedRoom) :
         LET e == EndOfData(r.err, remain - r.n > 0) IN
         /\ BufRead(r)
         /\ served' = served + r.n
         /\ consumed' = consumed + r.n
         /\ remain' = remain - r.n
         /\ err' = e
         /\ Return(r.n, e)
    /\ UNCHANGED <<framing, held, chunkVars, closeMark>>

\* A read of nothing is tried again: the next step finds the same state.
FixedRead ==
    /\ Reading("fixed") /\ FixedVerdict = None
    /\ \E r \in Answers(FixedRoom) :
         LET e == EndOfData(r.err, remain - r.n > 0) IN
         /\ BufRead(r)
         /\ served' = served + r.n
         /\ consumed' = consumed + r.n
         /\ remain' = remain - r.n
         /\ err' = e
         /\ \/ r.n = 0 /\ e = None /\ UNCHANGED callVars
            \/ (r.n > 0 \/ e # None) /\ Return(r.n, e)
    /\ UNCHANGED <<framing, held, chunkVars, closeMark>>

-----------------------------------------------------------------------------
(* readLine, one fragment of ReadSlice at a time. *)

TrailerLimit == MaxTrailerValueLen + MaxTrailerNameLen

\* The limit readLine was called with, and what its caller makes of a line
\* past it.
LineLimit == IF state = "csHeader" THEN MaxChunkSizeLine ELSE TrailerLimit

LineTooLongError == IF state = "csHeader" THEN "ErrChunkLineTooLong"
                    ELSE "ErrValueTooLarge"

ReadingLine == Reading("chunked") /\ state \in {"csHeader", "csTrailers"}

\* Mutation: a fragment is counted once it is known to be wanted.
FragmentLate(n) ==
    /\ BufTake(n)
    /\ consumed' = IF held + n > LineLimit + 2 THEN consumed ELSE consumed + n

Fragment(n) == BufTake(n) /\ consumed' = consumed + n

\* A full buffer without an LF: hold it and ask for more.
LineGoesOn ==
    /\ ReadingLine
    /\ held + BufferSize <= LineLimit + 2
    /\ Fragment(BufferSize)
    /\ held' = held + BufferSize
    /\ UNCHANGED <<framing, remain, served, err, chunkVars, callVars, closeMark>>

\* The line is past its limit, whether or not its end or an error came along.
LineTooLong ==
    /\ ReadingLine
    /\ \E n \in 0..BufferSize : held + n > LineLimit + 2 /\ Fragment(n)
    /\ held' = 0
    /\ Fail(LineTooLongError)
    /\ UNCHANGED <<framing, remain, served, chunkVars, closeMark>>

\* The connection ends or fails inside the line.
LineTruncated ==
    /\ ReadingLine
    /\ \E n \in 0..BufferSize : held + n <= LineLimit + 2 /\ Fragment(n)
    /\ held' = 0
    /\ Fail("ErrUnexpectedEOF")
    /\ UNCHANGED <<framing, remain, served, chunkVars, closeMark>>

\* This fragment ends line l, which is within its limit.
LineEnds(l) ==
    /\ l.len - held \in 1..BufferSize
    /\ l.len <= LineLimit + 2
    /\ Fragment(l.len - held)
    /\ held' = 0

-----------------------------------------------------------------------------
\* Mutation: the budget is checked only against what is already served.
HeaderErrorLate(l) ==
    IF ~l.crlf THEN "ErrBadChunk"
    ELSE IF l.ext > MaxChunkExtensionLen THEN "ErrChunkExtensionTooLong"
    ELSE IF l.size = BadSize THEN "ErrBadChunk"
    ELSE IF served > MaxBodySize THEN "ErrBodyTooLarge"
    ELSE None

\* Why readChunkHeader refuses line l, in the order it looks.
HeaderError(l) ==
    IF ~l.crlf THEN "ErrBadChunk"
    ELSE IF l.ext > MaxChunkExtensionLen THEN "ErrChunkExtensionTooLong"
    ELSE IF l.size = BadSize THEN "ErrBadChunk"
    ELSE IF Add64(served, l.size) > MaxBodySize THEN "ErrBodyTooLarge"
    ELSE None

ChunkHeaderFails ==
    /\ Reading("chunked") /\ state = "csHeader"
    /\ \E l \in ChunkLines :
         /\ LineEnds(l)
         /\ HeaderError(l) # None
         /\ Fail(HeaderError(l))
    /\ UNCHANGED <<framing, remain, served, chunkVars, closeMark>>

\* With an accepted size the peer owes the chunk's data and the CRLF after it.
ChunkHeader ==
    /\ Reading("chunked") /\ state = "csHeader"
    /\ \E l \in ChunkLines :
         /\ LineEnds(l)
         /\ HeaderError(l) = None
         /\ chunkRemain' = l.size
         /\ declared' = declared + l.size
         /\ encoded' = encoded + l.len + (IF l.size = 0 THEN 0 ELSE l.size + 2)
         /\ state' = IF l.size = 0 THEN "csTrailers" ELSE "csData"
    /\ UNCHANGED <<framing, remain, served, err, trailers, count, callVars, closeMark>>

\* Mutation: p is not clamped to the chunk.
ChunkRoomUnclamped == want

ChunkRoom == Lesser(want, chunkRemain)

\* Data never closes a body, so an EOF in it is always a truncation, and the
\* bytes that came with it are still handed out.
ChunkData ==
    /\ Reading("chunked") /\ state = "csData"
    /\ \E r \in Answers(ChunkRoom) :
         LET e == EndOfData(r.err, TRUE) IN
         /\ BufRead(r)
         /\ served' = served + r.n
         /\ consumed' = consumed + r.n
         /\ chunkRemain' = chunkRemain - r.n
         /\ state' = IF chunkRemain = r.n THEN "csDataCRLF" ELSE state
         /\ err' = e
         /\ \/ r.n = 0 /\ e = None /\ UNCHANGED callVars
            \/ (r.n > 0 \/ e # None) /\ Return(r.n, e)
    /\ UNCHANGED <<framing, held, remain, trailers, count, declared, encoded, closeMark>>

\* Mutation: only a whole CRLF is counted.
ExpectCRLFWhole(n) ==
    /\ BufTake(n)
    /\ consumed' = IF n = 2 THEN consumed + 2 ELSE consumed
    /\ UNCHANGED held

\* expectCRLF: n of the two bytes that must close chunk data have come.
ExpectCRLF(n) == BufTake(n) /\ consumed' = consumed + n /\ UNCHANGED held

DataCRLF ==
    /\ Reading("chunked") /\ state = "csDataCRLF"
    /\ ExpectCRLF(2)
    /\ state' = "csHeader"
    /\ UNCHANGED <<framing, remain, served, err, chunkRemain, trailers, count,
                   declared, encoded, callVars, closeMark>>

DataCRLFFails ==
    /\ Reading("chunked") /\ state = "csDataCRLF"
    /\ \E n \in 0..2 :
         /\ ExpectCRLF(n)
         /\ Fail(IF n < 2 THEN "ErrUnexpectedEOF" ELSE "ErrBadChunk")
    /\ UNCHANGED <<framing, remain, served, chunkVars, closeMark>>

\* Why readTrailers refuses line l, in the order it looks.
TrailerError(l) ==
    IF ~l.crlf THEN "ErrMalformed"
    ELSE IF l.blank THEN None
    ELSE IF count >= MaxTrailerCount THEN "ErrTooManyTrailers"
    ELSE IF ~l.nameOK THEN "ErrMalformed"
    ELSE IF l.val > MaxTrailerValueLen THEN "ErrValueTooLarge"
    ELSE IF ~l.valOK THEN "ErrMalformed"
    ELSE None

TrailerFails ==
    /\ Reading("chunked") /\ state = "csTrailers"
    /\ \E l \in TrailerLines :
         /\ LineEnds(l)
         /\ TrailerError(l) # None
         /\ Fail(TrailerError(l))
    /\ UNCHANGED <<framing, remain, served, chunkVars, closeMark>>

\* A line of the trailer section is accepted.
TrailerLine(l) ==
    LineEnds(l) /\ TrailerError(l) = None /\ encoded' = encoded + l.len

\* Mutation: a field is published as it is read.
TrailerFieldEager ==
    /\ Reading("chunked") /\ state = "csTrailers"
    /\ \E l \in TrailerLines : ~l.blank /\ TrailerLine(l)
    /\ count' = count + 1 /\ trailers' = count + 1
    /\ UNCHANGED <<framing, remain, served, err, state, chunkRemain,
                   declared, callVars, closeMark>>

\* A field is held back until the section closes.
TrailerField ==
    /\ Reading("chunked") /\ state = "csTrailers"
    /\ \E l \in TrailerLines : ~l.blank /\ TrailerLine(l)
    /\ count' = count + 1
    /\ UNCHANGED <<framing, remain, served, err, state, chunkRemain, trailers,
                   declared, callVars, closeMark>>

\* The blank line publishes the fields held so far.
TrailersEnd ==
    /\ Reading("chunked") /\ state = "csTrailers"
    /\ \E l \in TrailerLines : l.blank /\ TrailerLine(l)
    /\ trailers' = count
    /\ state' = "csDone"
    /\ UNCHANGED <<framing, remain, served, err, chunkRemain, count, declared,
                   callVars, closeMark>>

ChunkDone ==
    /\ Reading("chunked") /\ state = "csDone"
    /\ Fail("EOF")
    /\ UNCHANGED <<framing, remain, served, chunkVars, wireVars, closeMark>>

-----------------------------------------------------------------------------
ReadStep ==
    \/ NoneRead \/ FixedStop \/ FixedRead
    \/ LineGoesOn \/ LineTooLong \/ LineTruncated
    \/ ChunkHeaderFails \/ ChunkHeader \/ ChunkData
    \/ DataCRLF \/ DataCRLFFails
    \/ TrailerFails \/ TrailerField \/ TrailersEnd \/ ChunkDone

Next ==
    \/ \E len \in ReadSizes : ReadRefused(len) \/ ReadCall(len)
    \/ CloseAgain \/ CloseSettled \/ CloseCall
    \/ ReadStep

Spec == Init /\ [][Next]_vars

\* A call in progress goes on: the connection delivers, ends or times out.
\* Nothing obliges the caller to call.
FairSpec == Spec /\ WF_vars(ReadStep)
-----------------------------------------------------------------------------
(* Properties. *)

TypeOK ==
    /\ framing \in [kind : Kinds, length : 0..MaxInt]
    /\ remain \in Nat /\ served \in Nat /\ consumed \in Nat /\ pos \in Nat
    /\ held \in Nat /\ empties \in 0..MaxEmptyReads
    /\ declared \in Nat /\ encoded \in Nat /\ chunkRemain \in Nat
    /\ trailers \in Nat /\ count \in Nat
    /\ err \in Errors \cup {None} /\ closeErr \in Errors \cup {None}
    /\ closed \in BOOLEAN /\ drained \in BOOLEAN
    /\ state \in ChunkStates
    /\ pc \in {"idle", "Read", "Close"}
    /\ want \in Nat /\ budget \in Int
    /\ result \in [n : Nat, err : Errors \cup {None}]
    /\ servedAtClose \in Nat /\ posAtClose \in Nat

\* No chunk that can arrive is so large that adding it to a served count
\* within the limit passes int64 (run body_overflow drops this).
NoWrap == \A l \in ChunkLines : MaxBodySize + l.size <= MaxInt

\* The caller is never handed more than MaxBodySize bytes, and a chunk is
\* refused before its bytes are read: what is served plus what is still owed
\* of the admitted chunk fits the budget (body.go:23, 305-309, 167-172).
ServedWithinLimit ==
    served <= MaxBodySize /\ (err = None => served + chunkRemain <= MaxBodySize)

\* io.EOF is reported only for a whole body: the declared length, or the last
\* chunk of the sizes declared, was handed out to the byte, and a connection
\* that ends anywhere else is a truncation (body.go:185-189, 242-247, 391).
EOFOnlyAtEnd ==
    err = "EOF" =>
        \/ framing.kind = "none" /\ served = 0
        \/ framing.kind = "fixed" /\ served = framing.length
        \/ /\ framing.kind = "chunked" /\ state = "csDone"
           /\ served = declared /\ chunkRemain = 0

\* The limit as documented: "bytes served to the caller" (body.go:23), a chunk
\* over it "refused before its bytes are read" (body.go:305-306).
BytesWithinMaxBodySize == served <= MaxBodySize

\* Chunk sizes are the only source of body bytes: at every point what was
\* served plus what the current chunk still owes is what the peer declared,
\* so no framing byte is ever handed out as data nor data eaten as framing.
ChunkAccounting ==
    framing.kind = "chunked" => served + chunkRemain = declared

\* The bytes the peer committed this body to: framing and data, to the end.
Encoding == IF framing.kind = "chunked" THEN encoded
            ELSE IF framing.kind = "fixed" THEN framing.length ELSE 0

\* Consumed() is where the next head parse starts, and it is added to at four
\* places.  On every path, failures in mid line or mid CRLF included, it is the
\* connection's real position; and when the body has ended that is the end of
\* the peer's encoding, not a byte before or after (body.go:178, 208-210, 237,
\* 317, 383).
ConsumedIsPosition == consumed = pos /\ (err = "EOF" => consumed = Encoding)

\* When Close has returned, it returned nil exactly when the connection is
\* reusable, and it is reusable only behind a body that ended: never after a
\* framing error, a truncation or an abandoned drain (body.go:496-497, 535-536).
CloseVerdict ==
    /\ drained => closed /\ err = "EOF"
    /\ closed /\ pc # "Close" => (drained <=> closeErr = None)

\* Draining hands out at most one body byte past MaxDrainSize, however the
\* chunks and the connection's reads cut the body (body.go:511-523).  Reads
\* that follow an abandoned Close are the caller's.
DrainBounded ==
    pc = "Close" => /\ served - servedAtClose = MaxDrainSize - budget
                    /\ want <= budget + 1

\* Trailer fields become visible with the end of the body and not before: a
\* section that fails half way shows none (body.go:108, 343, 481-483).
TrailersOnlyAtEnd ==
    pc = "idle" /\ trailers > 0 => err = "EOF" /\ trailers <= MaxTrailerCount

\* A terminal condition is final: no later call, Close included, changes it,
\* hands out a byte or takes one off the connection, so a caller that ignores
\* an error cannot walk into the next request (body.go:200-206).
ErrorIsFinal ==
    [][err # None => UNCHANGED <<err, served, consumed, pos, trailers>>]_vars

\* A Read with room never returns (0, nil), though the connection may answer
\* it so; it goes round again with no byte in hand, and returns exactly the
\* bytes it counts as served (body.go:143-145, 193-195, 249-255).
ReadMakesProgress ==
    [][pc = "Read" =>
         IF pc' = "Read" THEN served' = served
         ELSE /\ result'.n = served' - served /\ result'.n <= want
              /\ result'.n > 0 \/ result'.err # None]_vars

\* Every Read and every Close returns: no sequence of tiny chunks, trailers,
\* pieces of a line or (bounded) empty reads keeps a call going for ever.
CallsReturn == (pc # "idle") ~> (pc = "idle")

\* Limits.MaxDrainSize as documented: "bytes Close will read" (body.go:28),
\* "never reads more than Limits.MaxDrainSize" (body.go:491).
CloseReadsWithinDrainSize ==
    [][pc = "Close" => pos' - posAtClose <= MaxDrainSize]_vars

\* Drained as documented: "whether the body reached its end, by reading or by
\* draining" (body.go:535).
DrainedReportsEnd == pc = "idle" /\ err = "EOF" => drained

-----------------------------------------------------------------------------
\* The promise this reader implements.
Announced == IF framing.kind = "chunked" THEN declared
             ELSE IF framing.kind = "fixed" THEN framing.length ELSE 0

Outcome == IF err = None THEN "open" ELSE IF err = "EOF" THEN "whole" ELSE "failed"

Stream == INSTANCE BodyStream WITH
    Budget <- MaxBodySize, announced <- Announced, delivered <- served,
    outcome <- Outcome, reusable <- drained

\* Every behaviour of the reader is one of the abstract body stream.
ImplementsStream == Stream!Spec
=============================================================================
