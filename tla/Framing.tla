------------------------------ MODULE Framing ------------------------------
(***************************************************************************)
(* http1/framing.go, the decision table that says how a request body is    *)
(* delimited, and the two number parsers body boundaries depend on:        *)
(* parseContentLength, and parseHexInt64 of http1/body.go.                 *)
(*                                                                         *)
(* A field value is a sequence of digits 0 .. Base - 1, or NotDigit for    *)
(* any other byte (a sign, a space, a letter).  The code has bases 10 and  *)
(* 16, 19 digits and a 63-bit maximum; the relation between the base, the  *)
(* digit limit and the maximum is what matters and is kept small here.     *)
(***************************************************************************)
EXTENDS Integers, Sequences

CONSTANTS
    Base,        \* of the numerals
    MaxDigits,   \* the width of MaxInt in that base (19 in the code)
    MaxInt,      \* the largest int64; the integers wrap modulo 2 * (MaxInt + 1)
    CLLists,     \* the occurrence lists of Content-Length a head may carry
    TELists,     \* the same of Transfer-Encoding
    Numerals     \* what may stand where a number is due

ASSUME FramingAssumption ==
    /\ Base \in Nat \ {0, 1} /\ MaxInt \in Nat /\ MaxDigits \in Nat
    /\ Base ^ (MaxDigits - 1) <= MaxInt /\ MaxInt < Base ^ MaxDigits
    /\ CLLists \subseteq Seq(Seq(0..Base)) /\ TELists \subseteq Seq(STRING)
    /\ Numerals \subseteq Seq(0..Base)

NotDigit == Base
Bad      == -1

VARIABLE answer   \* the question asked, and what the code returned

-----------------------------------------------------------------------------
(* Numbers. *)

\* int64 arithmetic.
Wrap(n) == ((n + MaxInt + 1) % (2 * (MaxInt + 1))) - (MaxInt + 1)

\* The number n with one more digit.
Shifted(n, d) == n * Base + d

\* Mutation: the guard forgets the digit that is about to be added.
NextDigitLoose(n, d) ==
    IF n = Bad \/ d = NotDigit \/ n > MaxInt \div Base THEN Bad
    ELSE Wrap(Shifted(n, d))

\* One step of either parser's loop; Bad sticks, as an early return would.
NextDigit(n, d) ==
    IF n = Bad \/ d = NotDigit \/ n > (MaxInt - d) \div Base THEN Bad
    ELSE Wrap(Shifted(n, d))

\* The loop over the digits of v; entry i is its n behind i of them.
Accumulated(v) ==
    LET n[i \in 0..Len(v)] == IF i = 0 THEN 0 ELSE NextDigit(n[i - 1], v[i])
    IN  n

\* Mutation: numerals as wide as MaxInt itself are thought too long.
parseContentLengthNarrow(v) ==
    IF v = <<>> \/ Len(v) >= MaxDigits THEN Bad ELSE Accumulated(v)[Len(v)]

parseContentLength(v) ==
    IF v = <<>> \/ Len(v) > MaxDigits THEN Bad ELSE Accumulated(v)[Len(v)]

parseHexInt64(v) == IF v = <<>> THEN Bad ELSE Accumulated(v)[Len(v)]

-----------------------------------------------------------------------------
(* The table. *)

NoBody         == [kind |-> "none",    length |-> 0]
Chunked        == [kind |-> "chunked", length |-> 0]
FixedLength(n) == [kind |-> "fixed",   length |-> n]
Refused(e)     == [kind |-> "error",   error |-> e]

ValidTransferEncoding(v) == v = "chunked"

\* Mutation: Transfer-Encoding simply takes precedence, as Go's reader has it.
FramingOfLenient(c, t) ==
    IF t # <<>> THEN IF \E i \in DOMAIN t : ~ValidTransferEncoding(t[i])
                     THEN Refused("ErrBadTransferEncoding") ELSE Chunked
    ELSE IF c = <<>> THEN NoBody
    ELSE IF parseContentLength(c[1]) = Bad THEN Refused("ErrBadContentLength")
    ELSE FixedLength(parseContentLength(c[1]))

FramingOf(c, t) ==
    IF Len(t) > 1 THEN Refused("ErrBadTransferEncoding")
    ELSE IF Len(t) = 1 THEN
        IF ~ValidTransferEncoding(t[1]) THEN Refused("ErrBadTransferEncoding")
        ELSE IF c # <<>> THEN Refused("ErrAmbiguousFraming")
        ELSE Chunked
    ELSE IF c = <<>> THEN NoBody
    ELSE IF Len(c) > 1 THEN Refused("ErrAmbiguousFraming")
    ELSE IF parseContentLength(c[1]) = Bad THEN Refused("ErrBadContentLength")
    ELSE FixedLength(parseContentLength(c[1]))

-----------------------------------------------------------------------------
Unasked == [asked |-> "nothing"]

Init == answer = Unasked

Decide ==
    /\ answer = Unasked
    /\ \E c \in CLLists, t \in TELists :
         answer' = [asked |-> "framing", cl |-> c, te |-> t, verdict |-> FramingOf(c, t)]

ReadSize ==
    /\ answer = Unasked
    /\ \E v \in Numerals :
         answer' = [asked |-> "size", numeral |-> v, n |-> parseHexInt64(v)]

Next == Decide \/ ReadSize

Spec == Init /\ [][Next]_answer

-----------------------------------------------------------------------------
(* Properties. *)

IsNumeral(v) == v # <<>> /\ \A i \in DOMAIN v : v[i] # NotDigit

\* The number a numeral names, without any width: entry i is that of its first
\* i digits.
Prefixes(v) ==
    LET n[i \in 0..Len(v)] == IF i = 0 THEN 0 ELSE Shifted(n[i - 1], v[i])
    IN  n

Value(v) == Prefixes(v)[Len(v)]

\* The ways some other hop might frame the body of the same head: either
\* header obeyed, any one of several occurrences taken, a numeral read with or
\* without wrapping, and anything unusual skipped.
OtherReadings(c, t) ==
    (IF \E i \in DOMAIN t : t[i] = "chunked" THEN {Chunked} ELSE {}) \cup
    (IF \E i \in DOMAIN t : t[i] # "chunked" THEN {Refused("te")} ELSE {}) \cup
    (UNION {IF IsNumeral(c[i])
            THEN {FixedLength(Value(c[i])), FixedLength(Wrap(Value(c[i])))}
            ELSE {Refused("cl")} : i \in DOMAIN c}) \cup
    (IF c = <<>> /\ t = <<>> THEN {NoBody} ELSE {})

\* A head that is accepted has one reading: no other hop, however lenient, can
\* put the end of this body anywhere else (framing.go:5-11, 94-96).
OneReading ==
    answer.asked = "framing" /\ answer.verdict.kind # "error" =>
        OtherReadings(answer.cl, answer.te) = {answer.verdict}

\* The strictness costs nothing legitimate: a head is refused only if it names
\* its length twice, or names it with something that is no length: a bad
\* numeral, one past int64 or padded past its width, or another coding.
PlainHeadsAccepted ==
    answer.asked = "framing" /\ answer.verdict.kind = "error" =>
        \/ Len(answer.cl) + Len(answer.te) > 1
        \/ \E i \in DOMAIN answer.te : answer.te[i] # "chunked"
        \/ \E i \in DOMAIN answer.cl :
             \/ ~IsNumeral(answer.cl[i])
             \/ Len(answer.cl[i]) > MaxDigits \/ Value(answer.cl[i]) > MaxInt

\* A chunk size is the number its digits name whenever that fits, leading
\* zeros included, and is refused otherwise: a boundary never wraps
\* (body.go:403-406).
ChunkSizeExact ==
    answer.asked = "size" =>
        answer.n = IF IsNumeral(answer.numeral) /\ Value(answer.numeral) <= MaxInt
                   THEN Value(answer.numeral) ELSE Bad
=============================================================================
