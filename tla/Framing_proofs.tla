-------------------------- MODULE Framing_proofs --------------------------
(***************************************************************************)
(* Theorems about the framing table and the two number parsers, for every  *)
(* base, every width of the integers and numerals of every length.         *)
(***************************************************************************)
EXTENDS Framing, LeastNumber, TLAPS

\* The loop is what its recursive definition says.
LEMMA AccumulatedStep ==
    ASSUME NEW v, Len(v) \in Nat
    PROVE  /\ Accumulated(v)[0] = 0
           /\ \A i \in 1..Len(v) : Accumulated(v)[i] = NextDigit(Accumulated(v)[i - 1], v[i])
<1> DEFINE Of(n, k) == [i \in 0..k |-> IF i = 0 THEN 0 ELSE NextDigit(n[i - 1], v[i])]
           S == {k \in 0..Len(v) : \E n : n = Of(n, k)}
<1>1. 0 \in S
  <2> DEFINE n == [i \in 0..0 |-> 0]
  <2>1. n = Of(n, 0)
    OBVIOUS
  <2>2. \E m : m = Of(m, 0)
    <3> HIDE DEF n
    <3> QED
      BY <2>1
  <2> QED
    BY <2>2
<1>2. ASSUME NEW k \in 1..Len(v), k - 1 \in S PROVE k \in S
  <2>1. PICK n : n = Of(n, k - 1)
    BY <1>2
  <2> DEFINE e == [i \in 0..k |-> IF i = k THEN NextDigit(n[k - 1], v[k]) ELSE n[i]]
  <2>2. \A i \in 0..k - 1 : e[i] = n[i]
    OBVIOUS
  <2>3. ASSUME NEW i \in 0..k PROVE e[i] = Of(e, k)[i]
    <3>1. CASE i = k
      BY <2>2, <3>1
    <3>2. CASE i # k
      <4>1. e[i] = IF i = 0 THEN 0 ELSE NextDigit(n[i - 1], v[i])
        BY <2>1, <2>2, <3>2
      <4>2. i # 0 => e[i - 1] = n[i - 1]
        BY <2>2, <3>2
      <4> QED
        BY <4>1, <4>2
    <3> QED
      BY <3>1, <3>2
  <2>4. e = Of(e, k)
    BY <2>3
  <2>5. \E m : m = Of(m, k)
    <3> HIDE DEF e
    <3> QED
      BY <2>4
  <2> QED
    BY <2>5
<1>3. Len(v) \in S
  <2> HIDE DEF S
  <2>1. 0..Len(v) \subseteq S
    BY <1>1, <1>2, Reaches
  <2> QED
    BY <2>1
<1>4. \E n : n = Of(n, Len(v))
  BY <1>3
<1>5. Accumulated(v) = Of(Accumulated(v), Len(v))
  BY <1>4 DEF Accumulated
<1> QED
  BY <1>5

\* The same for the number a numeral names.
LEMMA PrefixesStep ==
    ASSUME NEW v, Len(v) \in Nat
    PROVE  /\ Prefixes(v)[0] = 0
           /\ \A i \in 1..Len(v) : Prefixes(v)[i] = Shifted(Prefixes(v)[i - 1], v[i])
<1> DEFINE Of(n, k) == [i \in 0..k |-> IF i = 0 THEN 0 ELSE Shifted(n[i - 1], v[i])]
           S == {k \in 0..Len(v) : \E n : n = Of(n, k)}
<1>1. 0 \in S
  <2> DEFINE n == [i \in 0..0 |-> 0]
  <2>1. n = Of(n, 0)
    OBVIOUS
  <2>2. \E m : m = Of(m, 0)
    <3> HIDE DEF n
    <3> QED
      BY <2>1
  <2> QED
    BY <2>2
<1>2. ASSUME NEW k \in 1..Len(v), k - 1 \in S PROVE k \in S
  <2>1. PICK n : n = Of(n, k - 1)
    BY <1>2
  <2> DEFINE e == [i \in 0..k |-> IF i = k THEN Shifted(n[k - 1], v[k]) ELSE n[i]]
  <2>2. \A i \in 0..k - 1 : e[i] = n[i]
    OBVIOUS
  <2>3. ASSUME NEW i \in 0..k PROVE e[i] = Of(e, k)[i]
    <3>1. CASE i = k
      BY <2>2, <3>1
    <3>2. CASE i # k
      <4>1. e[i] = IF i = 0 THEN 0 ELSE Shifted(n[i - 1], v[i])
        BY <2>1, <2>2, <3>2
      <4>2. i # 0 => e[i - 1] = n[i - 1]
        BY <2>2, <3>2
      <4> QED
        BY <4>1, <4>2
    <3> QED
      BY <3>1, <3>2
  <2>4. e = Of(e, k)
    BY <2>3
  <2>5. \E m : m = Of(m, k)
    <3> HIDE DEF e
    <3> QED
      BY <2>4
  <2> QED
    BY <2>5
<1>3. Len(v) \in S
  <2> HIDE DEF S
  <2>1. 0..Len(v) \subseteq S
    BY <1>1, <1>2, Reaches
  <2> QED
    BY <2>1
<1>4. \E n : n = Of(n, Len(v))
  BY <1>3
<1>5. Prefixes(v) = Of(Prefixes(v), Len(v))
  BY <1>4 DEF Prefixes
<1> QED
  BY <1>5

\* The guard of the loops refuses a digit exactly when the sum would not fit.
LEMMA GuardExact ==
    ASSUME NEW n \in Nat, NEW d \in 0..Base - 1
    PROVE  (n > (MaxInt - d) \div Base) <=> (n * Base + d > MaxInt)
<1>1. Base \in Nat /\ Base > 0 /\ MaxInt \in Nat
  BY FramingAssumption
<1>2. PICK q, r : /\ q = (MaxInt - d) \div Base /\ r = (MaxInt - d) % Base
                  /\ q \in Int /\ r \in 0..Base - 1 /\ MaxInt - d = q * Base + r
  BY <1>1
<1>3. n <= q => n * Base <= q * Base
  BY <1>1, <1>2
<1>4. n > q => n * Base >= q * Base + Base
  <2>1. n > q => (n - (q + 1)) * Base >= 0
    BY <1>1, <1>2
  <2> QED
    BY <1>1, <1>2, <2>1
<1>5. n * Base \in Int /\ q * Base \in Int
  BY <1>1, <1>2
<1> QED
  BY <1>1, <1>2, <1>3, <1>4, <1>5

\* int64 arithmetic is exact on what fits.
LEMMA WrapExact ==
    ASSUME NEW n \in 0..MaxInt
    PROVE  Wrap(n) = n
<1>1. MaxInt \in Nat
  BY FramingAssumption
<1> DEFINE w == 2 * (MaxInt + 1)
           a == n + MaxInt + 1
<1>2. w \in Nat /\ w > 0 /\ a \in Nat /\ a < w
  BY <1>1
<1>3. a % w = a
  <2> HIDE DEF w, a
  <2> QED
    BY <1>2
<1> QED
  BY <1>1, <1>3 DEF Wrap

\* Behind i digits the loop holds the number they name, if all of them are
\* digits and it fits, and has given up otherwise.
Reads(v, i) ==
    /\ Prefixes(v)[i] \in Nat
    /\ Accumulated(v)[i] =
         IF (\A j \in 1..i : v[j] # NotDigit) /\ Prefixes(v)[i] <= MaxInt
         THEN Prefixes(v)[i] ELSE Bad

LEMMA TimesGrows ==
    ASSUME NEW n \in Nat, NEW b \in Nat, b > 0
    PROVE  n * b \in Nat /\ n * b >= n
<1>1. PICK c \in Nat : b = c + 1
  <2>1. b - 1 \in Nat /\ b = (b - 1) + 1
    OBVIOUS
  <2> QED
    BY <2>1
<1>2. PICK p \in Nat : p = n * c
  OBVIOUS
<1>3. n * (c + 1) = n * c + n
  OBVIOUS
<1>4. n * b = p + n
  BY <1>1, <1>2, <1>3
<1> QED
  BY <1>2, <1>4

LEMMA ReadsStep ==
    ASSUME NEW v \in Seq(0..Base), NEW i \in 1..Len(v), Reads(v, i - 1)
    PROVE  Reads(v, i)
<1>1. Base \in Nat /\ Base > 0 /\ MaxInt \in Nat /\ Len(v) \in Nat
  BY FramingAssumption
<1>2. v[i] \in 0..Base
  <2>1. \A D : v \in Seq(D) => v[i] \in D
    OBVIOUS
  <2> QED
    BY <2>1
<1>3. PICK d : d = v[i] /\ d \in 0..Base
  BY <1>2
<1>4. PICK n : n = Prefixes(v)[i - 1] /\ n \in Nat
  BY DEF Reads
<1>5. PICK m : m = Prefixes(v)[i] /\ m = n * Base + d
  BY <1>1, <1>3, <1>4, PrefixesStep DEF Shifted
<1>6. n * Base \in Nat /\ n * Base >= n
  BY <1>1, <1>4, TimesGrows
<1>7. m \in Nat /\ m >= n
  <2>1. PICK p \in Nat : p = n * Base
    BY <1>6
  <2>2. m = p + d /\ p >= n
    BY <1>5, <1>6, <2>1
  <2>3. d \in Nat /\ n \in Nat
    BY <1>1, <1>3, <1>4
  <2> QED
    BY <2>2, <2>3
<1>8. Accumulated(v)[i] = NextDigit(Accumulated(v)[i - 1], d)
  BY <1>1, <1>3, AccumulatedStep
<1>9. (\A j \in 1..i : v[j] # NotDigit) <=> (\A j \in 1..i - 1 : v[j] # NotDigit) /\ d # NotDigit
  BY <1>3
<1>10. CASE ~(\A j \in 1..i - 1 : v[j] # NotDigit)
  <2>1. Accumulated(v)[i - 1] = Bad
    BY <1>10 DEF Reads
  <2>2. Accumulated(v)[i] = Bad
    BY <1>8, <2>1 DEF NextDigit
  <2> QED
    BY <1>5, <1>7, <1>9, <1>10, <2>2 DEF Reads
<1>11. CASE n > MaxInt
  <2>1. Accumulated(v)[i - 1] = Bad
    BY <1>1, <1>4, <1>11 DEF Reads
  <2>2. Accumulated(v)[i] = Bad
    BY <1>8, <2>1 DEF NextDigit
  <2>3. m > MaxInt
    BY <1>1, <1>4, <1>7, <1>11
  <2> QED
    BY <1>1, <1>5, <1>7, <2>2, <2>3 DEF Reads
<1>12. CASE (\A j \in 1..i - 1 : v[j] # NotDigit) /\ n <= MaxInt
  <2>1. Accumulated(v)[i - 1] = n /\ n # Bad
    BY <1>4, <1>12 DEF Reads, Bad
  <2>2. CASE d = NotDigit
    <3>1. Accumulated(v)[i] = Bad
      BY <1>8, <2>2 DEF NextDigit
    <3> QED
      BY <1>5, <1>7, <1>9, <2>2, <3>1 DEF Reads
  <2>3. CASE d # NotDigit
    <3>1. d \in 0..Base - 1
      BY <1>1, <1>3, <2>3 DEF NotDigit
    <3>2. (n > (MaxInt - d) \div Base) <=> (m > MaxInt)
      BY <1>4, <1>5, <3>1, GuardExact
    <3>3. m <= MaxInt => Wrap(m) = m
      BY <1>1, <1>7, WrapExact
    <3>4. Accumulated(v)[i] = IF m > MaxInt THEN Bad ELSE Wrap(m)
      BY <1>5, <1>8, <2>1, <2>3, <3>2 DEF NextDigit, Shifted
    <3>5. Accumulated(v)[i] = IF m <= MaxInt THEN m ELSE Bad
      BY <1>1, <1>7, <3>3, <3>4
    <3> QED
      BY <1>5, <1>7, <1>9, <1>12, <2>3, <3>5 DEF Reads
  <2> QED
    BY <2>2, <2>3
<1> QED
  BY <1>1, <1>4, <1>10, <1>11, <1>12

LEMMA LoopExact ==
    ASSUME NEW v \in Seq(0..Base)
    PROVE  /\ Value(v) \in Nat
           /\ Accumulated(v)[Len(v)] =
                IF (\A j \in DOMAIN v : v[j] # NotDigit) /\ Value(v) <= MaxInt
                THEN Value(v) ELSE Bad
<1> DEFINE S == {i \in 0..Len(v) : Reads(v, i)}
<1>1. 0 \in S
  <2>1. Prefixes(v)[0] = 0 /\ Accumulated(v)[0] = 0
    BY AccumulatedStep, PrefixesStep
  <2> QED
    BY <2>1, FramingAssumption DEF Reads
<1>2. \A i \in 1..Len(v) : i - 1 \in S => i \in S
  BY ReadsStep
<1>3. 0..Len(v) \subseteq S
  <2>1. Len(v) \in Nat
    OBVIOUS
  <2> HIDE DEF S
  <2> QED
    BY <1>1, <1>2, <2>1, Reaches
<1>4. Reads(v, Len(v)) /\ DOMAIN v = 1..Len(v)
  BY <1>3
<1> QED
  BY <1>4 DEF Reads, Value

\* parseHexInt64 (http1/body.go:407-430) on every input.
LEMMA HexExact ==
    ASSUME NEW v \in Seq(0..Base)
    PROVE  parseHexInt64(v) = IF IsNumeral(v) /\ Value(v) <= MaxInt THEN Value(v) ELSE Bad
  BY LoopExact DEF parseHexInt64, IsNumeral

\* parseContentLength (framing.go:97-113) on every input.
LEMMA ContentLengthExact ==
    ASSUME NEW v \in Seq(0..Base)
    PROVE  /\ Value(v) \in Nat
           /\ parseContentLength(v) =
                IF IsNumeral(v) /\ Len(v) <= MaxDigits /\ Value(v) <= MaxInt
                THEN Value(v) ELSE Bad
<1>1. v = <<>> => ~IsNumeral(v)
  BY DEF IsNumeral
<1>2. Len(v) \in Nat /\ MaxDigits \in Nat
  BY FramingAssumption
<1> QED
  BY <1>1, <1>2, LoopExact DEF parseContentLength, IsNumeral

\* What a sequence is, for sequences of sequences.
LEMMA SeqFacts ==
    ASSUME NEW D, NEW s \in Seq(D)
    PROVE  /\ Len(s) \in Nat /\ DOMAIN s = 1..Len(s)
           /\ (Len(s) = 0) <=> (s = <<>>)
           /\ \A i \in 1..Len(s) : s[i] \in D
  OBVIOUS

\* The shape of the heads the table accepts.
LEMMA Accepted ==
    ASSUME NEW c \in Seq(Seq(0..Base)), NEW t \in Seq(STRING),
           FramingOf(c, t).kind # "error"
    PROVE  \/ /\ Len(t) = 1 /\ t[1] = "chunked" /\ c = <<>>
              /\ FramingOf(c, t) = Chunked
           \/ /\ t = <<>> /\ c = <<>>
              /\ FramingOf(c, t) = NoBody
           \/ /\ t = <<>> /\ Len(c) = 1 /\ parseContentLength(c[1]) # Bad
              /\ FramingOf(c, t) = FixedLength(parseContentLength(c[1]))
<1>1. \A e : Refused(e).kind = "error"
  BY DEF Refused
<1>2. /\ Len(t) \in Nat /\ Len(c) \in Nat
      /\ (Len(t) = 0 <=> t = <<>>) /\ (Len(c) = 0 <=> c = <<>>)
  BY SeqFacts
<1>3. CASE Len(t) = 1
  BY <1>1, <1>2, <1>3 DEF FramingOf, ValidTransferEncoding
<1>4. CASE Len(t) > 1
  BY <1>1, <1>2, <1>4 DEF FramingOf
<1>5. CASE Len(t) = 0 /\ Len(c) = 0
  BY <1>1, <1>2, <1>5 DEF FramingOf
<1>6. CASE Len(t) = 0 /\ Len(c) = 1
  BY <1>1, <1>2, <1>6 DEF FramingOf
<1>7. CASE Len(t) = 0 /\ Len(c) > 1
  BY <1>1, <1>2, <1>7 DEF FramingOf
<1>8. \A m, n \in Nat : m = 1 \/ m > 1 \/ (m = 0 /\ (n = 0 \/ n = 1 \/ n > 1))
  OBVIOUS
<1> QED
  BY <1>2, <1>3, <1>4, <1>5, <1>6, <1>7, <1>8

LEMMA AcceptedHasOneReading ==
    ASSUME NEW c \in Seq(Seq(0..Base)), NEW t \in Seq(STRING),
           FramingOf(c, t).kind # "error"
    PROVE  OtherReadings(c, t) = {FramingOf(c, t)}
<1> DEFINE lengths == UNION {IF IsNumeral(c[i])
                             THEN {FixedLength(Value(c[i])), FixedLength(Wrap(Value(c[i])))}
                             ELSE {Refused("cl")} : i \in DOMAIN c}
<1>1. CASE Len(t) = 1 /\ t[1] = "chunked" /\ c = <<>> /\ FramingOf(c, t) = Chunked
  <2>1. DOMAIN t = {1} /\ DOMAIN c = {} /\ t # <<>>
    <3>1. 1..1 = {1}
      OBVIOUS
    <3> QED
      BY <1>1, <3>1, SeqFacts
  <2>2. lengths = {}
    BY <2>1
  <2>3. OtherReadings(c, t) = {Chunked}
    BY <1>1, <2>1, <2>2 DEF OtherReadings
  <2> QED
    BY <1>1, <2>3
<1>2. CASE t = <<>> /\ c = <<>> /\ FramingOf(c, t) = NoBody
  <2>1. DOMAIN t = {} /\ DOMAIN c = {}
    BY <1>2
  <2>2. lengths = {}
    BY <2>1
  <2>3. OtherReadings(c, t) = {NoBody}
    BY <1>2, <2>1, <2>2 DEF OtherReadings
  <2> QED
    BY <1>2, <2>3
<1>3. CASE /\ t = <<>> /\ Len(c) = 1 /\ parseContentLength(c[1]) # Bad
           /\ FramingOf(c, t) = FixedLength(parseContentLength(c[1]))
  <2>1. DOMAIN t = {} /\ DOMAIN c = {1} /\ c # <<>>
    BY <1>3
  <2>2. c[1] \in Seq(0..Base)
    <3>1. 1 \in 1..Len(c)
      BY <1>3
    <3> QED
      BY <3>1, SeqFacts
  <2>3. /\ IsNumeral(c[1]) /\ Value(c[1]) \in 0..MaxInt
        /\ parseContentLength(c[1]) = Value(c[1])
    BY <1>3, <2>2, ContentLengthExact, FramingAssumption
  <2>4. Wrap(Value(c[1])) = Value(c[1])
    BY <2>3, WrapExact
  <2>5. lengths = {FixedLength(Value(c[1]))}
    BY <2>1, <2>3, <2>4
  <2>6. OtherReadings(c, t) = {FixedLength(Value(c[1]))}
    BY <2>1, <2>5 DEF OtherReadings
  <2> QED
    BY <1>3, <2>3, <2>6
<1> QED
  BY <1>1, <1>2, <1>3, Accepted

LEMMA RefusedIsNotPlain ==
    ASSUME NEW c \in Seq(Seq(0..Base)), NEW t \in Seq(STRING),
           FramingOf(c, t).kind = "error"
    PROVE  \/ Len(c) + Len(t) > 1
           \/ \E i \in DOMAIN t : t[i] # "chunked"
           \/ \E i \in DOMAIN c : ~IsNumeral(c[i]) \/ Len(c[i]) > MaxDigits \/ Value(c[i]) > MaxInt
<1>1. \A n : Chunked.kind # "error" /\ NoBody.kind # "error" /\ FixedLength(n).kind # "error"
  BY DEF Chunked, NoBody, FixedLength
<1>2. SUFFICES ASSUME Len(c) + Len(t) <= 1 PROVE
           \/ \E i \in DOMAIN t : t[i] # "chunked"
           \/ \E i \in DOMAIN c : ~IsNumeral(c[i]) \/ Len(c[i]) > MaxDigits \/ Value(c[i]) > MaxInt
  OBVIOUS
<1>3. CASE Len(t) = 1
  <2>1. c = <<>> /\ DOMAIN t = {1}
    BY <1>2, <1>3
  <2>2. t[1] # "chunked"
    BY <1>1, <1>3, <2>1 DEF FramingOf, ValidTransferEncoding
  <2> QED
    BY <2>1, <2>2
<1>4. CASE Len(t) = 0 /\ Len(c) = 0
  <2>1. c = <<>>
    BY <1>4
  <2> QED
    BY <1>1, <1>4, <2>1 DEF FramingOf
<1>5. CASE Len(t) = 0 /\ Len(c) = 1
  <2>1. c # <<>> /\ DOMAIN c = {1}
    <3>1. 1..1 = {1}
      OBVIOUS
    <3> QED
      BY <1>5, <3>1, SeqFacts
  <2>2. parseContentLength(c[1]) = Bad
    BY <1>1, <1>5, <2>1 DEF FramingOf
  <2>3. c[1] \in Seq(0..Base)
    <3>1. 1 \in 1..Len(c)
      BY <1>5
    <3> QED
      BY <3>1, SeqFacts
  <2>4. ~IsNumeral(c[1]) \/ ~(Len(c[1]) <= MaxDigits) \/ ~(Value(c[1]) <= MaxInt)
    BY <2>2, <2>3, ContentLengthExact DEF Bad
  <2>5. Len(c[1]) \in Nat /\ Value(c[1]) \in Nat /\ MaxDigits \in Nat /\ MaxInt \in Nat
    BY <2>3, ContentLengthExact, FramingAssumption
  <2> QED
    BY <2>1, <2>4, <2>5
<1>6. Len(t) \in Nat /\ Len(c) \in Nat
  BY SeqFacts
<1>7. \/ Len(t) = 1 /\ Len(c) = 0
      \/ Len(t) = 0 /\ Len(c) = 0
      \/ Len(t) = 0 /\ Len(c) = 1
  <2>1. \A m, n \in Nat : n + m <= 1 => \/ m = 1 /\ n = 0
                                        \/ m = 0 /\ n = 0
                                        \/ m = 0 /\ n = 1
    OBVIOUS
  <2> QED
    BY <1>2, <1>6, <2>1
<1> QED
  BY <1>3, <1>4, <1>5, <1>7

-----------------------------------------------------------------------------
(* The theorems. *)

\* Whatever was asked, the answer is what the code returns for it.
AnswerTrue ==
    \/ answer = Unasked
    \/ \E c \in CLLists, t \in TELists :
         answer = [asked |-> "framing", cl |-> c, te |-> t, verdict |-> FramingOf(c, t)]
    \/ \E v \in Numerals :
         answer = [asked |-> "size", numeral |-> v, n |-> parseHexInt64(v)]

LEMMA AnswerAlways == Spec => []AnswerTrue
<1>1. Init => AnswerTrue
  BY DEF Init, AnswerTrue
<1>2. AnswerTrue /\ [Next]_answer => AnswerTrue'
  BY DEF AnswerTrue, Next, Decide, ReadSize
<1> QED
  BY <1>1, <1>2, PTL DEF Spec

\* A head that FramingOf (framing.go:58-92) accepts has one reading, whatever
\* the base, the width and the two lists of values are.
THEOREM HeadsHaveOneReading == Spec => []OneReading
<1>1. AnswerTrue => OneReading
  <2>1. SUFFICES ASSUME AnswerTrue, answer.asked = "framing", answer.verdict.kind # "error"
                 PROVE  OtherReadings(answer.cl, answer.te) = {answer.verdict}
    BY DEF OneReading
  <2>2. PICK c \in CLLists, t \in TELists :
           answer = [asked |-> "framing", cl |-> c, te |-> t, verdict |-> FramingOf(c, t)]
    BY <2>1 DEF AnswerTrue, Unasked
  <2>3. c \in Seq(Seq(0..Base)) /\ t \in Seq(STRING)
    BY FramingAssumption
  <2> QED
    BY <2>1, <2>2, <2>3, AcceptedHasOneReading
<1> QED
  BY <1>1, AnswerAlways, PTL

\* A head it refuses really had something wrong with its lengths.
THEOREM PlainHeadsPass == Spec => []PlainHeadsAccepted
<1>1. AnswerTrue => PlainHeadsAccepted
  <2>1. SUFFICES ASSUME AnswerTrue, answer.asked = "framing", answer.verdict.kind = "error"
                 PROVE  PlainHeadsAccepted
    BY DEF PlainHeadsAccepted
  <2>2. PICK c \in CLLists, t \in TELists :
           answer = [asked |-> "framing", cl |-> c, te |-> t, verdict |-> FramingOf(c, t)]
    BY <2>1 DEF AnswerTrue, Unasked
  <2>3. c \in Seq(Seq(0..Base)) /\ t \in Seq(STRING)
    BY FramingAssumption
  <2> QED
    BY <2>1, <2>2, <2>3, RefusedIsNotPlain DEF PlainHeadsAccepted
<1> QED
  BY <1>1, AnswerAlways, PTL

\* A chunk size (http1/body.go:407-430) is exact or refused, for numerals of
\* every length: no boundary wraps.
THEOREM ChunkSizesExact == Spec => []ChunkSizeExact
<1>1. AnswerTrue => ChunkSizeExact
  <2>1. SUFFICES ASSUME AnswerTrue, answer.asked = "size" PROVE ChunkSizeExact
    BY DEF ChunkSizeExact
  <2>2. PICK v \in Numerals : answer = [asked |-> "size", numeral |-> v, n |-> parseHexInt64(v)]
    BY <2>1 DEF AnswerTrue, Unasked
  <2>3. v \in Seq(0..Base)
    BY FramingAssumption
  <2> QED
    BY <2>2, <2>3, HexExact DEF ChunkSizeExact
<1> QED
  BY <1>1, AnswerAlways, PTL
=============================================================================
