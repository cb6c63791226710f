------------------------- MODULE Connection_proofs -------------------------
(***************************************************************************)
(* Theorems about the head parser and the connection that uses it, for     *)
(* every peer, every way the bytes arrive and all limits.                  *)
(***************************************************************************)
EXTENDS Connection, LeastNumber, TLAPS

\* Min of a set of naturals is its least element.
LEMMA MinIsLeast ==
    ASSUME NEW T \in SUBSET Nat, T # {}
    PROVE  Min(T) \in T /\ \A n \in T : Min(T) <= n
  BY LeastNatural DEF Min

\* What is known of every wire.
LEMMA WireFacts ==
    ASSUME NEW w \in Wires
    PROVE  /\ Len(w.lines) \in Nat /\ DOMAIN w.lines = 1..Len(w.lines)
           /\ \A i \in 1..Len(w.lines) : IsLine(w.lines[i])
           /\ \A i \in 1..Len(w.lines) + 1 : Start(w, i) \in Nat
           /\ \A i \in 1..Len(w.lines) : Start(w, i + 1) = w.lines[i].end
           /\ \A i \in 1..Len(w.lines) : w.lines[i].end \in Nat
                /\ w.lines[i].end >= Start(w, i) + (IF w.lines[i].crlf THEN 2 ELSE 1)
           /\ \A i, j \in 1..Len(w.lines) + 1 : i < j => Start(w, i) < Start(w, j)
           /\ Size(w) = Start(w, Len(w.lines) + 1)
<1>1. Len(w.lines) \in Nat /\ DOMAIN w.lines = 1..Len(w.lines)
  BY WireAssumption
<1>2. \A i \in 1..Len(w.lines) : IsLine(w.lines[i]) /\ w.lines[i].end \in Nat
  BY <1>1, WireAssumption DEF IsLine
<1>3. \A i \in 1..Len(w.lines) : Start(w, i + 1) = w.lines[i].end
  BY <1>1 DEF Start
<1>4. \A i \in 1..Len(w.lines) + 1 : Start(w, i) \in Nat
  BY <1>1, <1>2 DEF Start
<1> QED
  BY <1>1, <1>2, <1>3, <1>4, WireAssumption DEF Size

\* A line is found by any of its bytes.
LEMMA LineAtByte ==
    ASSUME NEW w \in Wires, NEW i \in 1..Len(w.lines) + 1, NEW p \in Nat,
           Start(w, i) <= p, i <= Len(w.lines) => p < w.lines[i].end
    PROVE  LineAt(w, p) = i
<1> DEFINE P(k) == /\ Start(w, k) <= p
                   /\ k <= Len(w.lines) => p < w.lines[k].end
<1>1. P(i)
  OBVIOUS
<1>2. ASSUME NEW k \in 1..Len(w.lines) + 1, P(k) PROVE k = i
  <2>1. ASSUME NEW m \in 1..Len(w.lines) + 1, NEW n \in 1..Len(w.lines) + 1, P(m), P(n), m < n
        PROVE  FALSE
    <3>1. m \in 1..Len(w.lines) /\ m + 1 \in 1..Len(w.lines) + 1
      BY <2>1, WireFacts
    <3>2. Start(w, m + 1) = w.lines[m].end /\ p < w.lines[m].end
      BY <2>1, <3>1, WireFacts
    <3>3. m + 1 = n \/ m + 1 < n
      BY <2>1, <3>1, WireFacts
    <3>4. Start(w, m + 1) <= Start(w, n)
      BY <2>1, <3>1, <3>3, WireFacts
    <3>5. Start(w, n) \in Nat /\ Start(w, m + 1) \in Nat
      BY <3>1, <2>1, WireFacts
    <3> QED
      BY <2>1, <3>2, <3>4, <3>5
  <2> QED
    BY <1>1, <1>2, <2>1, WireFacts
<1> QED
  BY <1>1, <1>2 DEF LineAt

\* In particular by its first.
LEMMA LineAtStart ==
    ASSUME NEW w \in Wires, NEW i \in 1..Len(w.lines) + 1
    PROVE  LineAt(w, Start(w, i)) = i
<1>1. Start(w, i) \in Nat /\ (i <= Len(w.lines) => Start(w, i) < w.lines[i].end)
  BY WireFacts
<1> QED
  BY <1>1, LineAtByte

\* The lines that have arrived are the first ones.
LEMMA ReceivedPrefix ==
    ASSUME wire \in Wires, got \in Nat, NEW i, NEW j, Received(j), i \in 1..j
    PROVE  Received(i)
<1>1. i \in 1..Len(wire.lines) /\ j \in 1..Len(wire.lines) /\ i <= j
  BY WireFacts DEF Received
<1>2. wire.lines[i].end <= wire.lines[j].end
  <2>1. i + 1 \in 1..Len(wire.lines) + 1 /\ j + 1 \in 1..Len(wire.lines) + 1
    BY <1>1, WireFacts
  <2>2. Start(wire, i + 1) = wire.lines[i].end /\ Start(wire, j + 1) = wire.lines[j].end
    BY <1>1, WireFacts
  <2> QED
    BY <1>1, <2>1, <2>2, WireFacts
<1>3. wire.lines[i].end \in Nat /\ wire.lines[j].end \in Nat
  BY <1>1, WireFacts
<1>4. i \in DOMAIN wire.lines
  BY <1>1, WireFacts
<1>5. wire.lines[i].end <= got
  <2>1. wire.lines[j].end <= got
    BY DEF Received
  <2> QED
    BY <1>2, <1>3, <2>1
<1> QED
  BY <1>4, <1>5 DEF Received

-----------------------------------------------------------------------------
(* The inductive invariant. *)

\* A framing view holds the one field of its name in the head at f before line k,
\* if there is one.
View(v, name, f, k) ==
    \/ FieldsOf(wire, f, k, name) = {} /\ v = <<>>
    \/ \E i \in FieldsOf(wire, f, k, name) :
         FieldsOf(wire, f, k, name) = {i} /\ v = <<wire.lines[i].value>>

\* The walk from line f has passed the lines before line k, every one an ordinary
\* field; a field takes at least two bytes, which is what the scratch is sized by.
Walked(f, k) ==
    /\ GoodRequestLine(f) /\ Received(f)
    /\ k \in f + 1 .. Len(wire.lines) + 1
    /\ \A i \in f + 1 .. k - 1 : GoesOn(f, i)
    /\ Start(wire, k) >= wire.lines[f].end + 2 * (k - f - 1)
    /\ headers = [i \in 1 .. k - f - 1 |-> f + i]
    /\ View(cl, "Content-Length", f, k) /\ View(te, "Transfer-Encoding", f, k)

\* A Host that is not empty stands before line k.
HostGiven(f, k) ==
    \E i \in f + 1 .. k - 1 : wire.lines[i].name = "Host" /\ wire.lines[i].length > 0

\* What the walk has counted is what the lines say.
WalkInv ==
    phase = "walk" =>
        /\ Walked(First, line) /\ lineEnds >= Scratch
        /\ seen = {n \in Singletons : FieldsOf(wire, First, line, n) # {}}
        /\ hostNonEmpty <=> HostGiven(First, line)

AcceptedInv ==
    phase \in {"answered", "body"} /\ verdict = OK =>
        /\ Walked(First, line) /\ Received(line) /\ Offences(First, line) = {}
        /\ wire.lines[line].kind = "blank" /\ wire.lines[line].crlf
        /\ consumed = wire.lines[line].end - base

\* A body is served up to a boundary of the sender's.
BodyInv == phase = "body" => verdict = OK /\ bodyEnd \in wire.starts

Placed == phase # "closed" => First \in 1..Len(wire.lines) + 1 /\ Start(wire, First) = base

ConnInv ==
    /\ wire \in Wires /\ TypeOK /\ InStep /\ Placed
    /\ WalkInv /\ AcceptedInv /\ BodyInv /\ VerdictJustified

\* Where the sender begins a message a line begins.
LEMMA StartsPlaced ==
    ASSUME NEW w \in Wires, NEW s \in w.starts, s <= Size(w)
    PROVE  LineAt(w, s) \in 1..Len(w.lines) + 1 /\ Start(w, LineAt(w, s)) = s
<1>1. PICK i \in 1..Len(w.lines) + 1 : Start(w, i) = s
  BY SenderAssumption
<1> QED
  BY <1>1, LineAtStart

\* The head depends on the connection's bytes and on nothing that moves in it.
LEMMA SameHead ==
    ASSUME UNCHANGED <<wire, profile, base>>
    PROVE  /\ First' = First /\ lim' = lim
           /\ \A f, i : Offences(f, i)' = Offences(f, i)
           /\ \A f, i : GoesOn(f, i)' = GoesOn(f, i)
           /\ \A f, i : Decides(f, i)' = Decides(f, i)
           /\ \A f : GoodRequestLine(f)' = GoodRequestLine(f)
<1>1. First' = First /\ lim' = lim
  BY DEF First, lim
<1>2. \A f, i : Offences(f, i)' = Offences(f, i)
  BY <1>1 DEF Offences, Malformed, HostMissing
<1>3. \A f, i : GoesOn(f, i)' = GoesOn(f, i)
  BY <1>2 DEF GoesOn
<1>4. \A f, i : Decides(f, i)' = Decides(f, i)
  BY <1>3 DEF Decides
<1>5. \A f : GoodRequestLine(f)' = GoodRequestLine(f)
  BY <1>1 DEF GoodRequestLine
<1> QED
  BY <1>1, <1>2, <1>3, <1>4, <1>5

LEMMA InitConn == Init => ConnInv
<1> SUFFICES ASSUME Init PROVE ConnInv
  OBVIOUS
<1>1. wire \in Wires /\ profile \in Profiles
  BY DEF Init
<1>2. PICK r \in Requests : lineEnds = r.lineEnds
  BY DEF Init
<1>3. lineEnds \in Nat
  BY <1>2, RequestAssumption
<1>4. 0 \in wire.starts /\ Size(wire) \in Nat /\ Len(wire.lines) \in Nat
  BY <1>1, SenderAssumption, WireFacts
<1>5. TypeOK
  <2>1. base \in 0..Size(wire) /\ got \in base..Size(wire) /\ line \in 1..Len(wire.lines) + 1
    BY <1>4 DEF Init
  <2> QED
    BY <1>1, <1>3, <2>1 DEF Init, TypeOK, Verdicts
<1>6. Placed
  BY <1>1, <1>4, StartsPlaced DEF Init, Placed, First
<1> QED
  BY <1>1, <1>4, <1>5, <1>6
     DEF Init, ConnInv, InStep, WalkInv, AcceptedInv, BodyInv, VerdictJustified, None

-----------------------------------------------------------------------------
(* The request line. *)

\* Nothing of the head is left to read: the steps of Parse keep the bytes and
\* only move within the head.
LEMMA RequestLineStep ==
    ASSUME ConnInv, RequestLine, UNCHANGED <<bodyEnd, refusal>>
    PROVE  ConnInv'
<1>1. /\ wire \in Wires /\ phase = "head" /\ phase' = "walk" /\ RequestLineError = None
      /\ UNCHANGED <<wire, profile, base, got, verdict, consumed, bodyEnd, refusal>>
      /\ headers' = <<>> /\ cl' = <<>> /\ te' = <<>> /\ line' = First + 1 /\ seen' = {}
      /\ hostNonEmpty' = FALSE /\ lineEnds' = IF lineEnds < Scratch THEN Scratch ELSE lineEnds
  BY DEF ConnInv, RequestLine, connVars
<1>2. /\ First \in 1..Len(wire.lines) + 1 /\ Start(wire, First) = base /\ base \in wire.starts
      /\ base \in Nat /\ got \in Nat /\ lineEnds \in Nat /\ Size(wire) \in Nat
      /\ Len(wire.lines) \in Nat
  BY <1>1, WireFacts DEF ConnInv, Placed, TypeOK, InStep
<1>3. Received(First) /\ GoodRequestLine(First)
  <2>1. Received(First)
    BY <1>1, Zenon DEF RequestLineError, None
  <2> DEFINE l == wire.lines[First]
  <2>2. ~(l.end - base - 1 > lim.requestLine)
        /\ ~(~l.crlf \/ l.kind # "request" \/ l.flaw # "none")
    BY <1>1, <2>1, Zenon DEF RequestLineError, None
  <2>3. l.end - base - 1 <= lim.requestLine
    <3>1. l.end \in Nat /\ lim.requestLine \in Nat
      BY <1>1, <2>1, WireFacts, LimitAssumption DEF Received, lim, ConnInv, TypeOK
    <3>2. base \in Nat /\ ~(l.end - base - 1 > lim.requestLine)
      BY <1>2, <2>2
    <3> QED
      BY <3>1, <3>2
  <2> QED
    BY <2>1, <2>2, <2>3 DEF GoodRequestLine
<1>4. /\ First \in 1..Len(wire.lines) /\ wire.lines[First].end <= got
      /\ wire.lines[First].end \in Nat /\ Start(wire, First + 1) = wire.lines[First].end
  BY <1>1, <1>2, <1>3, WireFacts DEF Received
<1>5. Scratch \in Nat
  <2>1. PICK n \in Nat : n = got - wire.lines[First].end
    BY <1>2, <1>4
  <2>2. n \div 2 \in Nat
    BY <2>1
  <2> QED
    BY <2>1, <2>2 DEF Scratch
<1>6. /\ First' = First /\ lim' = lim /\ Scratch' = Scratch
      /\ GoodRequestLine(First)' /\ Received(First)'
  <2>1. First' = First /\ lim' = lim /\ \A f : GoodRequestLine(f)' = GoodRequestLine(f)
    BY <1>1, SameHead
  <2> QED
    BY <1>1, <1>3, <2>1 DEF Scratch, Received
<1>8. PICK f : f = First
  OBVIOUS
<1>9. /\ f \in 1..Len(wire.lines) /\ Start(wire, f + 1) = wire.lines[f].end
      /\ line' = f + 1 /\ (f + 1 .. f + 1 - 1) = {} /\ wire.lines[f].end \in Nat
      /\ First' = f
  BY <1>1, <1>2, <1>4, <1>6, <1>8
<1>10. \A n : FieldsOf(wire, f, f + 1, n) = {}
  BY <1>9 DEF FieldsOf
<1>11. Walked(f, line)'
  <2>1. View(cl, "Content-Length", f, line)' /\ View(te, "Transfer-Encoding", f, line)'
    BY <1>1, <1>9, <1>10 DEF View
  <2>2. headers' = [i \in 1 .. line' - f - 1 |-> f + i]
    BY <1>1, <1>9
  <2>3. /\ line' \in f + 1 .. Len(wire.lines) + 1
        /\ Start(wire, line') >= wire.lines[f].end + 2 * (line' - f - 1)
    <3>1. PICK n : n = line'
      OBVIOUS
    <3>2. n = f + 1 /\ f \in Nat /\ f <= Len(wire.lines) /\ wire.lines[f].end \in Nat
      BY <1>2, <1>9, <3>1
    <3>3. n \in f + 1 .. Len(wire.lines) + 1 /\ 2 * (n - f - 1) = 0
      BY <1>2, <3>2
    <3>4. Start(wire, n) = wire.lines[f].end
      BY <1>9, <3>2
    <3>5. wire.lines[f].end >= wire.lines[f].end + 2 * (n - f - 1)
      <4>1. PICK e \in Nat : e = wire.lines[f].end
        BY <3>2
      <4>2. e >= e + 2 * (n - f - 1)
        BY <3>2
      <4> QED
        BY <4>1, <4>2
    <3>6. Start(wire, n) >= wire.lines[f].end + 2 * (n - f - 1)
      BY <3>4, <3>5
    <3> QED
      BY <3>1, <3>3, <3>6
  <2>4. GoodRequestLine(f)' /\ Received(f)'
    BY <1>6, <1>8
  <2>5. \A i \in f + 1 .. line' - 1 : GoesOn(f, i)'
    BY <1>9
  <2> QED
    BY <1>1, <2>1, <2>2, <2>3, <2>4, <2>5 DEF Walked
<1>12. WalkInv'
  <2>1. seen' = {n \in Singletons : FieldsOf(wire, f, line, n) # {}}'
    BY <1>1, <1>9, <1>10
  <2>2. hostNonEmpty' <=> HostGiven(f, line)'
    BY <1>1, <1>9 DEF HostGiven
  <2>3. lineEnds' >= Scratch'
    BY <1>1, <1>2, <1>5, <1>6
  <2> QED
    BY <1>9, <1>11, <2>1, <2>2, <2>3 DEF WalkInv
<1>13. TypeOK'
  <2>1. line' \in 1..Len(wire.lines) + 1 /\ lineEnds' \in Nat
    BY <1>1, <1>2, <1>4, <1>5
  <2> QED
    BY <1>1, <2>1 DEF ConnInv, TypeOK
<1> QED
  BY <1>1, <1>2, <1>6, <1>12, <1>13
     DEF ConnInv, InStep, Placed, AcceptedInv, BodyInv, VerdictJustified

LEMMA RequestLineRefusedStep ==
    ASSUME ConnInv, RequestLineRefused, UNCHANGED <<bodyEnd, refusal>>
    PROVE  ConnInv'
<1>1. /\ wire \in Wires /\ phase = "head" /\ phase' = "answered" /\ RequestLineError # None
      /\ verdict' = RequestLineError /\ consumed' = 0
      /\ UNCHANGED <<wire, profile, base, got, headers, cl, te, lineEnds, line, seen, hostNonEmpty,
                     bodyEnd, refusal>>
  BY DEF ConnInv, RequestLineRefused, Answer, connVars, reqVars, walkVars
<1>2. /\ First' = First /\ lim' = lim /\ Received(First)' = Received(First)
      /\ GoodRequestLine(First)' = GoodRequestLine(First)
  <2>1. First' = First /\ lim' = lim /\ \A f : GoodRequestLine(f)' = GoodRequestLine(f)
    BY <1>1, SameHead
  <2> QED
    BY <1>1, <2>1 DEF Received
<1>3. /\ RequestLineError \in {"ErrHeadTooLarge", "ErrIncomplete", "ErrRequestLineTooLarge",
                               "ErrMalformed"}
      /\ RequestLineError = "ErrIncomplete" => ~Received(First)
      /\ RequestLineError = "ErrMalformed" => Received(First) /\ ~GoodRequestLine(First)
  BY <1>1 DEF RequestLineError, GoodRequestLine, None
<1>5. VerdictJustified'
  BY <1>1, <1>2, <1>3 DEF VerdictJustified, OK
<1>7. TypeOK'
  BY <1>1, <1>3 DEF ConnInv, TypeOK, Verdicts, LimitErrors
<1> QED
  BY <1>1, <1>2, <1>3, <1>5, <1>7
     DEF ConnInv, InStep, Placed, WalkInv, AcceptedInv, BodyInv, OK

-----------------------------------------------------------------------------
(* The walk over the header lines. *)

\* What the walk knows when it looks at a line.
LEMMA Looking ==
    ASSUME ConnInv, phase = "walk", NEW f, f = First
    PROVE  /\ wire \in Wires /\ f \in 1..Len(wire.lines) /\ Len(wire.lines) \in Nat
           /\ line \in f + 1 .. Len(wire.lines) + 1 /\ line \in Nat
           /\ \A n \in Singletons :
                n \in seen <=> \E j \in f + 1 .. line - 1 : wire.lines[j].name = n
           /\ hostNonEmpty <=> HostGiven(f, line)
           /\ Len(headers) = line - f - 1
           /\ lim.valueLen \in Nat /\ lim.headerCount \in Nat
<1>1. /\ wire \in Wires /\ Walked(f, line) /\ Len(wire.lines) \in Nat /\ f \in DOMAIN wire.lines
      /\ DOMAIN wire.lines = 1..Len(wire.lines)
  BY WireFacts DEF ConnInv, WalkInv, Walked, Received
<1>2. f \in Nat /\ line \in f + 1 .. Len(wire.lines) + 1 /\ line \in Nat
  BY <1>1 DEF Walked
<1>3. Len(headers) = line - f - 1
  <2>1. headers = [i \in 1 .. line - f - 1 |-> f + i] /\ line - f - 1 \in Nat
    BY <1>1, <1>2 DEF Walked
  <2> QED
    BY <2>1
<1>4. \A n \in Singletons :
        n \in seen <=> \E j \in f + 1 .. line - 1 : wire.lines[j].name = n
  BY DEF ConnInv, WalkInv, FieldsOf
<1>5. hostNonEmpty <=> HostGiven(f, line)
  BY DEF ConnInv, WalkInv
<1>6. lim.valueLen \in Nat /\ lim.headerCount \in Nat
  BY LimitAssumption DEF lim, ConnInv, TypeOK
<1> QED
  BY <1>1, <1>2, <1>3, <1>4, <1>5, <1>6

\* The code's checks of a line find something exactly if something is wrong.
LEMMA LineVerdict ==
    ASSUME ConnInv, phase = "walk", Indexed(line, lineEnds)
    PROVE  /\ line \in DOMAIN wire.lines /\ Received(line)
           /\ LineError = None => Offences(First, line) = {} /\ wire.lines[line].crlf
           /\ LineError = None /\ wire.lines[line].kind # "field" =>
                wire.lines[line].kind = "blank"
           /\ LineError # None => LineError \in Offences(First, line)
           /\ LineError \in {None, "ErrMalformed", "ErrMissingHost", "ErrValueTooLarge",
                             "ErrTooManyHeaders"}
<1>1. PICK f : f = First
  OBVIOUS
<1> DEFINE l == wire.lines[line]
<1>2. line \in DOMAIN wire.lines /\ Received(line)
  BY DEF Indexed, Received
<1>3. /\ wire \in Wires /\ f \in 1..Len(wire.lines) /\ line \in f + 1 .. Len(wire.lines) + 1
      /\ line \in Nat /\ Len(wire.lines) \in Nat /\ Len(headers) = line - f - 1
      /\ \A n \in Singletons :
            n \in seen <=> \E j \in f + 1 .. line - 1 : wire.lines[j].name = n
      /\ hostNonEmpty <=> HostGiven(f, line)
      /\ lim.valueLen \in Nat /\ lim.headerCount \in Nat
  BY <1>1, Looking
<1>4. IsLine(l)
  BY <1>2, <1>3, WireFacts
<1>5. /\ l.kind \in {"request", "field", "blank", "other"} /\ l.crlf \in BOOLEAN
      /\ l.length \in Nat /\ l.name \in Singletons \cup {"another"}
  BY <1>4 DEF IsLine
<1>6. Len(headers) >= lim.headerCount <=> line - f > lim.headerCount
  BY <1>3
<1>7. ASSUME l.kind = "field", l.crlf
      PROVE  /\ FieldError(l) = None => Offences(f, line) = {}
             /\ FieldError(l) # None => FieldError(l) \in Offences(f, line)
             /\ FieldError(l) \in {None, "ErrMalformed", "ErrValueTooLarge", "ErrTooManyHeaders"}
  <2>1. ~HostMissing(f, line)
    BY <1>7 DEF HostMissing
  <2> DEFINE twice(n) == \E j \in f + 1 .. line - 1 : wire.lines[j].name = n
             early == \/ l.flaw # "none"
                      \/ l.name = "Host" /\ ("Host" \in seen \/ (l.length > 0 /\ l.value = "invalid"))
             late  == \/ l.name = "Content-Length" /\ "Content-Length" \in seen
                      \/ /\ l.name = "Transfer-Encoding"
                         /\ ("Transfer-Encoding" \in seen \/ l.value # "chunked")
  <2>2. FieldError(l) = IF early THEN "ErrMalformed"
                        ELSE IF l.length > lim.valueLen THEN "ErrValueTooLarge"
                        ELSE IF Len(headers) >= lim.headerCount THEN "ErrTooManyHeaders"
                        ELSE IF late THEN "ErrMalformed" ELSE None
    BY DEF FieldError, Table!ValidTransferEncoding
  <2>3. early \/ late <=> Malformed(f, line)
    <3>1. \A n \in Singletons : n \in seen <=> twice(n)
      BY <1>3
    <3>2. Malformed(f, line) <=>
            \/ l.flaw # "none"
            \/ l.name \in Singletons /\ twice(l.name)
            \/ l.name = "Host" /\ l.length > 0 /\ l.value = "invalid"
            \/ l.name = "Transfer-Encoding" /\ l.value # "chunked"
      BY <1>7 DEF Malformed
    <3> HIDE DEF twice
    <3>3. l.name \in Singletons =>
            (l.name \in seen <=> twice(l.name))
      BY <3>1
    <3> QED
      BY <1>5, <3>2, <3>3 DEF Singletons
  <2> HIDE DEF early, late
  <2>4. Offences(f, line) =
          {e \in Verdicts : \/ e = "ErrMalformed" /\ (early \/ late)
                            \/ e = "ErrValueTooLarge" /\ l.length > lim.valueLen
                            \/ e = "ErrTooManyHeaders" /\ Len(headers) >= lim.headerCount}
    BY <1>6, <1>7, <2>1, <2>3 DEF Offences
  <2> QED
    BY <2>2, <2>4 DEF Verdicts, LimitErrors, None
<1>8. ASSUME l.kind = "blank", l.crlf
      PROVE  /\ HostError = None => Offences(f, line) = {}
             /\ HostError # None => HostError \in Offences(f, line)
             /\ HostError \in {None, "ErrMalformed", "ErrMissingHost"}
  <2>1. ~Malformed(f, line)
    BY <1>8 DEF Malformed
  <2>2. wire.lines[f].version \in {"1.0", "1.1"}
    BY <1>3, WireFacts DEF IsLine
  <2>3. HostMissing(f, line) <=> ~(wire.lines[f].version = "1.0" \/ hostNonEmpty)
    BY <1>3, <1>8, <2>2 DEF HostMissing, HostGiven
  <2>4. Offences(f, line) =
          {e \in Verdicts : \/ e = "ErrMalformed" /\ HostMissing(f, line) /\ profile = "Strict"
                            \/ e = "ErrMissingHost" /\ HostMissing(f, line) /\ profile # "Strict"}
    BY <1>8, <2>1 DEF Offences
  <2> QED
    BY <1>1, <2>3, <2>4 DEF HostError, Verdicts, None
<1>9. ASSUME ~l.crlf \/ l.kind \notin {"field", "blank"}
      PROVE  LineError = "ErrMalformed" /\ "ErrMalformed" \in Offences(f, line)
  <2>1. Malformed(f, line)
    BY <1>5, <1>9 DEF Malformed
  <2> QED
    BY <1>9, <2>1 DEF LineError, Offences, Verdicts
<1>10. LineError = IF ~l.crlf \/ l.kind \notin {"field", "blank"} THEN "ErrMalformed"
                   ELSE IF l.kind = "blank" THEN HostError ELSE FieldError(l)
  BY DEF LineError
<1> QED
  BY <1>1, <1>2, <1>5, <1>7, <1>8, <1>9, <1>10 DEF None

\* A line of the head that goes on is passed.
LEMMA FieldStep ==
    ASSUME ConnInv, Field, UNCHANGED <<bodyEnd, refusal>>
    PROVE  ConnInv'
<1> DEFINE l == wire.lines[line]
<1>1. /\ phase = "walk" /\ Indexed(line, lineEnds) /\ LineError = None /\ l.kind = "field"
      /\ headers' = Append(headers, line) /\ line' = line + 1
      /\ cl' = IF l.name = "Content-Length" THEN Append(cl, l.value) ELSE cl
      /\ te' = IF l.name = "Transfer-Encoding" THEN Append(te, l.value) ELSE te
      /\ seen' = seen \cup ({l.name} \cap Singletons)
      /\ hostNonEmpty' = (hostNonEmpty \/ (l.name = "Host" /\ l.length > 0))
      /\ UNCHANGED <<wire, profile, base, got, phase, verdict, consumed, lineEnds, bodyEnd, refusal>>
  BY DEF Field, Walking, connVars
<1>2. PICK f : f = First
  OBVIOUS
<1>3. /\ wire \in Wires /\ f \in 1..Len(wire.lines) /\ Len(wire.lines) \in Nat
      /\ line \in f + 1 .. Len(wire.lines) /\ line \in Nat
      /\ hostNonEmpty <=> HostGiven(f, line)
  BY <1>1, <1>2, Looking, LineVerdict
<1>4. Offences(f, line) = {} /\ l.crlf /\ GoesOn(f, line)
  BY <1>1, <1>2, LineVerdict DEF GoesOn
<1>5. Walked(f, line) /\ lineEnds >= Scratch
  BY <1>1, <1>2 DEF ConnInv, WalkInv
<1>6. /\ First' = f /\ lim' = lim /\ Scratch' = Scratch
      /\ \A i : GoesOn(f, i)' = GoesOn(f, i)
      /\ GoodRequestLine(f)' /\ Received(f)'
  <2>1. /\ First' = First /\ lim' = lim /\ \A i : GoesOn(f, i)' = GoesOn(f, i)
        /\ GoodRequestLine(f)' = GoodRequestLine(f)
    BY <1>1, SameHead
  <2> QED
    BY <1>1, <1>2, <1>5, <2>1 DEF Scratch, Received, Walked
<1>7. \A n : FieldsOf(wire, f, line + 1, n) =
              IF l.name = n THEN FieldsOf(wire, f, line, n) \cup {line}
              ELSE FieldsOf(wire, f, line, n)
  <2>1. f + 1 .. line + 1 - 1 = (f + 1 .. line - 1) \cup {line}
    BY <1>3
  <2> QED
    BY <2>1 DEF FieldsOf
<1>8. ASSUME NEW n \in Singletons, l.name = n PROVE FieldsOf(wire, f, line, n) = {}
  BY <1>4, <1>8 DEF GoesOn, Offences, Malformed, Verdicts, FieldsOf
<1>9. ASSUME NEW n \in Singletons, NEW v, View(v, n, f, line),
             NEW v2, v2 = IF l.name = n THEN Append(v, l.value) ELSE v
      PROVE  View(v2, n, f, line + 1)
  <2>1. CASE l.name = n
    <3>1. FieldsOf(wire, f, line, n) = {} /\ v = <<>>
      BY <1>8, <1>9, <2>1 DEF View
    <3>2. FieldsOf(wire, f, line + 1, n) = {line} /\ v2 = <<l.value>>
      <4>1. FieldsOf(wire, f, line + 1, n) = {} \cup {line}
        BY <1>7, <2>1, <3>1
      <4>2. v2 = Append(<<>>, l.value)
        BY <1>9, <2>1, <3>1
      <4> QED
        BY <4>1, <4>2
    <3> QED
      BY <3>2 DEF View
  <2>2. CASE l.name # n
    BY <1>7, <1>9, <2>2 DEF View
  <2> QED
    BY <2>1, <2>2
<1>10. Walked(f, line)'
  <2>1. View(cl, "Content-Length", f, line)' /\ View(te, "Transfer-Encoding", f, line)'
    <3>1. /\ View(cl', "Content-Length", f, line + 1)
          /\ View(te', "Transfer-Encoding", f, line + 1)
      BY <1>1, <1>5, <1>9 DEF Walked, Singletons
    <3> QED
      BY <1>1, <3>1 DEF View
  <2>2. headers' = [i \in 1 .. line' - f - 1 |-> f + i]
    <3>1. headers = [i \in 1 .. line - f - 1 |-> f + i] /\ line - f - 1 \in Nat
      BY <1>3, <1>5 DEF Walked
    <3>2. Append(headers, line) = [i \in 1 .. line - f |-> f + i]
      BY <1>3, <3>1
    <3> QED
      BY <1>1, <1>3, <3>2
  <2>3. \A i \in f + 1 .. line' - 1 : GoesOn(f, i)'
    BY <1>1, <1>3, <1>4, <1>5, <1>6 DEF Walked
  <2>4. line' \in f + 1 .. Len(wire.lines) + 1
    BY <1>1, <1>3
  <2>5. Start(wire, line') >= wire.lines[f].end + 2 * (line' - f - 1)
    <3>1. /\ Start(wire, line + 1) = l.end /\ l.end >= Start(wire, line) + 2
          /\ l.end \in Nat /\ Start(wire, line) \in Nat /\ wire.lines[f].end \in Nat
      <4>1. line \in 1..Len(wire.lines) + 1 /\ f \in 1..Len(wire.lines)
        BY <1>3, <1>4
      <4>2. Start(wire, line) \in Nat /\ wire.lines[f].end \in Nat
        BY <1>3, <4>1, WireFacts
      <4> QED
        BY <1>3, <1>4, <4>2, WireFacts
    <3>2. Start(wire, line) >= wire.lines[f].end + 2 * (line - f - 1)
      BY <1>5 DEF Walked
    <3>3. 2 * (line + 1 - f - 1) = 2 * (line - f - 1) + 2 /\ 2 * (line - f - 1) \in Int
      BY <1>3
    <3>4. l.end >= wire.lines[f].end + 2 * (line + 1 - f - 1)
      BY <3>1, <3>2, <3>3
    <3>5. Start(wire, line + 1) >= wire.lines[f].end + 2 * (line + 1 - f - 1)
      BY <3>1, <3>4
    <3>6. PICK n : n = line + 1
      OBVIOUS
    <3>7. n \in Nat /\ f \in Nat /\ 2 * (n - f - 1) = 2 * (line + 1 - f - 1)
      BY <1>3, <3>6
    <3>8. Start(wire, n) = l.end
      BY <1>3, <3>1, <3>6
    <3>9. Start(wire, n) >= wire.lines[f].end + 2 * (n - f - 1)
      BY <3>1, <3>4, <3>7, <3>8
    <3>10. line' = n
      BY <1>1, <3>6
    <3> QED
      BY <3>9, <3>10
  <2> QED
    BY <1>1, <1>6, <2>1, <2>2, <2>3, <2>4, <2>5 DEF Walked
<1>11. WalkInv'
  <2>1. seen' = {n \in Singletons : FieldsOf(wire, f, line, n) # {}}'
    <3>1. seen = {n \in Singletons : FieldsOf(wire, f, line, n) # {}}
      BY <1>1, <1>2 DEF ConnInv, WalkInv
    <3> QED
      BY <1>1, <1>7, <3>1
  <2>2. hostNonEmpty' <=> HostGiven(f, line)'
    <3>1. HostGiven(f, line + 1) <=> HostGiven(f, line) \/ (l.name = "Host" /\ l.length > 0)
      <4>1. \A i : i \in f + 1 .. (line + 1) - 1 <=> i \in f + 1 .. line - 1 \/ i = line
        BY <1>3
      <4> QED
        BY <4>1, Zenon DEF HostGiven
    <3> QED
      BY <1>1, <1>3, <3>1 DEF HostGiven
  <2>3. lineEnds' >= Scratch'
    BY <1>1, <1>5, <1>6
  <2> QED
    BY <1>6, <1>10, <2>1, <2>2, <2>3 DEF WalkInv
<1>12. TypeOK'
  <2>1. line' \in 1..Len(wire.lines) + 1
    BY <1>1, <1>3
  <2>2. seen' \subseteq Singletons /\ hostNonEmpty' \in BOOLEAN
    BY <1>1 DEF ConnInv, TypeOK
  <2> QED
    BY <1>1, <2>1, <2>2 DEF ConnInv, TypeOK
<1> QED
  BY <1>1, <1>2, <1>3, <1>6, <1>11, <1>12
     DEF ConnInv, InStep, Placed, AcceptedInv, BodyInv, VerdictJustified

\* An answer ends the walk and moves nothing else.
LEMMA AnswerStep ==
    ASSUME ConnInv, phase = "walk", phase' = "answered",
           UNCHANGED <<wire, profile, base, got, headers, cl, te, lineEnds, line, seen,
                       hostNonEmpty, bodyEnd, refusal>>,
           consumed' \in Nat, verdict' \in Verdicts,
           VerdictJustified', AcceptedInv'
    PROVE  ConnInv'
<1>1. TypeOK'
  BY DEF ConnInv, TypeOK
<1>2. First' = First
  BY SameHead
<1>3. InStep' /\ Placed'
  BY <1>2 DEF ConnInv, InStep, Placed
<1> QED
  BY <1>1, <1>3 DEF ConnInv, WalkInv, BodyInv

\* Every walk that stops at a line that is no ordinary field has decided the head.
LEMMA WalkDecides ==
    ASSUME ConnInv, phase = "walk", Indexed(line, lineEnds), ~GoesOn(First, line)
    PROVE  GoodRequestLine(First) /\ Received(First) /\ Decides(First, line)
<1>1. PICK f : f = First
  OBVIOUS
<1>2. /\ f \in 1..Len(wire.lines) /\ line \in f + 1 .. Len(wire.lines) + 1 /\ line \in Nat
  BY <1>1, Looking
<1>3. Walked(f, line) /\ line \in DOMAIN wire.lines
  BY <1>1, LineVerdict DEF ConnInv, WalkInv
<1>4. f < line
  BY <1>2
<1> QED
  BY <1>1, <1>3, <1>4 DEF Walked, Decides

LEMMA LineRefusedStep ==
    ASSUME ConnInv, LineRefused, UNCHANGED <<bodyEnd, refusal>>
    PROVE  ConnInv'
<1>1. /\ phase = "walk" /\ Indexed(line, lineEnds) /\ LineError # None
      /\ phase' = "answered" /\ verdict' = LineError /\ consumed' = 0
      /\ UNCHANGED <<wire, profile, base, got, headers, cl, te, lineEnds, line, seen,
                     hostNonEmpty, bodyEnd, refusal>>
  BY DEF LineRefused, Walking, Answer, connVars, walkVars
<1>2. /\ line \in DOMAIN wire.lines /\ Received(line) /\ LineError \in Offences(First, line)
      /\ LineError \in {"ErrMalformed", "ErrMissingHost", "ErrValueTooLarge", "ErrTooManyHeaders"}
  BY <1>1, LineVerdict
<1>3. GoodRequestLine(First) /\ Received(First) /\ Decides(First, line)
  BY <1>1, <1>2, WalkDecides DEF GoesOn
<1>4. /\ First' = First /\ (\A f, i : Offences(f, i)' = Offences(f, i))
      /\ (\A f, i : Decides(f, i)' = Decides(f, i))
      /\ (\A f : GoodRequestLine(f)' = GoodRequestLine(f))
      /\ (\A i : Received(i)' = Received(i))
  BY <1>1, SameHead DEF Received
<1>5. PICK f : f = First
  OBVIOUS
<1>6. /\ First' = f /\ GoodRequestLine(f)' /\ Received(f)' /\ Decides(f, line)'
      /\ Received(line)' /\ (verdict \in Offences(f, line))' /\ (line \in DOMAIN wire.lines)'
  <2>1. line' = line /\ wire' = wire
    BY <1>1
  <2> QED
    BY <1>1, <1>2, <1>3, <1>4, <1>5, <2>1
<1>7. VerdictJustified'
  BY <1>1, <1>2, <1>6 DEF VerdictJustified, OK
<1>8. AcceptedInv' /\ verdict' \in Verdicts
  BY <1>1, <1>2 DEF AcceptedInv, OK, Verdicts, LimitErrors
<1> QED
  BY <1>1, <1>7, <1>8, AnswerStep

LEMMA HeadCompleteStep ==
    ASSUME ConnInv, HeadComplete, UNCHANGED <<bodyEnd, refusal>>
    PROVE  ConnInv'
<1>1. /\ phase = "walk" /\ Indexed(line, lineEnds) /\ LineError = None
      /\ wire.lines[line].kind = "blank"
      /\ phase' = "answered" /\ verdict' = OK /\ consumed' = wire.lines[line].end - base
      /\ UNCHANGED <<wire, profile, base, got, headers, cl, te, lineEnds, line, seen,
                     hostNonEmpty, bodyEnd, refusal>>
  BY DEF HeadComplete, Walking, Answer, connVars, walkVars
<1>2. /\ line \in DOMAIN wire.lines /\ Received(line) /\ Offences(First, line) = {}
      /\ wire.lines[line].crlf
  BY <1>1, LineVerdict
<1>3. GoodRequestLine(First) /\ Received(First) /\ Decides(First, line)
  BY <1>1, <1>2, WalkDecides DEF GoesOn
<1>4. Walked(First, line) /\ wire \in Wires
  BY <1>1 DEF ConnInv, WalkInv
<1>5. /\ First' = First /\ (\A f, i : Offences(f, i)' = Offences(f, i))
      /\ (\A f, i : Decides(f, i)' = Decides(f, i))
      /\ (\A f, i : GoesOn(f, i)' = GoesOn(f, i))
      /\ (\A f : GoodRequestLine(f)' = GoodRequestLine(f))
      /\ (\A i : Received(i)' = Received(i))
  BY <1>1, SameHead DEF Received
<1>6. PICK f : f = First
  OBVIOUS
<1>7. /\ First' = f /\ GoodRequestLine(f)' /\ Decides(f, line)' /\ Received(line)'
      /\ (Offences(f, line) = {})'
  <2>1. line' = line
    BY <1>1
  <2> QED
    BY <1>2, <1>3, <1>5, <1>6, <2>1
<1>8. Walked(f, line)'
  <2>1. Walked(f, line)
    BY <1>4, <1>6
  <2> QED
    BY <1>1, <1>5, <2>1 DEF Walked, View
<1>9. (wire.lines[line].kind = "blank" /\ wire.lines[line].crlf
        /\ consumed = wire.lines[line].end - base)'
  BY <1>1, <1>2
<1>10. VerdictJustified' /\ AcceptedInv'
  BY <1>1, <1>7, <1>8, <1>9
     DEF VerdictJustified, AcceptedInv, OK
<1>11. consumed' \in Nat
  <2>1. Start(wire, First) = base /\ First \in 1..Len(wire.lines)
    BY <1>1, Looking DEF ConnInv, Placed
  <2>2. /\ First \in 1..Len(wire.lines) + 1 /\ line + 1 \in 1..Len(wire.lines) + 1
        /\ First < line + 1 /\ Start(wire, line + 1) = wire.lines[line].end
    <3>1. /\ line \in 1..Len(wire.lines) /\ Len(wire.lines) \in Nat
          /\ First \in 1..Len(wire.lines) /\ line \in First + 1 .. Len(wire.lines) + 1
      BY <1>1, <1>2, <1>4, Looking, WireFacts
    <3>2. Start(wire, line + 1) = wire.lines[line].end
      BY <1>4, <3>1, WireFacts
    <3> QED
      BY <3>1, <3>2
  <2>3. base \in Nat /\ wire.lines[line].end \in Nat /\ base < wire.lines[line].end
    BY <1>4, <2>1, <2>2, WireFacts
  <2> QED
    BY <1>1, <2>3
<1> QED
  BY <1>1, <1>10, <1>11, AnswerStep DEF Verdicts

\* The scratch has room for every line end there can be.
LEMMA ScratchSuffices ==
    ASSUME wire \in Wires, got \in Nat, NEW f, f = First, NEW k, Walked(f, k), Received(k)
    PROVE  k - f <= Scratch /\ Scratch \in Nat
<1>1. /\ Len(wire.lines) \in Nat /\ f \in 1..Len(wire.lines) /\ k \in 1..Len(wire.lines)
      /\ k \in f + 1 .. Len(wire.lines) + 1 /\ wire.lines[k].end <= got
  BY WireFacts DEF Walked, Received
<1>2. /\ wire.lines[k].end \in Nat /\ wire.lines[f].end \in Nat /\ Start(wire, k) \in Nat
      /\ wire.lines[k].end >= Start(wire, k) + 1
  <2>1. /\ wire.lines[k].end \in Nat /\ wire.lines[f].end \in Nat /\ Start(wire, k) \in Nat
        /\ wire.lines[k].end >= Start(wire, k) + (IF wire.lines[k].crlf THEN 2 ELSE 1)
    BY <1>1, WireFacts
  <2> QED
    BY <2>1
<1>3. Start(wire, k) >= wire.lines[f].end + 2 * (k - f - 1)
  BY DEF Walked
<1> DEFINE room == got - wire.lines[f].end
<1>4. room \in Nat /\ room >= 2 * (k - f - 1) + 1 /\ k - f - 1 \in Nat
  <2>1. got - wire.lines[f].end >= 2 * (k - f - 1) + 1
    <3>1. PICK e \in Nat, b \in Nat, s \in Nat, n \in Nat :
            e = wire.lines[k].end /\ b = wire.lines[f].end /\ s = Start(wire, k) /\ n = k - f - 1
      BY <1>1, <1>2
    <3>2. got >= e /\ e >= s + 1 /\ s >= b + 2 * n
      BY <1>1, <1>2, <1>3, <3>1
    <3>3. got - b >= 2 * n + 1
      BY <3>2
    <3> QED
      BY <3>1, <3>3
  <2>2. k - f - 1 \in Nat
    BY <1>1
  <2>3. got - wire.lines[f].end \in Int
    BY <1>2
  <2> QED
    BY <2>1, <2>2, <2>3
<1>5. Scratch = room \div 2 + 1
  BY DEF Scratch
<1> HIDE DEF room
<1>6. room \div 2 >= k - f - 1 /\ room \div 2 \in Nat
  <2>1. ASSUME NEW r \in Nat, NEW n \in Nat, r >= 2 * n + 1
        PROVE  r \div 2 >= n /\ r \div 2 \in Nat
    BY <2>1
  <2> QED
    BY <1>4, <2>1
<1> QED
  BY <1>1, <1>5, <1>6

\* An index that stops short of the line looked at means that the line has not
\* arrived.
LEMMA IndexShort ==
    ASSUME ConnInv, phase = "walk", ~Indexed(line, lineEnds)
    PROVE  ~Received(line)
<1>1. SUFFICES ASSUME Received(line) PROVE FALSE
  OBVIOUS
<1>2. PICK f : f = First
  OBVIOUS
<1>3. /\ wire \in Wires /\ f \in Nat /\ line \in Nat /\ Walked(f, line)
      /\ lineEnds >= Scratch /\ lineEnds \in Nat /\ got \in Nat
  BY <1>2, Looking, WireFacts DEF ConnInv, WalkInv, TypeOK
<1>4. line - f <= Scratch /\ Scratch \in Nat
  BY <1>1, <1>2, <1>3, ScratchSuffices
<1>5. line - f > lineEnds
  BY <1>1, <1>2, <1>3 DEF Indexed
<1> QED
  BY <1>3, <1>4, <1>5

LEMMA OutOfLinesStep ==
    ASSUME ConnInv, OutOfLines, UNCHANGED <<bodyEnd, refusal>>
    PROVE  ConnInv'
<1>1. /\ phase = "walk" /\ ~Indexed(line, lineEnds)
      /\ phase' = "answered" /\ verdict' = "ErrIncomplete" /\ consumed' = 0
      /\ UNCHANGED <<wire, profile, base, got, headers, cl, te, lineEnds, line, seen,
                     hostNonEmpty, bodyEnd, refusal>>
  BY DEF OutOfLines, Walking, Answer, connVars, walkVars
<1>2. PICK f : f = First
  OBVIOUS
<1>3. /\ wire \in Wires /\ f \in 1..Len(wire.lines) /\ Len(wire.lines) \in Nat
      /\ line \in f + 1 .. Len(wire.lines) + 1 /\ line \in Nat
  BY <1>1, <1>2, Looking
<1>4. /\ Walked(f, line) /\ lineEnds >= Scratch
      /\ lineEnds \in Nat /\ got \in Nat
  BY <1>1, <1>2, <1>3, WireFacts DEF ConnInv, WalkInv, TypeOK
<1>5. ~Received(line)
  BY <1>1, IndexShort
<1>6. ASSUME NEW t \in DOMAIN wire.lines, Decides(f, t) PROVE ~Received(t)
  <2>1. t \in 1..Len(wire.lines) /\ f < t /\ ~GoesOn(f, t)
    BY <1>3, <1>6, WireFacts DEF Decides
  <2>2. ~(t < line)
    BY <1>3, <1>4, <2>1 DEF Walked
  <2>3. line \in 1..t
    BY <1>3, <2>1, <2>2
  <2> QED
    BY <1>3, <1>4, <1>5, <2>3, ReceivedPrefix
<1>7. /\ First' = f /\ lim' = lim /\ GoodRequestLine(f)'
      /\ (\A i : Decides(f, i)' = Decides(f, i)) /\ (\A i : Received(i)' = Received(i))
  <2>1. /\ First' = First /\ lim' = lim /\ GoodRequestLine(f)' = GoodRequestLine(f)
        /\ (\A i : Decides(f, i)' = Decides(f, i))
    BY <1>1, SameHead
  <2> QED
    BY <1>1, <1>2, <1>4, <2>1 DEF Received, Walked
<1>8. VerdictJustified'
  BY <1>1, <1>6, <1>7 DEF VerdictJustified, OK
<1>9. AcceptedInv'
  BY <1>1, <1>4, <1>7 DEF AcceptedInv, OK
<1> QED
  BY <1>1, <1>8, <1>9, AnswerStep DEF Verdicts

-----------------------------------------------------------------------------
(* The caller. *)

LEMMA ReceiveStep ==
    ASSUME ConnInv, Receive
    PROVE  ConnInv'
<1>1. /\ phase' = "head" /\ got' \in got + 1 .. got + MaxRead /\ got' <= Size(wire)
      /\ UNCHANGED <<wire, profile, base, verdict, consumed, headers, cl, te, lineEnds, line, seen,
                     hostNonEmpty, bodyEnd, refusal>>
      /\ phase = "answered" /\ wire \in Wires
  BY DEF Receive, Incomplete, reqVars, walkVars, ConnInv
<1>2. base \in Nat /\ got \in Nat /\ base <= got /\ MaxRead \in Nat /\ Size(wire) \in Nat
  BY <1>1, WireFacts, SenderAssumption DEF ConnInv, TypeOK
<1>3. got' \in base..Size(wire)
  BY <1>1, <1>2
<1>4. TypeOK'
  BY <1>1, <1>3 DEF ConnInv, TypeOK
<1>5. First' = First
  BY <1>1, SameHead
<1> QED
  BY <1>1, <1>4, <1>5
     DEF ConnInv, InStep, Placed, WalkInv, AcceptedInv, BodyInv, VerdictJustified

\* A connection that is closed promises nothing more.
LEMMA ClosingStep ==
    ASSUME ConnInv, Hangup \/ Refuse \/ AbandonBody
    PROVE  ConnInv'
<1>1. /\ phase' = "closed" /\ wire \in Wires
      /\ UNCHANGED <<wire, profile, base, got, verdict, consumed, headers, cl, te, lineEnds, line,
                     seen, hostNonEmpty, bodyEnd, refusal>>
  BY DEF Hangup, Refuse, AbandonBody, connVars, reqVars, walkVars, ConnInv
<1>2. TypeOK'
  BY <1>1 DEF ConnInv, TypeOK
<1> QED
  BY <1>1, <1>2
     DEF ConnInv, InStep, Placed, WalkInv, AcceptedInv, BodyInv, VerdictJustified

\* What the framing table makes of an accepted head: its body ends where the
\* sender began another message, or the head is refused.
LEMMA FramedAsMeant ==
    ASSUME ConnInv, phase = "answered", verdict = OK
    PROVE  /\ framing.kind = "error" =>
                framing.error \in {"ErrBadContentLength", "ErrAmbiguousFraming"}
           /\ framing.kind = "chunked" => wire.lines[line].chunksEnd \in wire.starts
           /\ framing.kind \notin {"error", "chunked"} =>
                base + consumed + framing.length \in wire.starts
<1>1. PICK f : f = First
  OBVIOUS
<1> DEFINE l == wire.lines[line]
<1>2. /\ Walked(f, line) /\ Received(line) /\ l.kind = "blank" /\ l.crlf
      /\ consumed = l.end - base /\ wire \in Wires
  BY <1>1 DEF ConnInv, AcceptedInv
<1>3. /\ f \in DOMAIN wire.lines /\ line \in DOMAIN wire.lines /\ f < line
      /\ l.end \in Nat /\ base \in Nat
  <2>1. f \in DOMAIN wire.lines /\ line \in DOMAIN wire.lines /\ line \in f + 1 .. Len(wire.lines) + 1
    BY <1>2 DEF Walked, Received
  <2> QED
    BY <1>2, <2>1, WireFacts DEF ConnInv, TypeOK
<1>4. IsHead(wire, f, line)
  BY <1>2, <1>3 DEF IsHead, Walked, GoesOn
<1>5. Start(wire, f) \in wire.starts
  BY <1>1 DEF ConnInv, Placed, InStep
<1>6. PICK n \in wire.starts : Meant(wire, f, line, n)
  BY <1>2, <1>3, <1>4, <1>5, SenderAssumption
<1>7. base + consumed = l.end /\ l.end + 0 = l.end
  BY <1>2, <1>3
<1>8. \/ FieldsOf(wire, f, line, "Content-Length") = {} /\ cl = <<>>
      \/ \E i \in FieldsOf(wire, f, line, "Content-Length") :
           /\ FieldsOf(wire, f, line, "Content-Length") = {i}
           /\ cl = <<wire.lines[i].value>>
  BY <1>2 DEF Walked, View
<1>9. \/ FieldsOf(wire, f, line, "Transfer-Encoding") = {} /\ te = <<>>
      \/ /\ FieldsOf(wire, f, line, "Transfer-Encoding") # {}
         /\ te = <<"chunked">>
  <2>1. CASE FieldsOf(wire, f, line, "Transfer-Encoding") = {} /\ te = <<>>
    BY <2>1
  <2>2. ASSUME NEW i \in FieldsOf(wire, f, line, "Transfer-Encoding"), te = <<wire.lines[i].value>>
        PROVE  te = <<"chunked">>
    <3>1. i \in f + 1 .. line - 1 /\ wire.lines[i].name = "Transfer-Encoding"
      BY <2>2 DEF FieldsOf
    <3>2. wire.lines[i].kind = "field" /\ Offences(f, i) = {}
      BY <1>2, <3>1 DEF Walked, GoesOn
    <3> QED
      BY <2>2, <3>1, <3>2 DEF Offences, Malformed, Verdicts
  <2> QED
    BY <1>2, <2>1, <2>2 DEF Walked, View
<1> DEFINE length(v) == Table!parseContentLength(v)
<1>10. CASE te = <<"chunked">>
  <2>1. framing = IF cl # <<>> THEN Table!Refused("ErrAmbiguousFraming") ELSE Table!Chunked
    BY <1>10 DEF framing, Table!FramingOf, Table!ValidTransferEncoding
  <2>2. CASE cl # <<>>
    BY <2>1, <2>2 DEF Table!Refused
  <2>3. CASE cl = <<>>
    <3>1. FieldsOf(wire, f, line, "Content-Length") = {}
          /\ FieldsOf(wire, f, line, "Transfer-Encoding") # {}
      BY <1>8, <1>9, <1>10, <2>3
    <3>2. n = l.chunksEnd
      BY <1>6, <3>1 DEF Meant
    <3> QED
      BY <2>1, <2>3, <3>2 DEF Table!Chunked
  <2> QED
    BY <2>2, <2>3
<1>11. CASE te = <<>>
  <2>1. FieldsOf(wire, f, line, "Transfer-Encoding") = {}
    BY <1>9, <1>11
  <2>2. CASE FieldsOf(wire, f, line, "Content-Length") = {} /\ cl = <<>>
    <3>1. framing = Table!NoBody
      BY <1>11, <2>2 DEF framing, Table!FramingOf
    <3>2. n = l.end
      BY <1>6, <2>1, <2>2 DEF Meant
    <3> QED
      BY <1>7, <3>1, <3>2 DEF Table!NoBody
  <2>3. ASSUME NEW i \in FieldsOf(wire, f, line, "Content-Length"),
               FieldsOf(wire, f, line, "Content-Length") = {i}, cl = <<wire.lines[i].value>>
        PROVE  /\ framing.kind = "error" => framing.error = "ErrBadContentLength"
               /\ framing.kind # "chunked"
               /\ framing.kind # "error" => base + consumed + framing.length \in wire.starts
    <3> DEFINE len == length(wire.lines[i].value)
    <3>1. framing = IF len = Table!Bad THEN Table!Refused("ErrBadContentLength")
                    ELSE Table!FixedLength(len)
      BY <1>11, <2>3 DEF framing, Table!FramingOf
    <3>2. len = Table!Bad \/ n = l.end + len
      BY <1>6, <2>1, <2>3 DEF Meant
    <3> HIDE DEF len
    <3>3. CASE len = Table!Bad
      BY <3>1, <3>3 DEF Table!Refused
    <3>4. CASE len # Table!Bad
      <4>1. framing.kind = "fixed" /\ framing.length = len
        BY <3>1, <3>4 DEF Table!FixedLength
      <4>2. base + consumed + framing.length = l.end + len
        BY <1>7, <4>1
      <4> QED
        BY <3>2, <3>4, <4>1, <4>2
    <3> QED
      BY <3>3, <3>4
  <2> QED
    BY <1>8, <2>2, <2>3
<1> QED
  BY <1>9, <1>10, <1>11

LEMMA FrameStep ==
    ASSUME ConnInv, Frame
    PROVE  ConnInv'
<1>1. /\ phase = "answered" /\ verdict = OK /\ wire \in Wires
      /\ UNCHANGED <<wire, profile, base, got, verdict, consumed, headers, cl, te, lineEnds, line,
                     seen, hostNonEmpty>>
  BY DEF Frame, connVars, reqVars, walkVars, ConnInv
<1>2. wire.starts \subseteq Nat
  BY <1>1, SenderAssumption
<1>3. CASE framing.kind = "error"
  <2>1. phase' = "closed" /\ refusal' = framing.error /\ bodyEnd' = bodyEnd
    BY <1>3 DEF Frame
  <2>2. refusal' \in {"ErrBadContentLength", "ErrAmbiguousFraming"}
    BY <1>1, <1>3, <2>1, FramedAsMeant
  <2>3. TypeOK'
    BY <1>1, <2>1, <2>2 DEF ConnInv, TypeOK
  <2> QED
    BY <1>1, <2>1, <2>3
       DEF ConnInv, InStep, Placed, WalkInv, AcceptedInv, BodyInv, VerdictJustified
<1>4. CASE framing.kind # "error"
  <2>1. /\ phase' = "body" /\ refusal' = refusal
        /\ bodyEnd' = IF framing.kind = "chunked" THEN wire.lines[line].chunksEnd
                      ELSE base + consumed + framing.length
    BY <1>4 DEF Frame
  <2>2. bodyEnd' \in wire.starts
    BY <1>1, <1>4, <2>1, FramedAsMeant
  <2>3. TypeOK'
    BY <1>1, <1>2, <2>1, <2>2 DEF ConnInv, TypeOK
  <2>4. First' = First /\ (\A f, i : Offences(f, i)' = Offences(f, i))
        /\ (\A f, i : GoesOn(f, i)' = GoesOn(f, i))
        /\ (\A f : GoodRequestLine(f)' = GoodRequestLine(f))
    BY <1>1, SameHead
  <2>5. PICK f : f = First
    OBVIOUS
  <2>6. /\ Walked(f, line) /\ Received(line) /\ Offences(f, line) = {}
        /\ wire.lines[line].kind = "blank" /\ wire.lines[line].crlf
        /\ consumed = wire.lines[line].end - base
    BY <1>1, <2>5 DEF ConnInv, AcceptedInv
  <2>7. Walked(f, line)' /\ Received(line)'
    BY <1>1, <2>4, <2>6 DEF Walked, View, Received
  <2>8. (Offences(f, line) = {})' /\ First' = f
    <3>1. line' = line
      BY <1>1
    <3> QED
      BY <2>4, <2>5, <2>6, <3>1
  <2>9. AcceptedInv'
    BY <1>1, <2>6, <2>7, <2>8 DEF AcceptedInv
  <2> QED
    BY <1>1, <2>1, <2>2, <2>3, <2>4, <2>9
       DEF ConnInv, InStep, Placed, WalkInv, BodyInv, VerdictJustified
<1> QED
  BY <1>3, <1>4

LEMMA ServeBodyStep ==
    ASSUME ConnInv, ServeBody
    PROVE  ConnInv'
<1>1. /\ phase = "body" /\ phase' = "head" /\ base' = bodyEnd /\ verdict' = None
      /\ consumed' = 0 /\ wire \in Wires /\ bodyEnd \in wire.starts /\ bodyEnd <= Size(wire)
      /\ UNCHANGED <<wire, profile, headers, cl, te, lineEnds, line, seen, hostNonEmpty, bodyEnd,
                     refusal>>
  BY DEF ServeBody, reqVars, walkVars, ConnInv, BodyInv
<1>2. bodyEnd \in Nat /\ got \in Nat /\ Size(wire) \in Nat /\ MaxRead \in Nat
  BY <1>1, WireFacts, SenderAssumption DEF ConnInv, TypeOK
<1>3. got' \in bodyEnd..Size(wire)
  <2>1. PICK ahead \in 0..MaxRead :
          /\ got' = (IF got > bodyEnd THEN got ELSE bodyEnd) + ahead
          /\ got' <= Size(wire)
    BY DEF ServeBody
  <2> QED
    BY <1>2, <2>1
<1>4. TypeOK'
  BY <1>1, <1>2, <1>3 DEF ConnInv, TypeOK, Verdicts
<1>5. Placed'
  <2>1. LineAt(wire, bodyEnd) \in 1..Len(wire.lines) + 1 /\ Start(wire, LineAt(wire, bodyEnd)) = bodyEnd
    BY <1>1, StartsPlaced
  <2>2. First' = LineAt(wire, bodyEnd)
    BY <1>1 DEF First
  <2> QED
    BY <1>1, <2>1, <2>2 DEF Placed
<1> QED
  BY <1>1, <1>4, <1>5
     DEF ConnInv, InStep, WalkInv, AcceptedInv, BodyInv, VerdictJustified

\* Nothing moves.
LEMMA StutterStep ==
    ASSUME ConnInv, UNCHANGED vars
    PROVE  ConnInv'
<1>1. UNCHANGED <<wire, profile, base, got, phase, verdict, consumed, headers, cl, te, lineEnds, line,
                  seen, hostNonEmpty, bodyEnd, refusal>>
  BY DEF vars, connVars, reqVars, walkVars
<1>2. /\ First' = First /\ lim' = lim
      /\ (\A f, i : Offences(f, i)' = Offences(f, i))
      /\ (\A f, i : GoesOn(f, i)' = GoesOn(f, i))
      /\ (\A f, i : Decides(f, i)' = Decides(f, i))
      /\ (\A f : GoodRequestLine(f)' = GoodRequestLine(f))
  BY <1>1, SameHead
<1>3. PICK f : f = First
  OBVIOUS
<1>4. (\A i : Received(i)' = Received(i)) /\ First' = f
  BY <1>1, <1>2, <1>3 DEF Received
<1>5. Walked(f, line)' = Walked(f, line)
  BY <1>1, <1>2, <1>4 DEF Walked, View
<1>6. Scratch' = Scratch
  BY <1>1, <1>2 DEF Scratch
<1>7. TypeOK' /\ InStep' /\ Placed' /\ BodyInv'
  BY <1>1, <1>2 DEF ConnInv, TypeOK, InStep, Placed, BodyInv
<1>8. WalkInv'
  BY <1>1, <1>2, <1>3, <1>4, <1>5, <1>6 DEF ConnInv, WalkInv, HostGiven
<1>9. AcceptedInv'
  <2>1. (Offences(f, line) = {})' <=> Offences(f, line) = {}
    BY <1>1, <1>2
  <2>2. Received(line)' <=> Received(line)
    BY <1>1, <1>4
  <2> QED
    BY <1>1, <1>3, <1>4, <1>5, <2>1, <2>2 DEF ConnInv, AcceptedInv
<1>10. VerdictJustified'
  BY <1>1, <1>2, <1>3, <1>4 DEF ConnInv, VerdictJustified
<1> QED
  BY <1>1, <1>7, <1>8, <1>9, <1>10 DEF ConnInv

LEMMA NextConn == ConnInv /\ [Next]_vars => ConnInv'
<1> SUFFICES ASSUME ConnInv, [Next]_vars PROVE ConnInv'
  OBVIOUS
<1>1. CASE ParseHead
  BY <1>1, RequestLineStep, RequestLineRefusedStep, FieldStep, LineRefusedStep, HeadCompleteStep,
     OutOfLinesStep DEF ParseHead, Parse
<1>2. CASE Receive \/ Hangup \/ Refuse \/ AbandonBody
  BY <1>2, ReceiveStep, ClosingStep
<1>3. CASE Frame \/ ServeBody
  BY <1>3, FrameStep, ServeBodyStep
<1>4. CASE Closed \/ UNCHANGED vars
  BY <1>4, StutterStep DEF Closed
<1> QED
  BY <1>1, <1>2, <1>3, <1>4 DEF Next

LEMMA ConnAlways == Spec => []ConnInv
<1>1. Init => ConnInv
  BY InitConn
<1>2. ConnInv /\ [Next]_vars => ConnInv'
  BY NextConn
<1> QED
  BY <1>1, <1>2, PTL DEF Spec

-----------------------------------------------------------------------------
(* The parser of the package above. *)

NoRequestLine(f) ==
    ~wire.lines[f].crlf \/ wire.lines[f].kind # "request" \/ wire.lines[f].flaw # "none"

\* The walk came to a stop at line k.
StoppedAt(f, k) == Walked(f, k) /\ Received(k)

\* Where Parse stood when it gave each of its verdicts.
StoppedInv ==
    phase = "answered" =>
        /\ verdict = "ErrIncomplete" =>
             ~Received(First) \/ (Walked(First, line) /\ ~Received(line))
        /\ verdict = "ErrMissingHost" =>
             /\ StoppedAt(First, line)
             /\ wire.lines[line].kind = "blank" /\ wire.lines[line].crlf
        /\ verdict = "ErrMalformed" =>
             NoRequestLine(First)
             \/ (StoppedAt(First, line) /\ "ErrMalformed" \in Offences(First, line))

LEMMA StoppedStep ==
    ASSUME ConnInv, StoppedInv, [Next]_vars
    PROVE  StoppedInv'
<1>1. CASE phase' # "answered"
  BY <1>1 DEF StoppedInv
<1>2. CASE phase' = "answered"
  <2>1. PICK f : f = First
    OBVIOUS
  <2>2. ASSUME UNCHANGED <<wire, profile, base, got, headers, cl, te, line>>
        PROVE  /\ First' = f /\ Received(f)' = Received(f) /\ Received(line)' = Received(line)
               /\ Walked(f, line)' = Walked(f, line) /\ NoRequestLine(f)' = NoRequestLine(f)
               /\ Offences(f, line)' = Offences(f, line)
    <3>1. /\ First' = First /\ (\A i : GoesOn(f, i)' = GoesOn(f, i))
          /\ GoodRequestLine(f)' = GoodRequestLine(f)
          /\ (\A i : Offences(f, i)' = Offences(f, i))
      BY <2>2, SameHead
    <3>2. (\A i : Received(i)' = Received(i)) /\ line' = line
      BY <2>2 DEF Received
    <3>3. Walked(f, line)' = Walked(f, line)
      BY <2>2, <3>1, <3>2 DEF Walked, View
    <3> QED
      BY <2>1, <2>2, <3>1, <3>2, <3>3 DEF NoRequestLine
  <2>3. CASE RequestLineRefused
    <3>1. /\ verdict' = RequestLineError
          /\ UNCHANGED <<wire, profile, base, got, headers, cl, te, line>>
      BY <2>3 DEF RequestLineRefused, Answer, connVars, reqVars, walkVars
    <3>2. /\ RequestLineError # "ErrMissingHost"
          /\ RequestLineError = "ErrIncomplete" => ~Received(f)
          /\ RequestLineError = "ErrMalformed" => NoRequestLine(f)
      BY <2>1 DEF RequestLineError, NoRequestLine, None
    <3> QED
      BY <2>2, <3>1, <3>2 DEF StoppedInv
  <2>4. CASE LineRefused
    <3>1. /\ phase = "walk" /\ Indexed(line, lineEnds) /\ LineError # None /\ verdict' = LineError
          /\ UNCHANGED <<wire, profile, base, got, headers, cl, te, line>>
      BY <2>4 DEF LineRefused, Walking, Answer, connVars, walkVars
    <3>2. /\ Received(line) /\ LineError \in Offences(f, line) /\ LineError # "ErrIncomplete"
          /\ Walked(f, line)
      BY <2>1, <3>1, LineVerdict DEF ConnInv, WalkInv, None
    <3>3. LineError = "ErrMissingHost" => wire.lines[line].kind = "blank" /\ wire.lines[line].crlf
      BY DEF LineError, FieldError, None
    <3> QED
      BY <2>2, <3>1, <3>2, <3>3 DEF StoppedInv, StoppedAt
  <2>5. CASE HeadComplete
    BY <2>5 DEF HeadComplete, Answer, StoppedInv, OK
  <2>6. CASE OutOfLines
    <3>1. /\ phase = "walk" /\ ~Indexed(line, lineEnds) /\ verdict' = "ErrIncomplete"
          /\ UNCHANGED <<wire, profile, base, got, headers, cl, te, line>>
      BY <2>6 DEF OutOfLines, Walking, Answer, connVars, walkVars
    <3>2. Walked(f, line) /\ ~Received(line)
      BY <2>1, <3>1, IndexShort DEF ConnInv, WalkInv
    <3> QED
      BY <2>2, <3>1, <3>2 DEF StoppedInv
  <2>7. CASE Closed \/ UNCHANGED vars
    <3>1. UNCHANGED <<wire, profile, base, got, headers, cl, te, line, phase, verdict>>
      BY <2>7 DEF Closed, vars, connVars, reqVars, walkVars
    <3> QED
      BY <2>1, <2>2, <3>1 DEF StoppedInv, StoppedAt
  <2>8. CASE RequestLine \/ Field \/ Receive \/ Hangup \/ Refuse \/ Frame \/ ServeBody \/ AbandonBody
    BY <1>2, <2>8
       DEF RequestLine, Field, Walking, Receive, Hangup, Refuse, Frame, ServeBody, AbandonBody
  <2> QED
    BY <2>3, <2>4, <2>5, <2>6, <2>7, <2>8 DEF Next, ParseHead, Parse
<1> QED
  BY <1>1, <1>2

\* The lines the other parser would stop at.
RootStops(f) ==
    {i \in f + 1 .. Len(wire.lines) :
        /\ Indexed(i, Scratch)
        /\ rootRefuses(wire.lines[i]) \/ wire.lines[i].kind = "blank"}

\* The walk of the other parser passes what this one passes, and its index is
\* large enough for the line this one stopped at.
LEMMA RootWalk ==
    ASSUME wire \in Wires, got \in Nat, NEW f, f = First, NEW k, Walked(f, k),
           NEW stops, stops = RootStops(f)
    PROVE  /\ f \in 1..Len(wire.lines) /\ Len(wire.lines) \in Nat /\ k \in f + 1 .. Len(wire.lines) + 1
           /\ \A i \in stops : i \in Nat /\ i >= k /\ Received(i)
           /\ Received(k) /\ (rootRefuses(wire.lines[k]) \/ wire.lines[k].kind = "blank") =>
                k \in stops /\ Min(stops) = k
<1>1. /\ f \in 1..Len(wire.lines) /\ Len(wire.lines) \in Nat
      /\ k \in f + 1 .. Len(wire.lines) + 1
  BY WireFacts DEF Walked, Received
<1>2. ASSUME NEW i \in f + 1 .. k - 1
      PROVE  ~rootRefuses(wire.lines[i]) /\ wire.lines[i].kind # "blank"
  <2>1. wire.lines[i].kind = "field" /\ ~Malformed(f, i)
    BY <1>2 DEF Walked, GoesOn, Offences, Verdicts
  <2> QED
    BY <2>1 DEF Malformed, rootRefuses
<1>3. ASSUME NEW i \in stops PROVE i \in Nat /\ i >= k /\ Received(i)
  BY <1>1, <1>2, <1>3 DEF RootStops, Indexed
<1>4. ASSUME Received(k), rootRefuses(wire.lines[k]) \/ wire.lines[k].kind = "blank"
      PROVE  k \in stops /\ Min(stops) = k
  <2>1. k - f <= Scratch
    BY <1>4, ScratchSuffices
  <2>2. k \in 1..Len(wire.lines)
    BY <1>4, WireFacts DEF Received
  <2>3. k \in stops
    BY <1>1, <1>4, <2>1, <2>2 DEF RootStops, Indexed
  <2>4. stops \in SUBSET Nat /\ stops # {}
    BY <1>3, <2>3
  <2>5. Min(stops) \in stops /\ Min(stops) <= k
    BY <2>3, <2>4, MinIsLeast
  <2>6. Min(stops) \in Nat /\ Min(stops) >= k
    BY <1>3, <2>5
  <2>7. k \in Nat
    BY <1>1
  <2> QED
    BY <2>3, <2>5, <2>6, <2>7
<1> QED
  BY <1>1, <1>3, <1>4

LEMMA RootAgreement ==
    ASSUME ConnInv, StoppedInv
    PROVE  RootParserAgrees
<1>1. SUFFICES ASSUME phase = "answered" PROVE RootParserAgrees
  BY DEF RootParserAgrees
<1>2. PICK f : f = First
  OBVIOUS
<1>3. wire \in Wires /\ got \in Nat /\ base \in Nat
  BY WireFacts DEF ConnInv, TypeOK
<1> DEFINE stops == RootStops(f)
           noStart == \/ ~wire.lines[f].crlf \/ wire.lines[f].kind # "request"
                      \/ wire.lines[f].flaw \in {"spaces", "version", "method"}
           m == Min(stops)
<1>4. rootParse =
        IF ~Received(f) THEN [verdict |-> "ErrIncomplete", consumed |-> 0]
        ELSE IF noStart THEN [verdict |-> "ErrMalformed", consumed |-> 0]
        ELSE IF stops = {} THEN [verdict |-> "ErrIncomplete", consumed |-> 0]
        ELSE IF rootRefuses(wire.lines[m]) THEN [verdict |-> "ErrMalformed", consumed |-> 0]
        ELSE [verdict |-> OK, consumed |-> wire.lines[m].end - base]
  BY <1>2 DEF rootParse, RootStops
<1>5. ASSUME NEW k, Walked(f, k)
      PROVE  /\ f \in 1..Len(wire.lines) /\ Len(wire.lines) \in Nat
             /\ k \in f + 1 .. Len(wire.lines) + 1 /\ Received(f) /\ ~noStart
             /\ \A i \in stops : i \in Nat /\ i >= k /\ Received(i)
             /\ Received(k) /\ (rootRefuses(wire.lines[k]) \/ wire.lines[k].kind = "blank") =>
                  k \in stops /\ m = k
  <2>1. Received(f) /\ ~noStart
    BY <1>5 DEF Walked, GoodRequestLine
  <2> QED
    BY <1>2, <1>3, <1>5, <2>1, RootWalk
<1> HIDE DEF stops, noStart, m
<1>6. verdict = OK => rootParse = [verdict |-> OK, consumed |-> consumed]
  <2>1. SUFFICES ASSUME verdict = OK PROVE rootParse = [verdict |-> OK, consumed |-> consumed]
    OBVIOUS
  <2>2. /\ Walked(f, line) /\ Received(line) /\ wire.lines[line].kind = "blank"
        /\ wire.lines[line].crlf /\ consumed = wire.lines[line].end - base
    BY <1>1, <1>2, <2>1 DEF ConnInv, AcceptedInv
  <2>3. ~rootRefuses(wire.lines[line])
    BY <2>2 DEF rootRefuses
  <2> QED
    BY <1>4, <1>5, <2>2, <2>3
<1>7. verdict = "ErrMissingHost" => rootParse.verdict = OK
  <2>1. SUFFICES ASSUME verdict = "ErrMissingHost" PROVE rootParse.verdict = OK
    OBVIOUS
  <2>2. /\ Walked(f, line) /\ Received(line) /\ wire.lines[line].kind = "blank"
        /\ wire.lines[line].crlf
    BY <1>1, <1>2, <2>1 DEF StoppedInv, StoppedAt
  <2>3. ~rootRefuses(wire.lines[line])
    BY <2>2 DEF rootRefuses
  <2> QED
    BY <1>4, <1>5, <2>2, <2>3
<1>8. verdict = "ErrIncomplete" => rootParse.verdict = "ErrIncomplete"
  <2>1. SUFFICES ASSUME verdict = "ErrIncomplete", Received(f)
                 PROVE  rootParse.verdict = "ErrIncomplete"
    BY <1>4
  <2>2. Walked(f, line) /\ ~Received(line)
    BY <1>1, <1>2, <2>1 DEF StoppedInv
  <2>3. ASSUME NEW i \in stops PROVE FALSE
    <3>1. i \in Nat /\ line \in Nat /\ i >= line /\ line >= 1 /\ Received(i)
      BY <1>5, <2>2
    <3>2. line \in 1..i
      BY <3>1
    <3> QED
      BY <1>3, <2>2, <3>1, <3>2, ReceivedPrefix
  <2>4. stops = {}
    BY <2>3
  <2> QED
    BY <1>4, <1>5, <2>2, <2>4
<1>9. ASSUME verdict = "ErrMalformed", rootParse.verdict = OK
      PROVE  \/ wire.lines[f].flaw = "target"
             \/ \E i \in f + 1 .. LineAt(wire, base + rootParse.consumed - 1) :
                  LET l == wire.lines[i] IN
                  \/ l.flaw = "late control"
                  \/ l.name = "Host" /\ l.value = "invalid"
                  \/ l.name = "Transfer-Encoding" /\ l.value # "chunked"
                  \/ \E j \in f + 1 .. i - 1 : l.name \in Singletons /\ wire.lines[j].name = l.name
                  \/ l.kind = "blank" /\ profile = "Strict" /\ wire.lines[f].version = "1.1"
  <2>1. /\ Received(f) /\ ~noStart /\ stops # {} /\ ~rootRefuses(wire.lines[m])
        /\ rootParse.consumed = wire.lines[m].end - base
    BY <1>4, <1>9 DEF OK
  <2>2. CASE NoRequestLine(f)
    <3>1. f \in 1..Len(wire.lines)
      BY <1>3, <2>1, WireFacts DEF Received
    <3>2. IsLine(wire.lines[f])
      BY <1>3, <3>1, WireFacts
    <3> QED
      BY <2>1, <2>2, <3>2 DEF NoRequestLine, noStart, IsLine, RequestFlaws
  <2>3. CASE StoppedAt(f, line) /\ "ErrMalformed" \in Offences(f, line)
    <3> DEFINE l == wire.lines[line]
    <3>1. Walked(f, line) /\ Received(line)
      BY <2>3 DEF StoppedAt
    <3>2. /\ f \in 1..Len(wire.lines) /\ line \in f + 1 .. Len(wire.lines) + 1
          /\ Len(wire.lines) \in Nat
          /\ (\A i \in stops : i \in Nat /\ i >= line /\ Received(i))
      BY <1>5, <3>1
    <3>3. stops \in SUBSET Nat
      BY <3>2
    <3>4. m \in stops /\ m \in Nat /\ m >= line /\ m \in 1..Len(wire.lines)
      <4>1. m \in stops
        BY <2>1, <3>3, MinIsLeast DEF m
      <4> QED
        BY <1>3, <3>2, <4>1, WireFacts DEF Received
    <3>5. LineAt(wire, base + rootParse.consumed - 1) = m
      <4>1. /\ wire.lines[m].end \in Nat /\ Start(wire, m) \in Nat
            /\ wire.lines[m].end >= Start(wire, m) + (IF wire.lines[m].crlf THEN 2 ELSE 1)
        BY <1>3, <3>4, WireFacts
      <4>2. base + rootParse.consumed - 1 = wire.lines[m].end - 1
        BY <1>3, <2>1, <4>1
      <4>3. /\ wire.lines[m].end - 1 \in Nat /\ Start(wire, m) <= wire.lines[m].end - 1
            /\ wire.lines[m].end - 1 < wire.lines[m].end
        BY <4>1
      <4>4. LineAt(wire, wire.lines[m].end - 1) = m
        BY <1>3, <3>2, <3>4, <4>3, LineAtByte
      <4> QED
        BY <4>2, <4>4
    <3>6. line \in f + 1 .. m
      BY <3>2, <3>4
    <3>7. line \in 1..Len(wire.lines)
      BY <3>2, <3>4
    <3>8. IsLine(l)
      BY <1>3, <3>7, WireFacts
    <3>9. ~rootRefuses(l)
      BY <1>5, <2>1, <3>1
    <3>10. \/ l.flaw = "late control"
           \/ l.name = "Host" /\ l.value = "invalid"
           \/ l.name = "Transfer-Encoding" /\ l.value # "chunked"
           \/ \E j \in f + 1 .. line - 1 : l.name \in Singletons /\ wire.lines[j].name = l.name
           \/ l.kind = "blank" /\ profile = "Strict" /\ wire.lines[f].version = "1.1"
      <4>1. Malformed(f, line) \/ (HostMissing(f, line) /\ profile = "Strict")
        BY <2>3 DEF Offences
      <4>2. CASE Malformed(f, line)
        <5>1. l.crlf /\ l.kind \in {"field", "blank"} /\ ~(l.kind = "field" /\ l.flaw \in {"name", "control"})
          BY <3>9 DEF rootRefuses
        <5>2. l.flaw \in FieldFlaws
          BY <3>8, <5>1 DEF IsLine
        <5> QED
          BY <4>2, <5>1, <5>2 DEF Malformed, FieldFlaws
      <4>3. CASE HostMissing(f, line) /\ profile = "Strict"
        BY <4>3 DEF HostMissing
      <4> QED
        BY <4>1, <4>2, <4>3
    <3> QED
      BY <3>5, <3>6, <3>10
  <2> QED
    BY <1>1, <1>2, <1>9, <2>2, <2>3 DEF StoppedInv
<1> QED
  BY <1>1, <1>2, <1>6, <1>7, <1>8, <1>9 DEF RootParserAgrees

-----------------------------------------------------------------------------
(* The theorems. *)

\* The variables keep their types; in particular FramingOf (framing.go:58-92)
\* never gets to refuse a coding, because http1/parser.go:295 has refused such a
\* head before.
THEOREM ConnectionTypes == Spec => []TypeOK
<1>1. ConnInv => TypeOK
  BY DEF ConnInv
<1> QED
  BY <1>1, ConnAlways, PTL

\* Whatever peers send, however it is cut and whichever length field they go by:
\* every head is parsed at the first byte of a message.
THEOREM StaysInStep == Spec => []InStep
<1>1. ConnInv => InStep
  BY DEF ConnInv
<1> QED
  BY <1>1, ConnAlways, PTL

\* Parse's verdict is the one the lines received call for, in every profile and
\* under all limits; in particular a head that is called incomplete is.
THEOREM VerdictsJustified == Spec => []VerdictJustified
<1>1. ConnInv => VerdictJustified
  BY DEF ConnInv
<1> QED
  BY <1>1, ConnAlways, PTL

\* A Request that is used again shows its new head and nothing else.
THEOREM ViewsAreExact == Spec => []ViewsExact
<1>1. ASSUME NEW v, NEW name, NEW f, NEW k, View(v, name, f, k)
      PROVE  /\ Len(v) <= 1
             /\ {v[i] : i \in DOMAIN v} = {wire.lines[i].value : i \in FieldsOf(wire, f, k, name)}
  <2>1. CASE FieldsOf(wire, f, k, name) = {} /\ v = <<>>
    BY <2>1
  <2>2. ASSUME NEW j, FieldsOf(wire, f, k, name) = {j}, v = <<wire.lines[j].value>>
        PROVE  /\ Len(v) <= 1
               /\ {v[i] : i \in DOMAIN v} = {wire.lines[i].value : i \in FieldsOf(wire, f, k, name)}
    <3>1. Len(v) = 1 /\ DOMAIN v = {1} /\ v[1] = wire.lines[j].value
      BY <2>2
    <3> QED
      BY <2>2, <3>1
  <2> QED
    BY <1>1, <2>1, <2>2 DEF View
<1>2. ConnInv => ViewsExact
  <2>1. SUFFICES ASSUME ConnInv, phase \in {"answered", "body"}, verdict = OK
                 PROVE  ViewsExact
    BY DEF ViewsExact
  <2>2. Walked(First, line)
    BY <2>1 DEF ConnInv, AcceptedInv
  <2>3. /\ headers = [i \in 1 .. line - First - 1 |-> First + i]
        /\ View(cl, "Content-Length", First, line) /\ View(te, "Transfer-Encoding", First, line)
    BY <2>2 DEF Walked
  <2> QED
    BY <1>1, <2>3 DEF ViewsExact
<1> QED
  BY <1>2, ConnAlways, PTL

\* The parser of the root package and this one agree on every good head and on
\* where it ends, and differ only in what is listed in RootParserAgrees, for all
\* bytes, both profiles and any limits.
THEOREM RootAgrees == Spec => []RootParserAgrees
<1>1. Init => StoppedInv
  BY DEF Init, StoppedInv
<1>2. ConnInv /\ StoppedInv /\ [Next]_vars => StoppedInv'
  BY StoppedStep
<1>3. ConnInv /\ StoppedInv => RootParserAgrees
  BY RootAgreement
<1> QED
  BY <1>1, <1>2, <1>3, ConnAlways, PTL DEF Spec
=============================================================================
