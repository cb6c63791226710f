-------------------------- MODULE BodyReader_proofs --------------------------
(***************************************************************************)
(* Machine-checked theorems about BodyReader, for every set of framings,   *)
(* read sizes and lines and every value of the limits: first the account   *)
(* of bytes, then Close, progress and trailers, and that BodyReader        *)
(* implements BodyStream.                                                  *)
(***************************************************************************)
EXTENDS BodyReader, TLAPS

CallTypeOK ==
    /\ pc \in {"idle", "Read", "Close"}
    /\ want \in Nat /\ budget \in Int
    /\ result \in [n : Nat, err : Errors \cup {None}]
    /\ closeErr \in Errors \cup {None} /\ drained \in BOOLEAN

\* Returning keeps the call's variables in their types.
LEMMA ReturnType ==
    ASSUME CallTypeOK, NEW n \in Nat, NEW e \in Errors \cup {None}, Return(n, e)
    PROVE  CallTypeOK'
<1>1. CASE pc = "Read"
  BY <1>1 DEF CallTypeOK, Return
<1>2. CASE pc = "Close"
  <2>1. DrainStep(n, e)
    BY <1>2 DEF Return
  <2>2. budget - n \in Int
    BY DEF CallTypeOK
  <2>3. budget - n >= 0 => DrainWant(budget - n) \in Nat
    BY <2>2, LimitsAssumption DEF DrainWant, Lesser
  <2>4. "ErrDrainTooLarge" \in Errors
    BY DEF Errors
  <2>5. ASSUME NEW x \in Errors \cup {None}, NEW b \in BOOLEAN, CloseReturns(x, b)
        PROVE  /\ pc' \in {"idle", "Read", "Close"} /\ want' \in Nat
               /\ result' \in [n : Nat, err : Errors \cup {None}]
               /\ closeErr' \in Errors \cup {None} /\ drained' \in BOOLEAN
    BY <2>5 DEF CloseReturns
  <2>6. budget' \in Int
    BY <2>1, <2>2 DEF DrainStep
  <2>7. CASE \E x \in Errors \cup {None}, b \in BOOLEAN : CloseReturns(x, b)
    BY <2>5, <2>6, <2>7 DEF CallTypeOK
  <2>8. CASE /\ budget - n >= 0
             /\ want' = DrainWant(budget - n)
             /\ UNCHANGED <<pc, result, closeErr, drained>>
    BY <2>3, <2>6, <2>8 DEF CallTypeOK
  <2> QED
    BY <2>1, <2>4, <2>7, <2>8 DEF DrainStep
<1> QED
  BY <1>1, <1>2 DEF Return

\* What br.Read may return, and how it moves the connection.
LEMMA AnswersType ==
    ASSUME NEW room \in Nat, NEW r \in Answers(room)
    PROVE  r.n \in Nat /\ r.n \in 0..room /\ r.err \in {None, "EOF", "ErrNet"}
BY DEF Answers

LEMMA BufReadType ==
    ASSUME TypeOK, NEW r, r.n \in Nat, BufRead(r)
    PROVE  pos' = pos + r.n /\ pos' \in Nat /\ empties' \in 0..MaxEmptyReads
BY LimitsAssumption DEF BufRead, TypeOK

\* A fragment of a line, and one that ends it.
LEMMA FragmentType ==
    ASSUME TypeOK, NEW n \in Nat, Fragment(n)
    PROVE  consumed' \in Nat /\ pos' \in Nat /\ empties' = empties
BY DEF Fragment, BufTake, TypeOK

LEMMA LineEndsType ==
    ASSUME TypeOK, NEW l, LineEnds(l)
    PROVE  consumed' \in Nat /\ pos' \in Nat /\ empties' = empties /\ held' = 0
<1>1. l.len - held \in Nat /\ Fragment(l.len - held) /\ held' = 0
  BY LimitsAssumption DEF LineEnds
<1> QED
  BY <1>1, FragmentType

LEMMA EndOfDataType ==
    ASSUME NEW e \in {None, "EOF", "ErrNet"}, NEW short \in BOOLEAN
    PROVE  EndOfData(e, short) \in Errors \cup {None}
BY DEF EndOfData, Errors, None

LEMMA HeaderErrorType ==
    ASSUME NEW l PROVE HeaderError(l) \in (Errors \ {"EOF"}) \cup {None}
BY DEF HeaderError, Errors, None

LEMMA TrailerErrorType ==
    ASSUME NEW l PROVE TrailerError(l) \in (Errors \ {"EOF"}) \cup {None}
BY DEF TrailerError, Errors, None

LEMMA LineTooLongErrorType == LineTooLongError \in Errors \ {"EOF"}
BY DEF LineTooLongError, Errors

LEMMA TypeOKInit == Init => TypeOK
<1> SUFFICES ASSUME Init PROVE TypeOK
  OBVIOUS
<1>1. framing \in [kind : Kinds, length : 0..MaxInt]
  BY InputsAssumption DEF Init
<1>2. remain \in Nat
  BY <1>1, LimitsAssumption DEF Init
<1>3. err \in Errors \cup {None}
  BY DEF Init, Errors
<1>4. result \in [n : Nat, err : Errors \cup {None}]
  BY DEF Init
<1>5. closeErr \in Errors \cup {None} /\ state \in ChunkStates /\ budget \in Int
  BY DEF Init, ChunkStates
<1>6. empties \in 0..MaxEmptyReads /\ held \in Nat /\ encoded \in Nat
  BY LimitsAssumption DEF Init
<1> QED
  BY <1>1, <1>2, <1>3, <1>4, <1>5, <1>6 DEF Init, TypeOK

LEMMA TypeOKStep == TypeOK /\ [Next]_vars => TypeOK'
<1> SUFFICES ASSUME TypeOK, [Next]_vars PROVE TypeOK'
  OBVIOUS
<1>c. CallTypeOK
  BY DEF TypeOK, CallTypeOK
<1> USE DEF chunkVars, wireVars, callVars, closeMark
<1>1. ASSUME NEW len \in ReadSizes, ReadRefused(len) PROVE TypeOK'
  BY <1>1 DEF ReadRefused, TypeOK
<1>2. ASSUME NEW len \in ReadSizes, ReadCall(len) PROVE TypeOK'
  BY <1>2, InputsAssumption DEF ReadCall, TypeOK
<1>3. CASE CloseAgain
  BY <1>3 DEF CloseAgain, TypeOK
<1>4. CASE CloseSettled
  BY <1>4 DEF CloseSettled, CloseReturns, TypeOK
<1>5. CASE CloseCall
  <2>1. MaxDrainSize \in Int /\ DrainWant(MaxDrainSize) \in Nat
    BY LimitsAssumption DEF DrainWant, Lesser
  <2> QED
    BY <1>5, <2>1 DEF CloseCall, TypeOK
<1>f. ASSUME NEW e \in Errors, Fail(e) PROVE CallTypeOK' /\ err' \in Errors
  BY <1>f, <1>c, ReturnType DEF Fail
<1>6. CASE NoneRead
  <2>1. "EOF" \in Errors
    BY DEF Errors
  <2>2. CallTypeOK' /\ err' \in Errors
    BY <1>6, <1>f, <2>1 DEF NoneRead
  <2> QED
    BY <1>6, <2>2 DEF NoneRead, TypeOK, CallTypeOK
<1>7. CASE FixedStop
  <2>1. FixedVerdict \in Errors
    BY <1>7 DEF FixedStop, FixedVerdict, Errors, None
  <2>2. CallTypeOK' /\ err' \in Errors
    BY <1>7, <1>f, <2>1 DEF FixedStop
  <2> QED
    BY <1>7, <2>2 DEF FixedStop, TypeOK, CallTypeOK
<1>8. CASE FixedRead
  <2>1. FixedRoom \in Nat /\ FixedRoom <= remain
    BY <1>8, LimitsAssumption DEF FixedRead, FixedVerdict, FixedRoom, Lesser, TypeOK, None
  <2> DEFINE E(r) == EndOfData(r.err, remain - r.n > 0)
  <2>2. PICK r \in Answers(FixedRoom) :
          /\ BufRead(r)
          /\ served' = served + r.n
          /\ consumed' = consumed + r.n
          /\ remain' = remain - r.n
          /\ err' = E(r)
          /\ UNCHANGED callVars \/ Return(r.n, E(r))
    BY <1>8 DEF FixedRead
  <2>3. r.n \in Nat /\ r.n <= FixedRoom /\ r.err \in {None, "EOF", "ErrNet"}
    BY <2>1, AnswersType
  <2>4. E(r) \in Errors \cup {None}
    BY <2>3 DEF EndOfData, Errors
  <2> HIDE DEF E
  <2>5. CallTypeOK'
    BY <1>c, <2>2, <2>3, <2>4, ReturnType DEF CallTypeOK
  <2>6. pos' \in Nat /\ empties' \in 0..MaxEmptyReads
    BY <2>2, <2>3, BufReadType
  <2>7. served' \in Nat /\ remain' \in Nat /\ consumed' \in Nat
    BY <2>1, <2>2, <2>3 DEF TypeOK
  <2> QED
    BY <1>8, <2>2, <2>4, <2>5, <2>6, <2>7 DEF FixedRead, TypeOK, CallTypeOK
<1>9. CASE ChunkHeaderFails
  <2>1. PICK l \in ChunkLines :
          LineEnds(l) /\ HeaderError(l) # None /\ Fail(HeaderError(l))
    BY <1>9 DEF ChunkHeaderFails
  <2>2. HeaderError(l) \in Errors
    BY <2>1, HeaderErrorType
  <2>3. CallTypeOK' /\ err' \in Errors
    BY <1>f, <2>1, <2>2
  <2>4. consumed' \in Nat /\ pos' \in Nat /\ empties' = empties /\ held' = 0
    BY <2>1, LineEndsType
  <2> QED
    BY <1>9, <2>3, <2>4 DEF ChunkHeaderFails, TypeOK, CallTypeOK
<1>10. CASE ChunkHeader
  <2>1. PICK l \in ChunkLines :
          /\ LineEnds(l)
          /\ HeaderError(l) = None
          /\ chunkRemain' = l.size
          /\ declared' = declared + l.size
          /\ encoded' = encoded + l.len + (IF l.size = 0 THEN 0 ELSE l.size + 2)
          /\ state' = IF l.size = 0 THEN "csTrailers" ELSE "csData"
    BY <1>10 DEF ChunkHeader
  <2>2. l.len \in Nat /\ l.size \in Nat
    BY <2>1, InputsAssumption, LimitsAssumption DEF ChunkLineType, HeaderError, BadSize, None
  <2>3. consumed' \in Nat /\ pos' \in Nat /\ empties' = empties /\ held' = 0
    BY <2>1, LineEndsType
  <2>4. encoded' \in Nat /\ declared' \in Nat
    BY <2>1, <2>2 DEF TypeOK
  <2> QED
    BY <1>10, <2>1, <2>2, <2>3, <2>4 DEF ChunkHeader, TypeOK, ChunkStates
<1>11. CASE ChunkData
  <2>1. ChunkRoom \in Nat /\ ChunkRoom <= chunkRemain
    BY DEF ChunkRoom, Lesser, TypeOK
  <2>2. PICK r \in Answers(ChunkRoom) :
          /\ BufRead(r)
          /\ served' = served + r.n
          /\ consumed' = consumed + r.n
          /\ chunkRemain' = chunkRemain - r.n
          /\ state' = IF chunkRemain = r.n THEN "csDataCRLF" ELSE state
          /\ err' = EndOfData(r.err, TRUE)
          /\ UNCHANGED callVars \/ Return(r.n, EndOfData(r.err, TRUE))
    BY <1>11 DEF ChunkData
  <2>3. r.n \in Nat /\ r.n <= ChunkRoom /\ r.err \in {None, "EOF", "ErrNet"}
    BY <2>1, AnswersType
  <2>4. EndOfData(r.err, TRUE) \in Errors \cup {None}
    BY <2>3, EndOfDataType
  <2>5. CallTypeOK'
    BY <1>c, <2>2, <2>3, <2>4, ReturnType DEF CallTypeOK
  <2>6. pos' \in Nat /\ empties' \in 0..MaxEmptyReads
    BY <2>2, <2>3, BufReadType
  <2>7. /\ served' \in Nat /\ chunkRemain' \in Nat /\ consumed' \in Nat
        /\ state' \in ChunkStates
    BY <2>1, <2>2, <2>3 DEF TypeOK, ChunkStates
  <2> QED
    BY <1>11, <2>2, <2>4, <2>5, <2>6, <2>7 DEF ChunkData, TypeOK, CallTypeOK
<1>12. CASE DataCRLF
  BY <1>12 DEF DataCRLF, ExpectCRLF, BufTake, TypeOK, ChunkStates
<1>13. CASE DataCRLFFails
  <2>1. PICK n \in 0..2 :
          ExpectCRLF(n) /\ Fail(IF n < 2 THEN "ErrUnexpectedEOF" ELSE "ErrBadChunk")
    BY <1>13 DEF DataCRLFFails
  <2>2. (IF n < 2 THEN "ErrUnexpectedEOF" ELSE "ErrBadChunk") \in Errors
    BY DEF Errors
  <2>3. CallTypeOK' /\ err' \in Errors
    BY <1>f, <2>1, <2>2
  <2> QED
    BY <1>13, <2>1, <2>3 DEF DataCRLFFails, ExpectCRLF, BufTake, TypeOK, CallTypeOK
<1>14. CASE LineTruncated
  <2>1. PICK n \in 0..BufferSize : Fragment(n)
    BY <1>14 DEF LineTruncated
  <2>2. "ErrUnexpectedEOF" \in Errors
    BY DEF Errors
  <2>3. CallTypeOK' /\ err' \in Errors
    BY <1>14, <1>f, <2>2 DEF LineTruncated
  <2>4. consumed' \in Nat /\ pos' \in Nat /\ empties' = empties
    BY <2>1, FragmentType, LimitsAssumption
  <2> QED
    BY <1>14, <2>3, <2>4 DEF LineTruncated, TypeOK, CallTypeOK
<1>15. CASE TrailerFails
  <2>1. PICK l \in TrailerLines :
          LineEnds(l) /\ TrailerError(l) # None /\ Fail(TrailerError(l))
    BY <1>15 DEF TrailerFails
  <2>2. TrailerError(l) \in Errors
    BY <2>1, TrailerErrorType
  <2>3. CallTypeOK' /\ err' \in Errors
    BY <1>f, <2>1, <2>2
  <2>4. consumed' \in Nat /\ pos' \in Nat /\ empties' = empties /\ held' = 0
    BY <2>1, LineEndsType
  <2> QED
    BY <1>15, <2>3, <2>4 DEF TrailerFails, TypeOK, CallTypeOK
<1>t. ASSUME NEW l \in TrailerLines, TrailerLine(l)
      PROVE  /\ consumed' \in Nat /\ pos' \in Nat /\ empties' = empties /\ held' = 0
             /\ encoded' \in Nat
  <2>1. l.len \in Nat
    BY InputsAssumption DEF TrailerLineType
  <2> QED
    BY <1>t, <2>1, LineEndsType DEF TrailerLine, TypeOK
<1>16. CASE TrailerField
  <2>1. PICK l \in TrailerLines : TrailerLine(l)
    BY <1>16 DEF TrailerField
  <2> QED
    BY <1>16, <1>t, <2>1 DEF TrailerField, TypeOK
<1>17. CASE TrailersEnd
  <2>1. PICK l \in TrailerLines : TrailerLine(l)
    BY <1>17 DEF TrailersEnd
  <2> QED
    BY <1>17, <1>t, <2>1 DEF TrailersEnd, TypeOK, ChunkStates
<1>18. CASE ChunkDone
  <2>1. "EOF" \in Errors
    BY DEF Errors
  <2>2. CallTypeOK' /\ err' \in Errors
    BY <1>18, <1>f, <2>1 DEF ChunkDone
  <2> QED
    BY <1>18, <2>2 DEF ChunkDone, TypeOK, CallTypeOK
<1>20. CASE LineGoesOn
  <2>1. BufferSize \in Nat /\ Fragment(BufferSize) /\ held' = held + BufferSize
    BY <1>20, LimitsAssumption DEF LineGoesOn
  <2>2. consumed' \in Nat /\ pos' \in Nat /\ empties' = empties
    BY <2>1, FragmentType
  <2>3. held' \in Nat
    BY <2>1 DEF TypeOK
  <2> QED
    BY <1>20, <2>2, <2>3 DEF LineGoesOn, TypeOK
<1>21. CASE LineTooLong
  <2>1. PICK n \in 0..BufferSize : Fragment(n)
    BY <1>21 DEF LineTooLong
  <2>2. CallTypeOK' /\ err' \in Errors
    BY <1>21, <1>f, LineTooLongErrorType DEF LineTooLong
  <2>3. consumed' \in Nat /\ pos' \in Nat /\ empties' = empties
    BY <2>1, FragmentType, LimitsAssumption
  <2> QED
    BY <1>21, <2>2, <2>3 DEF LineTooLong, TypeOK, CallTypeOK
<1>19. CASE UNCHANGED vars
  BY <1>19 DEF vars, TypeOK
<1> QED
  BY <1>1, <1>2, <1>3, <1>4, <1>5, <1>6, <1>7, <1>8, <1>9, <1>10, <1>11, <1>12,
     <1>13, <1>14, <1>15, <1>16, <1>17, <1>18, <1>19, <1>20, <1>21 DEF Next, ReadStep

\* Every variable keeps its type in every reachable state.
THEOREM TypeCorrect == Spec => []TypeOK
<1>1. Init => TypeOK
  BY TypeOKInit
<1>2. TypeOK /\ [Next]_vars => TypeOK'
  BY TypeOKStep
<1> QED
  BY <1>1, <1>2, PTL DEF Spec
-----------------------------------------------------------------------------
(* The accounting of body bytes. *)

\* A call in progress means no terminal condition yet.
Live == pc # "idle" => err = None

FixedAccounting ==
    framing.kind = "fixed" =>
        /\ served + remain = framing.length
        /\ err = None => framing.length <= MaxBodySize
        /\ framing.length > MaxBodySize => served = 0
        /\ err = "EOF" => remain = 0

ChunkStateInv ==
    /\ state # "csData" => chunkRemain = 0
    /\ framing.kind # "chunked" => chunkRemain = 0
    /\ framing.kind = "chunked" /\ err = "EOF" => state = "csDone"

\* The inductive invariant: what has been served and what is still owed add
\* up to what the peer declared, and an end of body is seen only when nothing
\* is owed.  EOFOnlyAtEnd alone is not inductive: it says nothing of a body
\* half way.
AccountInv ==
    /\ TypeOK /\ Live /\ FixedAccounting /\ ChunkStateInv /\ ChunkAccounting
    /\ framing.kind = "none" => served = 0

\* After a call's step the call goes on only if there was no error.
LEMMA ReturnLive ==
    ASSUME NEW n, NEW e, pc \in {"Read", "Close"}, Return(n, e), err' = e
    PROVE  Live'
BY DEF Return, DrainStep, CloseReturns, Live

LEMMA AccountInit == Init => AccountInv
<1> SUFFICES ASSUME Init PROVE AccountInv
  OBVIOUS
<1>1. TypeOK
  BY TypeOKInit
<1>2. Live /\ ChunkStateInv /\ ChunkAccounting /\ (framing.kind = "none" => served = 0)
  BY DEF Init, Live, ChunkStateInv, ChunkAccounting, None
<1>3. FixedAccounting
  BY <1>1, LimitsAssumption DEF Init, FixedAccounting, TypeOK, None
<1> QED
  BY <1>1, <1>2, <1>3 DEF AccountInv

LEMMA AccountStep == AccountInv /\ [Next]_vars => AccountInv'
<1> SUFFICES ASSUME AccountInv, [Next]_vars PROVE AccountInv'
  OBVIOUS
<1>t. TypeOK /\ TypeOK'
  BY TypeOKStep DEF AccountInv
<1> DEFINE Rest == /\ Live' /\ FixedAccounting' /\ ChunkStateInv' /\ ChunkAccounting'
                   /\ (framing.kind = "none" => served = 0)'
<1> SUFFICES Rest
  BY <1>t DEF AccountInv
<1> USE DEF chunkVars, wireVars, callVars, closeMark
\* A step that moves no body byte.
<1>f. ASSUME UNCHANGED <<framing, remain, served, chunkVars>>, Live', err' # "EOF",
             err' = None => err = None
      PROVE  Rest
  BY <1>f DEF AccountInv, FixedAccounting, ChunkStateInv, ChunkAccounting
<1>g. ASSUME UNCHANGED <<framing, remain, served, chunkVars, err>>, Live'
      PROVE  Rest
  BY <1>g DEF AccountInv, FixedAccounting, ChunkStateInv, ChunkAccounting
<1>r. ASSUME NEW n, NEW e, pc # "idle", Return(n, e), err' = e PROVE Live'
  BY <1>r, <1>t, ReturnLive DEF TypeOK
<1>1. ASSUME NEW len \in ReadSizes, ReadRefused(len) PROVE Rest
  BY <1>1, <1>g DEF ReadRefused, AccountInv, Live
<1>2. ASSUME NEW len \in ReadSizes, ReadCall(len) PROVE Rest
  BY <1>2, <1>g DEF ReadCall, AccountInv, Live
<1>3. CASE CloseAgain
  BY <1>3, <1>g DEF CloseAgain, AccountInv, Live
<1>4. CASE CloseSettled
  BY <1>4, <1>g DEF CloseSettled, CloseReturns, AccountInv, Live
<1>5. CASE CloseCall
  BY <1>5, <1>g DEF CloseCall, AccountInv, Live
<1>6. CASE NoneRead
  <2>1. Live'
    BY <1>6, <1>r DEF NoneRead, Reading, Fail
  <2> QED
    BY <1>6, <2>1 DEF NoneRead, Reading, AccountInv, FixedAccounting, ChunkStateInv, ChunkAccounting
<1>7. CASE FixedStop
  <2>1. Live'
    BY <1>7, <1>r DEF FixedStop, Reading, Fail
  <2>2. err' = FixedVerdict
    BY <1>7 DEF FixedStop, Fail
  <2>3. err' = "EOF" => remain = 0
    BY <2>2 DEF FixedVerdict, None
  <2>4. err' # None
    BY <1>7, <2>2 DEF FixedStop
  <2> QED
    BY <1>7, <2>1, <2>3, <2>4 DEF FixedStop, Reading, AccountInv, FixedAccounting, ChunkStateInv, ChunkAccounting
<1>8. CASE FixedRead
  <2>1. FixedRoom \in Nat
    BY <1>8, <1>t, LimitsAssumption DEF FixedRead, FixedVerdict, FixedRoom, Lesser, TypeOK, None
  <2>2. PICK r \in Answers(FixedRoom) :
          /\ served' = served + r.n
          /\ remain' = remain - r.n
          /\ err' = EndOfData(r.err, remain - r.n > 0)
          /\ \/ EndOfData(r.err, remain - r.n > 0) = None /\ UNCHANGED callVars
             \/ Return(r.n, EndOfData(r.err, remain - r.n > 0))
    BY <1>8 DEF FixedRead
  <2>3. r.n \in Nat
    BY <2>1, AnswersType
  <2>4. Live'
    BY <1>8, <1>r, <2>2 DEF FixedRead, Reading, Live
  <2>5. pc # "idle" /\ framing.kind = "fixed" /\ err = None
    BY <1>8 DEF FixedRead, Reading, AccountInv, Live
  <2>6. err' = "EOF" => ~(remain - r.n > 0)
    BY <2>2 DEF EndOfData
  <2>7. UNCHANGED <<framing, chunkVars>>
    BY <1>8 DEF FixedRead
  <2>t. /\ served \in Nat /\ remain \in Nat /\ remain' \in Nat
        /\ framing.length \in Int /\ MaxBodySize \in Int
    BY <1>t, LimitsAssumption DEF TypeOK
  <2>f. served + remain = framing.length /\ framing.length <= MaxBodySize
    BY <2>5 DEF AccountInv, FixedAccounting
  <2>8. FixedAccounting'
    BY <2>t, <2>f, <2>2, <2>3, <2>6, <2>7 DEF FixedAccounting
  <2> QED
    BY <2>4, <2>5, <2>7, <2>8 DEF AccountInv, ChunkStateInv, ChunkAccounting
<1>9. CASE ChunkHeaderFails
  <2>1. PICK l \in ChunkLines : HeaderError(l) # None /\ Fail(HeaderError(l))
    BY <1>9 DEF ChunkHeaderFails
  <2>2. Live'
    BY <1>9, <1>r, <2>1 DEF ChunkHeaderFails, Reading, Fail
  <2>3. err' # "EOF" /\ err' # None
    BY <2>1, HeaderErrorType DEF Fail, None
  <2> QED
    BY <1>9, <1>f, <2>2, <2>3 DEF ChunkHeaderFails
<1>10. CASE ChunkHeader
  <2>1. PICK l \in ChunkLines :
          /\ chunkRemain' = l.size
          /\ declared' = declared + l.size
          /\ state' = IF l.size = 0 THEN "csTrailers" ELSE "csData"
    BY <1>10 DEF ChunkHeader
  <2>2. /\ framing.kind = "chunked" /\ state = "csHeader" /\ pc # "idle"
        /\ UNCHANGED <<framing, remain, served, err, pc>>
    BY <1>10 DEF ChunkHeader, Reading
  <2>3. err = None /\ chunkRemain = 0 /\ l.size \in Int
    BY <2>2, InputsAssumption, LimitsAssumption DEF AccountInv, Live, ChunkStateInv, ChunkLineType, BadSize
  <2> QED
    BY <1>t, <2>1, <2>2, <2>3
       DEF AccountInv, Live, FixedAccounting, ChunkStateInv, ChunkAccounting, TypeOK, None
<1>11. CASE ChunkData
  <2>1. ChunkRoom \in Nat
    BY <1>t DEF ChunkRoom, Lesser, TypeOK
  <2>2. PICK r \in Answers(ChunkRoom) :
          /\ served' = served + r.n
          /\ chunkRemain' = chunkRemain - r.n
          /\ state' = IF chunkRemain = r.n THEN "csDataCRLF" ELSE state
          /\ err' = EndOfData(r.err, TRUE)
          /\ \/ EndOfData(r.err, TRUE) = None /\ UNCHANGED callVars
             \/ Return(r.n, EndOfData(r.err, TRUE))
    BY <1>11 DEF ChunkData
  <2>3. r.n \in Nat
    BY <2>1, AnswersType
  <2>4. Live'
    BY <1>11, <1>r, <2>2 DEF ChunkData, Reading, Live
  <2>5. err' # "EOF"
    BY <2>2 DEF EndOfData
  <2>6. /\ framing.kind = "chunked" /\ state = "csData"
        /\ UNCHANGED <<framing, remain, declared>>
    BY <1>11 DEF ChunkData, Reading
  <2>t. served \in Nat /\ chunkRemain \in Nat /\ declared \in Nat
    BY <1>t DEF TypeOK
  <2>7. ChunkStateInv'
    <3>1. state' # "csData" => chunkRemain' = 0
      <4>1. chunkRemain # r.n => state' = "csData"
        BY <2>2, <2>6
      <4>2. chunkRemain = r.n => chunkRemain' = 0
        BY <2>2, <2>t
      <4> QED
        BY <4>1, <4>2
    <3>2. framing'.kind = "chunked"
      BY <2>6
    <3> QED
      BY <3>1, <3>2, <2>5 DEF ChunkStateInv
  <2>8. ChunkAccounting'
    <3>1. served + chunkRemain = declared
      BY <2>6 DEF AccountInv, ChunkAccounting
    <3> QED
      BY <3>1, <2>t, <2>2, <2>3, <2>6 DEF ChunkAccounting
  <2> QED
    BY <2>4, <2>6, <2>7, <2>8 DEF FixedAccounting
<1>12. CASE DataCRLF
  BY <1>12 DEF DataCRLF, Reading, AccountInv, Live, FixedAccounting, ChunkStateInv, ChunkAccounting, None
<1>13. CASE DataCRLFFails
  <2>1. PICK n \in 0..2 : Fail(IF n < 2 THEN "ErrUnexpectedEOF" ELSE "ErrBadChunk")
    BY <1>13 DEF DataCRLFFails
  <2>2. Live'
    BY <1>13, <1>r, <2>1 DEF DataCRLFFails, Reading, Fail
  <2>3. err' # "EOF" /\ err' # None
    BY <2>1 DEF Fail, None
  <2> QED
    BY <1>13, <1>f, <2>2, <2>3 DEF DataCRLFFails
<1>14. CASE LineTruncated
  <2>1. Live' /\ err' # "EOF" /\ err' # None
    BY <1>14, <1>r DEF LineTruncated, ReadingLine, Reading, Fail, None
  <2> QED
    BY <1>14, <1>f, <2>1 DEF LineTruncated
<1>15. CASE TrailerFails
  <2>1. PICK l \in TrailerLines : TrailerError(l) # None /\ Fail(TrailerError(l))
    BY <1>15 DEF TrailerFails
  <2>2. Live'
    BY <1>15, <1>r, <2>1 DEF TrailerFails, Reading, Fail
  <2>3. err' # "EOF" /\ err' # None
    BY <2>1, TrailerErrorType DEF Fail, None
  <2> QED
    BY <1>15, <1>f, <2>2, <2>3 DEF TrailerFails
<1>16. CASE TrailerField
  BY <1>16 DEF TrailerField, Reading, AccountInv, Live, FixedAccounting, ChunkStateInv, ChunkAccounting
<1>17. CASE TrailersEnd
  BY <1>17 DEF TrailersEnd, Reading, AccountInv, Live, FixedAccounting, ChunkStateInv, ChunkAccounting
<1>18. CASE ChunkDone
  <2>1. Live' /\ err' = "EOF"
    BY <1>18, <1>r DEF ChunkDone, Reading, Fail
  <2> QED
    BY <1>18, <2>1 DEF ChunkDone, Reading, AccountInv, FixedAccounting, ChunkStateInv, ChunkAccounting, None
<1>19. CASE UNCHANGED vars
  BY <1>19 DEF vars, AccountInv, Live, FixedAccounting, ChunkStateInv, ChunkAccounting
<1>20. CASE LineGoesOn
  BY <1>20, <1>g DEF LineGoesOn, AccountInv, Live
<1>21. CASE LineTooLong
  <2>1. Live' /\ err' # "EOF" /\ err' # None
    BY <1>21, <1>r, LineTooLongErrorType DEF LineTooLong, ReadingLine, Reading, Fail, Errors, None
  <2> QED
    BY <1>21, <1>f, <2>1 DEF LineTooLong
<1> QED
  BY <1>1, <1>2, <1>3, <1>4, <1>5, <1>6, <1>7, <1>8, <1>9, <1>10, <1>11, <1>12,
     <1>13, <1>14, <1>15, <1>16, <1>17, <1>18, <1>19, <1>20, <1>21 DEF Next, ReadStep

LEMMA Accounting == Spec => []AccountInv
BY AccountInit, AccountStep, PTL DEF Spec

LEMMA AccountEOF == AccountInv => EOFOnlyAtEnd
BY DEF AccountInv, FixedAccounting, ChunkStateInv, ChunkAccounting, EOFOnlyAtEnd, TypeOK, Kinds

\* io.EOF is never reported for a body that is short of what was declared,
\* however the connection cuts it and whatever the limits.
THEOREM WholeBodyAtEOF == Spec => []EOFOnlyAtEnd
BY AccountEOF, Accounting, PTL

\* Once an error or the end is recorded, no call moves a byte or the error.
THEOREM FinalError == Spec => ErrorIsFinal
<1>1. AccountInv /\ [Next]_vars =>
        [err # None => UNCHANGED <<err, served, consumed, pos, trailers>>]_vars
  <2> SUFFICES ASSUME AccountInv, [Next]_vars, err # None
               PROVE  UNCHANGED <<err, served, consumed, pos, trailers>>
    OBVIOUS
  <2>1. ~ReadStep
    BY DEF AccountInv, Live, ReadStep, Reading, NoneRead, FixedStop, FixedRead,
           LineGoesOn, LineTooLong, ReadingLine,
           ChunkHeaderFails, ChunkHeader, ChunkData, DataCRLF, DataCRLFFails,
           LineTruncated, TrailerFails, TrailerField, TrailersEnd, ChunkDone
  <2> QED
    BY <2>1 DEF Next, ReadRefused, ReadCall, CloseAgain, CloseSettled, CloseCall,
                vars, chunkVars, wireVars
<1> QED
  BY <1>1, Accounting, PTL DEF Spec, ErrorIsFinal

-----------------------------------------------------------------------------
(* The limit on served bytes. *)

\* With NoWrap an admitted chunk fits the budget, so what a chunked body
\* declares in all does.
DeclaredBounded == framing.kind = "chunked" => declared <= MaxBodySize

LEMMA DeclaredStep ==
    ASSUME NoWrap
    PROVE  AccountInv /\ DeclaredBounded /\ [Next]_vars => DeclaredBounded'
<1> SUFFICES ASSUME AccountInv, DeclaredBounded, [Next]_vars PROVE DeclaredBounded'
  OBVIOUS
<1>1. CASE ChunkHeader
  <2>1. PICK l \in ChunkLines :
          HeaderError(l) = None /\ declared' = declared + l.size
    BY <1>1 DEF ChunkHeader
  <2>2. served + chunkRemain = declared /\ chunkRemain = 0
    BY <1>1 DEF ChunkHeader, Reading, AccountInv, ChunkAccounting, ChunkStateInv
  <2>3. l.size \in Nat /\ MaxBodySize + l.size <= MaxInt
    BY <2>1, InputsAssumption, LimitsAssumption
       DEF ChunkLineType, HeaderError, BadSize, None, NoWrap
  <2>4. served \in Nat /\ declared \in Nat /\ served <= MaxBodySize
    BY <1>1, <2>2 DEF AccountInv, TypeOK, DeclaredBounded, ChunkHeader, Reading
  <2>5. Add64(served, l.size) = served + l.size
    BY <2>3, <2>4, LimitsAssumption DEF Add64
  <2>6. served + l.size <= MaxBodySize
    BY <2>1, <2>3, <2>4, <2>5, LimitsAssumption DEF HeaderError, None
  <2> QED
    BY <2>1, <2>2, <2>3, <2>4, <2>6 DEF DeclaredBounded
<1>2. CASE UNCHANGED <<framing, declared>>
  BY <1>2 DEF DeclaredBounded
<1>3. ChunkHeader \/ UNCHANGED <<framing, declared>>
  BY DEF Next, ReadStep, vars, chunkVars, ReadRefused, ReadCall, CloseAgain,
         CloseSettled, CloseCall, NoneRead, FixedStop, FixedRead, ChunkHeaderFails,
         ChunkData, DataCRLF, DataCRLFFails, LineGoesOn, LineTooLong, LineTruncated,
         TrailerFails, TrailerField, TrailersEnd, ChunkDone
<1> QED
  BY <1>1, <1>2, <1>3

\* The handler is never given more than MaxBodySize bytes and no chunk over
\* the budget is admitted, provided no arriving chunk size is within
\* MaxBodySize of the int64 maximum.
THEOREM BodyWithinLimit == ASSUME NoWrap PROVE Spec => []ServedWithinLimit
<1>1. Init => DeclaredBounded
  BY LimitsAssumption DEF Init, DeclaredBounded
<1>2. AccountInv /\ DeclaredBounded /\ [Next]_vars => DeclaredBounded'
  BY DeclaredStep
<1>3. AccountInv /\ DeclaredBounded => ServedWithinLimit
  BY LimitsAssumption
     DEF AccountInv, FixedAccounting, ChunkStateInv, ChunkAccounting, DeclaredBounded,
         ServedWithinLimit, TypeOK, Kinds
<1> QED
  BY <1>1, <1>2, <1>3, Accounting, PTL DEF Spec

-----------------------------------------------------------------------------
(* Close, progress, trailers and the refinement. *)

\* A step inside Read hands n bytes and an error e to whoever called, never
\* neither, or leaves the call going with no byte moved.
Returns(n, e) ==
    /\ Return(n, e) /\ err' = e /\ served' = served + n
    /\ n > 0 \/ e # None

LEMMA ReadStepShape ==
    ASSUME TypeOK, Live, ReadStep
    PROVE  /\ pc \in {"Read", "Close"} /\ want > 0
           /\ UNCHANGED <<framing, closed, servedAtClose, posAtClose>>
           /\ \/ \E n \in 0..want, e \in Errors \cup {None} : Returns(n, e)
              \/ UNCHANGED <<callVars, err, served>>
<1> DEFINE Shape == \/ \E n \in 0..want, e \in Errors \cup {None} : Returns(n, e)
                    \/ UNCHANGED <<callVars, err, served>>
<1> USE DEF closeMark
<1>1. \E kind \in Kinds : Reading(kind)
  BY DEF ReadStep, Kinds, NoneRead, FixedStop, FixedRead, ChunkHeaderFails, ChunkHeader,
         ChunkData, DataCRLF, DataCRLFFails, LineGoesOn, LineTooLong, LineTruncated,
         ReadingLine, TrailerFails, TrailerField, TrailersEnd, ChunkDone
<1>2. pc \in {"Read", "Close"} /\ want > 0 /\ want \in Nat /\ served \in Nat /\ err = None
  BY <1>1 DEF Reading, TypeOK, Live
<1>3. UNCHANGED <<framing, closed, servedAtClose, posAtClose>>
  BY DEF ReadStep, NoneRead, FixedStop, FixedRead, ChunkHeaderFails, ChunkHeader,
         ChunkData, DataCRLF, DataCRLFFails, LineGoesOn, LineTooLong, LineTruncated,
         ReadingLine, TrailerFails, TrailerField, TrailersEnd, ChunkDone
<1> SUFFICES Shape
  BY <1>2, <1>3
<1>4. ASSUME NEW e \in Errors, Fail(e), UNCHANGED served PROVE Shape
  <2>1. Returns(0, e)
    BY <1>2, <1>4 DEF Fail, Returns, Errors, None
  <2> QED
    BY <1>2, <2>1
<1>5. CASE NoneRead
  BY <1>4, <1>5 DEF NoneRead, Errors
<1>6. CASE FixedStop
  <2>1. FixedVerdict \in Errors
    BY <1>6 DEF FixedStop, FixedVerdict, Errors, None
  <2> QED
    BY <1>4, <1>6, <2>1 DEF FixedStop
<1>7. CASE FixedRead
  <2>1. FixedRoom \in Nat /\ FixedRoom <= want
    BY <1>7, <1>2, LimitsAssumption
       DEF FixedRead, FixedVerdict, FixedRoom, Lesser, TypeOK, None
  <2> DEFINE E(r) == EndOfData(r.err, remain - r.n > 0)
  <2>2. PICK r \in Answers(FixedRoom) :
          /\ served' = served + r.n /\ err' = E(r)
          /\ \/ r.n = 0 /\ E(r) = None /\ UNCHANGED callVars
             \/ (r.n > 0 \/ E(r) # None) /\ Return(r.n, E(r))
    BY <1>7 DEF FixedRead
  <2>3. r.n \in 0..want /\ r.err \in {None, "EOF", "ErrNet"}
    BY <1>2, <2>1, AnswersType
  <2>4. E(r) \in Errors \cup {None}
    BY <2>3 DEF EndOfData, Errors
  <2> HIDE DEF E
  <2> QED
    BY <1>2, <2>2, <2>3, <2>4 DEF Returns
<1>8. CASE ChunkHeaderFails
  <2>1. PICK l \in ChunkLines : HeaderError(l) # None /\ Fail(HeaderError(l))
    BY <1>8 DEF ChunkHeaderFails
  <2>2. HeaderError(l) \in Errors
    BY <2>1, HeaderErrorType
  <2> QED
    BY <1>4, <1>8, <2>1, <2>2 DEF ChunkHeaderFails
<1>9. CASE ChunkData
  <2>1. ChunkRoom \in Nat /\ ChunkRoom <= want
    BY <1>2 DEF ChunkRoom, Lesser, TypeOK
  <2> DEFINE E(r) == EndOfData(r.err, TRUE)
  <2>2. PICK r \in Answers(ChunkRoom) :
          /\ served' = served + r.n /\ err' = E(r)
          /\ \/ r.n = 0 /\ E(r) = None /\ UNCHANGED callVars
             \/ (r.n > 0 \/ E(r) # None) /\ Return(r.n, E(r))
    BY <1>9 DEF ChunkData
  <2>3. r.n \in 0..want /\ r.err \in {None, "EOF", "ErrNet"}
    BY <1>2, <2>1, AnswersType
  <2>4. E(r) \in Errors \cup {None}
    BY <2>3, EndOfDataType
  <2> HIDE DEF E
  <2> QED
    BY <1>2, <2>2, <2>3, <2>4 DEF Returns
<1>10. CASE DataCRLFFails
  <2>1. PICK n \in 0..2 : Fail(IF n < 2 THEN "ErrUnexpectedEOF" ELSE "ErrBadChunk")
    BY <1>10 DEF DataCRLFFails
  <2>2. (IF n < 2 THEN "ErrUnexpectedEOF" ELSE "ErrBadChunk") \in Errors
    BY DEF Errors
  <2> QED
    BY <1>4, <1>10, <2>1, <2>2 DEF DataCRLFFails
<1>11. CASE LineTruncated
  BY <1>4, <1>11 DEF LineTruncated, Errors
<1>12. CASE TrailerFails
  <2>1. PICK l \in TrailerLines : TrailerError(l) # None /\ Fail(TrailerError(l))
    BY <1>12 DEF TrailerFails
  <2>2. TrailerError(l) \in Errors
    BY <2>1, TrailerErrorType
  <2> QED
    BY <1>4, <1>12, <2>1, <2>2 DEF TrailerFails
<1>13. CASE ChunkDone
  BY <1>4, <1>13 DEF ChunkDone, Errors
<1>14. CASE ChunkHeader \/ DataCRLF \/ TrailerField \/ TrailersEnd \/ LineGoesOn
  BY <1>14 DEF ChunkHeader, DataCRLF, TrailerField, TrailersEnd, LineGoesOn
<1>15. CASE LineTooLong
  BY <1>4, <1>15, LineTooLongErrorType DEF LineTooLong
<1> QED
  BY <1>5, <1>6, <1>7, <1>8, <1>9, <1>10, <1>11, <1>12, <1>13, <1>14, <1>15
     DEF ReadStep

-----------------------------------------------------------------------------
(* The verdict of Close. *)

\* CloseVerdict with what holds while Close runs and before it ran.
CloseInv ==
    /\ CloseVerdict
    /\ pc = "Close" => closed /\ closeErr = None
    /\ ~closed => ~drained /\ closeErr = None

LEMMA CloseStep == AccountInv /\ CloseInv /\ [Next]_vars => CloseInv'
<1> SUFFICES ASSUME AccountInv, CloseInv, [Next]_vars PROVE CloseInv'
  OBVIOUS
<1> USE DEF callVars, closeMark, CloseInv, CloseVerdict
<1>1. ASSUME NEW len \in ReadSizes, ReadRefused(len) PROVE CloseInv'
  BY <1>1 DEF ReadRefused
<1>2. ASSUME NEW len \in ReadSizes, ReadCall(len) PROVE CloseInv'
  BY <1>2 DEF ReadCall
<1>3. CASE CloseAgain
  BY <1>3 DEF CloseAgain
<1>4. CASE CloseSettled
  BY <1>4 DEF CloseSettled, CloseReturns, None
<1>5. CASE CloseCall
  BY <1>5 DEF CloseCall
<1>6. CASE ReadStep
  <2>1. TypeOK /\ Live /\ err = None /\ ~drained
    BY <1>6, ReadStepShape DEF AccountInv, Live, None
  <2>2. closed' = closed /\ pc \in {"Read", "Close"}
    BY <1>6, <2>1, ReadStepShape
  <2>3. ASSUME NEW n, NEW e, Returns(n, e) PROVE CloseInv'
    <3>1. CASE pc = "Read"
      BY <2>1, <2>2, <2>3, <3>1 DEF Returns, Return
    <3>2. CASE pc = "Close"
      BY <2>1, <2>2, <2>3, <3>2 DEF Returns, Return, DrainStep, CloseReturns, None
    <3> QED
      BY <2>2, <3>1, <3>2
  <2>4. CASE UNCHANGED <<callVars, err, served>>
    BY <2>2, <2>4
  <2> QED
    BY <1>6, <2>1, <2>3, <2>4, ReadStepShape
<1>7. CASE UNCHANGED vars
  BY <1>7 DEF vars
<1> QED
  BY <1>1, <1>2, <1>3, <1>4, <1>5, <1>6, <1>7 DEF Next

LEMMA CloseInvariant == Spec => []CloseInv
<1>1. Init => CloseInv
  BY DEF Init, CloseInv, CloseVerdict
<1> QED
  BY <1>1, CloseStep, Accounting, PTL DEF Spec

\* Once Close has returned, it returned nil exactly when it called the
\* connection reusable, and it does so only behind a body that ended.
THEOREM ReuseVerdict == Spec => []CloseVerdict
<1>1. CloseInv => CloseVerdict
  BY DEF CloseInv
<1> QED
  BY <1>1, CloseInvariant, PTL

\* However chunks and reads cut the body, Close asks for at most one body byte
\* past what is left of MaxDrainSize, and its budget is exact.
THEOREM CloseDrainBounded == Spec => []DrainBounded
<1>1. Init => DrainBounded
  BY DEF Init, DrainBounded
<1>2. TypeOK /\ Live /\ DrainBounded /\ [Next]_vars => DrainBounded'
  <2> SUFFICES ASSUME TypeOK, Live, DrainBounded, [Next]_vars, pc' = "Close"
               PROVE  /\ served' - servedAtClose' = MaxDrainSize - budget'
                      /\ want' <= budget' + 1
    BY DEF DrainBounded
  <2> USE DEF callVars, closeMark
  <2>t. served \in Nat /\ servedAtClose \in Nat /\ budget \in Int /\ want \in Nat
    BY DEF TypeOK
  <2>1. CASE CloseCall
    BY <2>1, <2>t, LimitsAssumption DEF CloseCall, DrainWant, Lesser
  <2>2. CASE ReadStep
    <3>1. servedAtClose' = servedAtClose /\ pc \in {"Read", "Close"}
      BY <2>2, ReadStepShape
    <3>2. ASSUME NEW n \in 0..want, NEW e, Returns(n, e)
          PROVE  /\ served' - servedAtClose' = MaxDrainSize - budget'
                 /\ want' <= budget' + 1
      <4>1. pc = "Close" /\ DrainStep(n, e)
        BY <3>1, <3>2 DEF Returns, Return
      <4>2. served' = served + n /\ budget' = budget - n /\ n \in Nat
        BY <2>t, <3>2, <4>1 DEF Returns, DrainStep
      <4>3. want' = DrainWant(budget')
        BY <4>1, <4>2 DEF DrainStep, CloseReturns
      <4>4. want' <= budget' + 1
        BY <2>t, <4>2, <4>3, LimitsAssumption DEF DrainWant, Lesser
      <4>5. served - servedAtClose = MaxDrainSize - budget
        BY <4>1 DEF DrainBounded
      <4> QED
        BY <2>t, <3>1, <4>2, <4>4, <4>5, LimitsAssumption
    <3>3. CASE UNCHANGED <<callVars, err, served>>
      BY <3>1, <3>3 DEF DrainBounded
    <3> QED
      BY <2>2, <3>2, <3>3, ReadStepShape
  <2>3. CASE UNCHANGED <<pc, want, budget, served, servedAtClose>>
    BY <2>3 DEF DrainBounded
  <2>4. ASSUME NEW len \in ReadSizes, ReadRefused(len) \/ ReadCall(len)
        PROVE  UNCHANGED <<pc, want, budget, served, servedAtClose>>
    BY <2>4 DEF ReadRefused, ReadCall
  <2>5. ~CloseSettled
    BY DEF CloseSettled, CloseReturns
  <2> QED
    BY <2>1, <2>2, <2>3, <2>4, <2>5 DEF Next, CloseAgain, vars
<1>3. AccountInv => TypeOK /\ Live
  BY DEF AccountInv
<1> QED
  BY <1>1, <1>2, <1>3, Accounting, PTL DEF Spec

-----------------------------------------------------------------------------
(* Progress, position and trailers. *)

\* However often the connection answers (0, nil), a Read with room comes back
\* with a byte or an error, with the bytes it counted as served, and never goes
\* round with a byte in hand.
THEOREM ReadProgress == Spec => ReadMakesProgress
<1> DEFINE Progress == IF pc' = "Read" THEN served' = served
                       ELSE /\ result'.n = served' - served /\ result'.n <= want
                            /\ result'.n > 0 \/ result'.err # None
<1>1. TypeOK /\ Live /\ [Next]_vars => [pc = "Read" => Progress]_vars
  <2> SUFFICES ASSUME TypeOK, Live, [Next]_vars, pc = "Read" PROVE Progress
    OBVIOUS
  <2>1. ReadStep \/ UNCHANGED <<pc, served>>
    BY DEF Next, vars, callVars, ReadRefused, ReadCall, CloseAgain, CloseSettled, CloseCall
  <2>2. CASE UNCHANGED <<pc, served>>
    BY <2>2
  <2>3. ASSUME NEW n \in 0..want, NEW e \in Errors \cup {None}, Returns(n, e)
        PROVE  Progress
    <3>1. result' = [n |-> n, err |-> e] /\ pc' = "idle" /\ served' = served + n
      BY <2>3 DEF Returns, Return
    <3>2. n \in Nat /\ n <= want /\ served \in Nat
      BY DEF TypeOK
    <3>3. n > 0 \/ e # None
      BY <2>3 DEF Returns
    <3> QED
      BY <3>1, <3>2, <3>3
  <2> QED
    BY <2>1, <2>2, <2>3, ReadStepShape DEF callVars
<1>2. AccountInv => TypeOK /\ Live
  BY DEF AccountInv
<1> QED
  BY <1>1, <1>2, Accounting, PTL DEF Spec, ReadMakesProgress

\* What the peer still owes of the encoding it committed to.
Owed == IF state = "csData" THEN chunkRemain + 2
        ELSE IF state = "csDataCRLF" THEN 2 ELSE 0

\* ConsumedIsPosition in the middle of a body: where on the connection the
\* reader stands, by what it served, what is owed, and what it holds of a line.
WireInv ==
    /\ consumed = pos
    /\ framing.kind = "none" => pos = 0
    /\ framing.kind = "fixed" => pos = served
    /\ framing.kind = "chunked" /\ err \in {None, "EOF"} =>
         /\ pos + Owed = encoded + held
         /\ state \notin {"csHeader", "csTrailers"} => held = 0

LEMMA WireStep == AccountInv /\ WireInv /\ [Next]_vars => WireInv'
<1> SUFFICES ASSUME AccountInv, WireInv, [Next]_vars PROVE WireInv'
  OBVIOUS
<1> USE DEF chunkVars, wireVars
<1>t. TypeOK /\ Live
  BY DEF AccountInv
\* Nothing moves on the connection.
<1>s. ASSUME UNCHANGED <<framing, served, wireVars, chunkVars>>,
             err' \in {None, "EOF"} => err \in {None, "EOF"}
      PROVE  WireInv'
  BY <1>s DEF WireInv, Owed
\* A chunked body fails: only the count matters from here on.
<1>f. ASSUME NEW n \in Nat, Reading("chunked"), framing' = framing, served' = served,
             pos' = pos + n, consumed' = consumed + n, err' \notin {None, "EOF"}
      PROVE  WireInv'
  BY <1>f DEF WireInv, Reading
<1>1. CASE ~ReadStep
  <2>1. UNCHANGED <<framing, served, wireVars, chunkVars, err>>
    BY <1>1 DEF Next, vars, ReadRefused, ReadCall, CloseAgain, CloseSettled, CloseCall
  <2> QED
    BY <1>s, <2>1
<1>2. CASE NoneRead \/ FixedStop \/ ChunkDone
  <2>1. UNCHANGED <<framing, served, wireVars, chunkVars>> /\ err = None
    BY <1>2, <1>t DEF NoneRead, FixedStop, ChunkDone, Reading, Live
  <2> QED
    BY <1>s, <2>1
<1>3. CASE FixedRead
  <2>1. FixedRoom \in Nat /\ framing.kind = "fixed" /\ framing' = framing
    BY <1>3, <1>t, LimitsAssumption
       DEF FixedRead, Reading, FixedVerdict, FixedRoom, Lesser, TypeOK, None
  <2>2. PICK r \in Answers(FixedRoom) :
          BufRead(r) /\ served' = served + r.n /\ consumed' = consumed + r.n
    BY <1>3 DEF FixedRead
  <2>3. pos' = pos + r.n
    BY <1>t, <2>1, <2>2, AnswersType, BufReadType
  <2> QED
    BY <2>1, <2>2, <2>3 DEF WireInv
<1>4. CASE ChunkData
  <2>1. /\ ChunkRoom \in Nat /\ Reading("chunked") /\ state = "csData" /\ err = None
        /\ UNCHANGED <<framing, held, encoded>>
    BY <1>4, <1>t DEF ChunkData, ChunkRoom, Lesser, Reading, Live, TypeOK
  <2>2. PICK r \in Answers(ChunkRoom) :
          /\ BufRead(r) /\ consumed' = consumed + r.n /\ chunkRemain' = chunkRemain - r.n
          /\ state' = IF chunkRemain = r.n THEN "csDataCRLF" ELSE state
    BY <1>4 DEF ChunkData
  <2>3. pos' = pos + r.n /\ r.n \in Nat
    BY <1>t, <2>1, <2>2, AnswersType, BufReadType
  <2>4. framing.kind = "chunked" /\ pos + chunkRemain + 2 = encoded + held /\ held = 0
    BY <1>t, <2>1 DEF WireInv, Owed, Reading, TypeOK
  <2>5. pos' + Owed' = encoded' + held'
    <3>1. pos \in Nat /\ chunkRemain \in Nat /\ encoded \in Nat
      BY <1>t DEF TypeOK
    <3>2. CASE chunkRemain = r.n
      BY <2>1, <2>2, <2>3, <2>4, <3>1, <3>2 DEF Owed
    <3>3. CASE chunkRemain # r.n
      BY <2>1, <2>2, <2>3, <2>4, <3>1, <3>3 DEF Owed
    <3> QED
      BY <3>2, <3>3
  <2> QED
    BY <2>1, <2>2, <2>3, <2>4, <2>5 DEF WireInv
<1>5. CASE DataCRLF
  BY <1>5, <1>t DEF DataCRLF, ExpectCRLF, BufTake, Reading, Live, WireInv, Owed, TypeOK
<1>6. CASE DataCRLFFails
  <2>1. PICK n \in 0..2 :
          ExpectCRLF(n) /\ Fail(IF n < 2 THEN "ErrUnexpectedEOF" ELSE "ErrBadChunk")
    BY <1>6 DEF DataCRLFFails
  <2>2. err' \notin {None, "EOF"}
    BY <2>1 DEF Fail, None
  <2> QED
    BY <1>6, <1>f, <2>1, <2>2 DEF DataCRLFFails, ExpectCRLF, BufTake
\* The line operations, by the bytes of their last fragment.
<1>e. ASSUME NEW l, l.len \in Nat, LineEnds(l)
      PROVE  /\ l.len - held \in Nat /\ held' = 0
             /\ pos' = pos + (l.len - held) /\ consumed' = consumed + (l.len - held)
  BY <1>e, LimitsAssumption DEF LineEnds, Fragment, BufTake
<1>7. CASE LineGoesOn
  <2>1. /\ Reading("chunked") /\ state \in {"csHeader", "csTrailers"} /\ err = None
        /\ UNCHANGED <<framing, served, err, chunkVars>>
        /\ pos' = pos + BufferSize /\ consumed' = consumed + BufferSize
        /\ held' = held + BufferSize
    BY <1>7, <1>t DEF LineGoesOn, ReadingLine, Reading, Live, Fragment, BufTake
  <2>2. BufferSize \in Nat /\ pos \in Nat /\ held \in Nat /\ encoded \in Nat
    BY <1>t, LimitsAssumption DEF TypeOK
  <2> QED
    BY <2>1, <2>2 DEF WireInv, Owed, Reading
<1>8. CASE LineTooLong
  <2>1. PICK n \in 0..BufferSize : Fragment(n)
    BY <1>8 DEF LineTooLong
  <2>2. n \in Nat /\ pos' = pos + n /\ consumed' = consumed + n
    BY <2>1, LimitsAssumption DEF Fragment, BufTake
  <2>3. err' \notin {None, "EOF"}
    BY <1>8, LineTooLongErrorType DEF LineTooLong, Fail, Errors, None
  <2> QED
    BY <1>8, <1>f, <2>2, <2>3 DEF LineTooLong, ReadingLine
<1>9. CASE LineTruncated
  <2>1. PICK n \in 0..BufferSize : Fragment(n)
    BY <1>9 DEF LineTruncated
  <2>2. n \in Nat /\ pos' = pos + n /\ consumed' = consumed + n
    BY <2>1, LimitsAssumption DEF Fragment, BufTake
  <2>3. err' \notin {None, "EOF"}
    BY <1>9 DEF LineTruncated, Fail, None
  <2> QED
    BY <1>9, <1>f, <2>2, <2>3 DEF LineTruncated, ReadingLine
<1>10. CASE ChunkHeaderFails
  <2>1. PICK l \in ChunkLines :
          LineEnds(l) /\ HeaderError(l) # None /\ Fail(HeaderError(l))
    BY <1>10 DEF ChunkHeaderFails
  <2>2. l.len \in Nat
    BY InputsAssumption DEF ChunkLineType
  <2>3. err' \notin {None, "EOF"}
    BY <2>1, HeaderErrorType DEF Fail, None
  <2> QED
    BY <1>10, <1>e, <1>f, <2>1, <2>2, <2>3 DEF ChunkHeaderFails
<1>11. CASE ChunkHeader
  <2>1. PICK l \in ChunkLines :
          /\ LineEnds(l) /\ HeaderError(l) = None /\ chunkRemain' = l.size
          /\ encoded' = encoded + l.len + (IF l.size = 0 THEN 0 ELSE l.size + 2)
          /\ state' = IF l.size = 0 THEN "csTrailers" ELSE "csData"
    BY <1>11 DEF ChunkHeader
  <2>2. l.len \in Nat /\ l.size \in Nat
    BY <2>1, InputsAssumption, LimitsAssumption DEF ChunkLineType, HeaderError, BadSize, None
  <2>3. /\ l.len - held \in Nat /\ held' = 0
        /\ pos' = pos + (l.len - held) /\ consumed' = consumed + (l.len - held)
    BY <1>e, <2>1, <2>2
  <2>4. /\ framing.kind = "chunked" /\ state = "csHeader" /\ err = None
        /\ UNCHANGED <<framing, served, err>>
    BY <1>11, <1>t DEF ChunkHeader, Reading, Live
  <2>5. pos \in Nat /\ held \in Nat /\ encoded \in Nat /\ pos = encoded + held
    BY <1>t, <2>4 DEF TypeOK, WireInv, Owed
  <2>6. pos' + Owed' = encoded'
    <3>1. CASE l.size = 0
      BY <2>1, <2>2, <2>3, <2>5, <3>1 DEF Owed
    <3>2. CASE l.size # 0
      BY <2>1, <2>2, <2>3, <2>5, <3>2 DEF Owed
    <3> QED
      BY <3>1, <3>2
  <2>7. encoded' \in Nat
    BY <2>1, <2>2, <2>5
  <2> QED
    BY <2>3, <2>4, <2>6, <2>7 DEF WireInv
<1>12. CASE TrailerFails
  <2>1. PICK l \in TrailerLines :
          LineEnds(l) /\ TrailerError(l) # None /\ Fail(TrailerError(l))
    BY <1>12 DEF TrailerFails
  <2>2. l.len \in Nat
    BY InputsAssumption DEF TrailerLineType
  <2>3. err' \notin {None, "EOF"}
    BY <2>1, TrailerErrorType DEF Fail, None
  <2> QED
    BY <1>12, <1>e, <1>f, <2>1, <2>2, <2>3 DEF TrailerFails
<1>13. CASE TrailerField \/ TrailersEnd
  <2>1. PICK l \in TrailerLines : LineEnds(l) /\ encoded' = encoded + l.len
    BY <1>13 DEF TrailerField, TrailersEnd, TrailerLine
  <2>2. l.len \in Nat
    BY InputsAssumption DEF TrailerLineType
  <2>3. /\ l.len - held \in Nat /\ held' = 0
        /\ pos' = pos + (l.len - held) /\ consumed' = consumed + (l.len - held)
    BY <1>e, <2>1, <2>2
  <2>4. /\ framing.kind = "chunked" /\ state = "csTrailers" /\ err = None
        /\ UNCHANGED <<framing, served, err>> /\ state' \in {"csTrailers", "csDone"}
    BY <1>13, <1>t DEF TrailerField, TrailersEnd, Reading, Live
  <2>5. pos \in Nat /\ held \in Nat /\ encoded \in Nat /\ pos = encoded + held
    BY <1>t, <2>4 DEF TypeOK, WireInv, Owed
  <2>6. Owed' = 0 /\ pos' = encoded' /\ encoded' \in Nat
    BY <2>1, <2>2, <2>3, <2>4, <2>5 DEF Owed
  <2> QED
    BY <2>3, <2>4, <2>6 DEF WireInv
<1> QED
  BY <1>1, <1>2, <1>3, <1>4, <1>5, <1>6, <1>7, <1>8, <1>9, <1>10, <1>11, <1>12, <1>13
     DEF ReadStep

\* The reader's count of consumed bytes is the connection's place on every path
\* through it, and behind a body that ended the place is the encoding's end.
THEOREM PositionExact == Spec => []ConsumedIsPosition
<1>1. Init => WireInv
  <2> SUFFICES ASSUME Init PROVE WireInv
    OBVIOUS
  <2> QED
    BY DEF Init, WireInv, Owed
<1>2. AccountInv /\ WireInv => ConsumedIsPosition
  <2> SUFFICES ASSUME AccountInv, WireInv, err = "EOF" PROVE consumed = Encoding
    BY DEF WireInv, ConsumedIsPosition
  <2>1. EOFOnlyAtEnd /\ framing.kind \in Kinds /\ consumed = pos
    BY AccountEOF DEF AccountInv, TypeOK, WireInv
  <2>2. CASE framing.kind = "none"
    BY <2>1, <2>2 DEF WireInv, Encoding
  <2>3. CASE framing.kind = "fixed"
    BY <2>1, <2>3 DEF WireInv, EOFOnlyAtEnd, Encoding
  <2>4. CASE framing.kind = "chunked"
    <3>1. state = "csDone" /\ held = 0 /\ pos + Owed = encoded + held
      BY <2>1, <2>4 DEF WireInv, EOFOnlyAtEnd
    <3>2. pos \in Nat /\ encoded \in Nat
      BY DEF AccountInv, TypeOK
    <3> QED
      BY <2>1, <2>4, <3>1, <3>2 DEF Owed, Encoding
  <2> QED
    BY <2>1, <2>2, <2>3, <2>4 DEF Kinds
<1> QED
  BY <1>1, <1>2, WireStep, Accounting, PTL DEF Spec

\* TrailersOnlyAtEnd with where its fields are before they are published.
TrailerInv ==
    /\ count <= MaxTrailerCount /\ trailers <= MaxTrailerCount
    /\ state # "csDone" => trailers = 0
    /\ state = "csDone" =>
         /\ framing.kind = "chunked"
         /\ err = "EOF" \/ (err = None /\ pc # "idle")

LEMMA TrailerStep == AccountInv /\ TrailerInv /\ [Next]_vars => TrailerInv'
<1> SUFFICES ASSUME AccountInv, TrailerInv, [Next]_vars PROVE TrailerInv'
  OBVIOUS
<1> USE DEF chunkVars, callVars, TrailerInv
<1>1. CASE UNCHANGED <<framing, count, trailers, state, err, pc>>
  BY <1>1
<1>2. ASSUME NEW len \in ReadSizes, ReadCall(len) PROVE TrailerInv'
  BY <1>2 DEF ReadCall
<1>3. CASE CloseSettled \/ CloseCall
  BY <1>3 DEF CloseSettled, CloseCall, CloseReturns
<1>4. CASE TrailerField
  <2>1. PICK l \in TrailerLines : ~l.blank /\ TrailerError(l) = None
    BY <1>4 DEF TrailerField, TrailerLine
  <2>2. ~(count >= MaxTrailerCount)
    BY <2>1 DEF TrailerError, None
  <2>3. count + 1 <= MaxTrailerCount
    BY <2>2, LimitsAssumption DEF AccountInv, TypeOK
  <2> QED
    BY <1>4, <2>3 DEF TrailerField
<1>5. CASE TrailersEnd
  BY <1>5 DEF TrailersEnd, Reading, AccountInv, Live
<1>6. CASE ChunkDone
  BY <1>6 DEF ChunkDone, Fail
<1>7. CASE ChunkHeader \/ DataCRLF \/ ChunkData
  BY <1>7 DEF ChunkHeader, DataCRLF, ChunkData
<1>8. CASE \/ ChunkHeaderFails \/ DataCRLFFails \/ TrailerFails
           \/ LineGoesOn \/ LineTooLong \/ LineTruncated \/ NoneRead \/ FixedStop \/ FixedRead
  <2>1. UNCHANGED <<count, trailers, state>>
    BY <1>8 DEF ChunkHeaderFails, DataCRLFFails, LineGoesOn, LineTooLong, LineTruncated,
           TrailerFails, NoneRead, FixedStop, FixedRead
  <2>2. state # "csDone"
    BY <1>8 DEF ChunkHeaderFails, DataCRLFFails, LineGoesOn, LineTooLong, LineTruncated,
           TrailerFails, NoneRead, FixedStop, FixedRead, ReadingLine, Reading
  <2> QED
    BY <2>1, <2>2
<1>9. CASE CloseAgain \/ (\E len \in ReadSizes : ReadRefused(len)) \/ UNCHANGED vars
  BY <1>1, <1>9 DEF CloseAgain, ReadRefused, vars
<1> QED
  BY <1>2, <1>3, <1>4, <1>5, <1>6, <1>7, <1>8, <1>9 DEF Next, ReadStep

\* No trailer field is seen before the whole body ended, nor more than the
\* limit allows.
THEOREM TrailersPublishedAtEnd == Spec => []TrailersOnlyAtEnd
<1>1. Init => TrailerInv
  BY LimitsAssumption DEF Init, TrailerInv
<1>2. TypeOK /\ TrailerInv => TrailersOnlyAtEnd
  BY DEF TrailerInv, TrailersOnlyAtEnd, TypeOK
<1>3. AccountInv => TypeOK
  BY DEF AccountInv
<1> QED
  BY <1>1, <1>2, <1>3, TrailerStep, Accounting, PTL DEF Spec

-----------------------------------------------------------------------------
(* BodyReader implements BodyStream. *)

StreamInv == AccountInv /\ DeclaredBounded /\ CloseInv

LEMMA StreamInvariant == ASSUME NoWrap PROVE Spec => []StreamInv
<1>1. Init => DeclaredBounded
  BY LimitsAssumption DEF Init, DeclaredBounded
<1>2. AccountInv /\ DeclaredBounded /\ [Next]_vars => DeclaredBounded'
  BY DeclaredStep
<1> QED
  BY <1>1, <1>2, Accounting, CloseInvariant, PTL DEF Spec, StreamInv

LEMMA StreamInit == Init => Stream!Init
<1> SUFFICES ASSUME Init PROVE Stream!Init
  OBVIOUS
<1>1. framing.kind \in Kinds /\ framing.length \in Nat
  BY InputsAssumption, LimitsAssumption DEF Init
<1>2. Announced \in Nat
  BY <1>1 DEF Init, Announced
<1>3. Outcome = IF Announced > MaxBodySize THEN "failed" ELSE "open"
  BY <1>1, LimitsAssumption DEF Init, Announced, Outcome, None
<1> QED
  BY <1>2, <1>3 DEF Init, Stream!Init

LEMMA PartWithinSum == \A a, b, c \in Nat : a + b = c => a <= c
OBVIOUS

\* Nothing of what the abstract stream shows moves.
LEMMA StreamStutter ==
    ASSUME UNCHANGED <<framing, declared, served, err, drained>>
    PROVE  UNCHANGED Stream!vars
BY DEF Stream!vars, Announced, Outcome

LEMMA StreamStep == StreamInv /\ StreamInv' /\ [Next]_vars => [Stream!Next]_(Stream!vars)
<1> SUFFICES ASSUME StreamInv, StreamInv', [Next]_vars
             PROVE  Stream!Next \/ UNCHANGED Stream!vars
  OBVIOUS
<1> USE DEF chunkVars, callVars, closeMark
<1>t. /\ TypeOK /\ TypeOK' /\ AccountInv /\ AccountInv' /\ DeclaredBounded /\ DeclaredBounded'
      /\ CloseInv /\ CloseInv'
  BY DEF StreamInv, AccountInv
<1>1. ASSUME NEW len \in ReadSizes, ReadRefused(len) \/ ReadCall(len)
      PROVE  UNCHANGED Stream!vars
  BY <1>1, StreamStutter DEF ReadRefused, ReadCall
<1>2. CASE CloseAgain
  BY <1>2, StreamStutter DEF CloseAgain
<1>3. CASE CloseCall
  BY <1>3, StreamStutter DEF CloseCall
<1>4. CASE CloseSettled
  <2>1. /\ UNCHANGED <<framing, declared, served, err>>
        /\ drained' = (err = "EOF") /\ ~drained
    BY <1>4, <1>t DEF CloseSettled, CloseReturns, CloseInv
  <2>2. CASE err = "EOF"
    <3>1. UNCHANGED <<Announced, Outcome>> /\ Outcome = "whole" /\ drained' = TRUE
      BY <2>1, <2>2 DEF Announced, Outcome, None
    <3>2. Stream!Release
      BY <2>1, <3>1 DEF Stream!Release
    <3> QED
      BY <3>2 DEF Stream!Next
  <2>3. CASE err # "EOF"
    <3>1. drained \in BOOLEAN
      BY <1>t DEF TypeOK
    <3> QED
      BY <2>1, <2>3, <3>1, StreamStutter
  <2> QED
    BY <2>2, <2>3
<1>5. CASE ReadStep
  <2>1. err = None /\ Outcome = "open" /\ framing' = framing
    BY <1>5, <1>t, ReadStepShape DEF AccountInv, Live, Outcome
  <2>2. CASE ChunkHeader
    <3>1. /\ UNCHANGED <<served, err, drained>>
          /\ framing.kind = "chunked" /\ state = "csHeader"
      BY <2>2 DEF ChunkHeader, Reading
    <3>2. PICK l \in ChunkLines : declared' = declared + l.size /\ l.size \in Nat
      BY <2>2, InputsAssumption, LimitsAssumption
         DEF ChunkHeader, ChunkLineType, HeaderError, BadSize, None
    <3>3. /\ served = declared /\ declared \in Nat /\ declared' \in declared..MaxBodySize
      BY <1>t, <2>1, <3>1, <3>2, LimitsAssumption
         DEF AccountInv, ChunkStateInv, ChunkAccounting, DeclaredBounded, TypeOK
    <3>4. Announced = declared /\ Announced' = declared' /\ Outcome' = Outcome
      BY <2>1, <3>1 DEF Announced, Outcome
    <3>5. Stream!Announce
      BY <2>1, <3>1, <3>3, <3>4 DEF Stream!Announce
    <3> QED
      BY <3>5 DEF Stream!Next
  <2>3. CASE ~ChunkHeader
    <3>1. declared' = declared
      BY <1>5, <2>3 DEF ReadStep, NoneRead, FixedStop, FixedRead, ChunkHeaderFails,
             ChunkData, DataCRLF, DataCRLFFails, LineGoesOn, LineTooLong, LineTruncated,
             TrailerFails,
             TrailerField, TrailersEnd, ChunkDone
    <3>2. Announced' = Announced
      BY <2>1, <3>1 DEF Announced
    <3>3. served' >= served
      BY <1>5, <1>t, ReadStepShape DEF Returns, AccountInv, TypeOK
    <3>4. served' \in Nat /\ served \in Nat /\ served' <= Announced'
      <4>1. /\ framing'.kind \in Kinds /\ served' \in Nat /\ remain' \in Nat
            /\ chunkRemain' \in Nat /\ declared' \in Nat /\ served \in Nat
        BY <1>t DEF TypeOK
      <4>2. CASE framing'.kind = "fixed"
        <5>1. served' + remain' = framing'.length /\ framing'.length \in Int
          BY <1>t, <4>2, LimitsAssumption DEF AccountInv, FixedAccounting, TypeOK
        <5> QED
          BY <4>1, <4>2, <5>1 DEF Announced
      <4>3. CASE framing'.kind = "chunked"
        <5>1. served' + chunkRemain' = declared'
          BY <1>t, <4>3 DEF AccountInv, ChunkAccounting
        <5>2. served' <= declared'
          BY <4>1, <5>1, PartWithinSum
        <5> QED
          BY <4>1, <4>3, <5>2 DEF Announced
      <4>4. CASE framing'.kind = "none"
        BY <1>t, <4>1, <4>4 DEF AccountInv, Announced
      <4> QED
        BY <4>1, <4>2, <4>3, <4>4 DEF Kinds
    <3>5. Outcome' \in {"open", "whole", "failed"}
      BY DEF Outcome
    <3>6. Outcome' = "whole" => served' = Announced'
      <4>1. Outcome' = "whole" => err' = "EOF"
        BY DEF Outcome
      <4>2. AccountInv' => EOFOnlyAtEnd'
        BY AccountEOF, PTL
      <4>3. EOFOnlyAtEnd' /\ err' = "EOF" => served' = Announced'
        BY DEF EOFOnlyAtEnd, Announced
      <4> QED
        BY <1>t, <4>1, <4>2, <4>3
    <3>7. drained' \in BOOLEAN /\ (drained' => Outcome' = "whole")
      BY <1>t DEF CloseInv, CloseVerdict, TypeOK, Outcome, None
    <3>8. Stream!Deliver
      BY <2>1, <3>2, <3>3, <3>4, <3>5, <3>6, <3>7 DEF Stream!Deliver
    <3> QED
      BY <3>8 DEF Stream!Next
  <2> QED
    BY <2>2, <2>3
<1>6. CASE UNCHANGED vars
  BY <1>6, StreamStutter DEF vars
<1> QED
  BY <1>1, <1>2, <1>3, <1>4, <1>5, <1>6 DEF Next

\* Every behaviour of the reader is one of the abstract body stream: announced
\* bytes only, one end, reuse only behind a whole body.
THEOREM StreamSafety == ASSUME NoWrap PROVE Spec => ImplementsStream
<1>1. Init => Stream!Init
  BY StreamInit
<1>2. StreamInv /\ StreamInv' /\ [Next]_vars => [Stream!Next]_(Stream!vars)
  BY StreamStep
<1> QED
  BY <1>1, <1>2, StreamInvariant, PTL DEF Spec, ImplementsStream, Stream!Spec
=============================================================================
