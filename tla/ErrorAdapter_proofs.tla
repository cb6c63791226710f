------------------------ MODULE ErrorAdapter_proofs ------------------------
(***************************************************************************)
(* Theorems about the error adapter, for every set of writers, errors,     *)
(* bodies and limits, and that it implements Response.                     *)
(***************************************************************************)
EXTENDS ErrorAdapter, TLAPS

\* What the handler has done to a response that has begun.
Answering(r) == r.hijacked \/ r.by = "handler" \/ "handler" \in r.text

\* While the exchange is open: the tracker knows whether the response has begun
\* (given that nothing is hidden from it), whoever began it was the handler, and
\* the adapter has said nothing yet.
OpenInv ==
    pc # "done" =>
        /\ outcome = "open" /\ ~logged /\ "adapter" \notin response.text
        /\ Begun(response) => Answering(response)
        /\ started => Answering(response) \/ sentNothing

\* A response that has not begun carries nothing.
Untouched(r) == ~Begun(r) => r.by = "nobody" /\ r.text = {}

\* The tracker missed no start.
StartKnown == pc # "done" /\ Begun(response) => started

AdapterInv ==
    /\ TypeOK /\ OpenInv /\ Untouched(response)
    /\ FailureIsVisible /\ AbortHasCause /\ WholeBodyDecoded

ResponseType ==
    [status : Nat, by : {"nobody", "handler", "JSON", "server", "adapter"},
     text : SUBSET {"handler", "adapter"}, hijacked : BOOLEAN]

LEMMA StatusTypes ==
    OK \in Nat \ {NoStatus} /\ EarlyHints \in Nat \ {NoStatus}
  BY DEF OK, EarlyHints, NoStatus

\* What the server's operations make of a response.
LEMMA SendStatusType ==
    ASSUME NEW r \in ResponseType, NEW code \in Nat \ {NoStatus},
           NEW who \in {"handler", "JSON", "server", "adapter"}
    PROVE  /\ SendStatus(r, code, who) \in ResponseType
           /\ SendStatus(r, code, who).text = r.text
           /\ SendStatus(r, code, who).hijacked = r.hijacked
           /\ SendStatus(r, code, who).by \in {r.by, who}
           /\ Begun(r) => SendStatus(r, code, who) = r
           /\ Begun(SendStatus(r, code, who)) => Begun(r) \/ SendStatus(r, code, who).by = who
           /\ Untouched(r) => Untouched(SendStatus(r, code, who))
<1>1. CASE r.hijacked \/ r.status # NoStatus \/ code = EarlyHints
  BY <1>1 DEF SendStatus
<1>2. CASE ~(r.hijacked \/ r.status # NoStatus \/ code = EarlyHints)
  <2>1. SendStatus(r, code, who) = [r EXCEPT !.status = code, !.by = who]
    BY <1>2 DEF SendStatus
  <2>2. code # NoStatus /\ code \in Nat
    OBVIOUS
  <2> HIDE DEF NoStatus
  <2> QED
    BY <1>2, <2>1, <2>2 DEF ResponseType, Begun, Untouched
<1> QED
  BY <1>1, <1>2

LEMMA SendTextType ==
    ASSUME NEW r \in ResponseType, NEW who \in {"handler", "adapter"}
    PROVE  /\ SendText(r, who) \in ResponseType
           /\ SendText(r, who).text \in {r.text, r.text \cup {who}}
           /\ SendText(r, who).hijacked = r.hijacked
           /\ SendText(r, who).by \in {r.by, who}
           /\ Begun(SendText(r, who))
           /\ SendText(r, who).hijacked \/ who \in SendText(r, who).text
           /\ Untouched(r) => Untouched(SendText(r, who))
<1> DEFINE s == SendStatus(r, OK, who)
<1>1. /\ s \in ResponseType /\ s.text = r.text /\ s.hijacked = r.hijacked
      /\ s.by \in {r.by, who}
      /\ Untouched(r) => Untouched(s)
  <2>1. who \in {"handler", "JSON", "server", "adapter"}
    OBVIOUS
  <2>2. OK \in Nat \ {NoStatus}
    BY StatusTypes
  <2>3. s \in ResponseType /\ s.text = r.text
    BY <2>1, <2>2, SendStatusType
  <2>4. s.hijacked = r.hijacked /\ s.by \in {r.by, who}
    BY <2>1, <2>2, SendStatusType
  <2>5. Untouched(r) => Untouched(s)
    BY <2>1, <2>2, SendStatusType
  <2> QED
    BY <2>3, <2>4, <2>5
<1>2. ~r.hijacked => Begun(s)
  BY DEF SendStatus, Begun, OK, NoStatus, ResponseType, EarlyHints
<1>3. SendText(r, who) = IF r.hijacked THEN r ELSE [s EXCEPT !.text = @ \cup {who}]
  BY DEF SendText
<1>4. CASE r.hijacked
  BY <1>3, <1>4 DEF Begun
<1>5. CASE ~r.hijacked
  <2>1. SendText(r, who) = [s EXCEPT !.text = @ \cup {who}]
    BY <1>3, <1>5
  <2>2. [s EXCEPT !.text = @ \cup {who}] \in ResponseType
    BY <1>1 DEF ResponseType
  <2>3. /\ SendText(r, who).status = s.status /\ SendText(r, who).hijacked = s.hijacked
        /\ SendText(r, who).by = s.by /\ SendText(r, who).text = r.text \cup {who}
    BY <1>1, <2>1 DEF ResponseType
  <2> QED
    BY <1>1, <1>2, <1>5, <2>1, <2>2, <2>3 DEF Begun, Untouched
<1> QED
  BY <1>4, <1>5

-----------------------------------------------------------------------------
\* What a call of the handler's may make of the response.
HandlersResponse(r) ==
    /\ r \in ResponseType /\ Untouched(r) /\ "adapter" \notin r.text
    /\ Begun(r) => Answering(r)
    /\ Begun(response) => Begun(r)
    /\ Answering(response) => Answering(r)

\* One call of the handler's: the response it leaves, and what the tracker knows.
LEMMA HandlerCall ==
    ASSUME TypeOK, OpenInv, Untouched(response),
           WriteHeader \/ Write \/ ReadFrom \/ Flush \/ Hijack \/ JSON
    PROVE  /\ pc = "handler" /\ calls' \in 0..MaxCalls
           /\ UNCHANGED <<writer, requestVars, endVars>>
           /\ HandlersResponse(response')
           /\ \/ started' = TRUE /\ sentNothing' = (sentNothing \/ ~Begun(response'))
              \/ UNCHANGED responseVars
              \/ /\ UNCHANGED <<started, sentNothing>>
                 /\ \E c \in Optional : c \notin writer.own /\ c \in writer.below
<1>1. /\ pc = "handler" /\ calls' \in 0..MaxCalls
      /\ UNCHANGED <<writer, requestVars, endVars>>
  BY AdapterAssumption DEF WriteHeader, Write, ReadFrom, Flush, Hijack, JSON, Calls, TypeOK
<1>2. /\ response \in ResponseType /\ "adapter" \notin response.text
      /\ Begun(response) => Answering(response)
  BY <1>1 DEF TypeOK, ResponseType, OpenInv
<1>3. HandlersResponse(response)
  BY <1>2 DEF HandlersResponse
<1>4. ASSUME NEW code \in Nat \ {NoStatus} PROVE HandlersResponse(SendStatus(response, code, "handler"))
  BY <1>2, SendStatusType DEF HandlersResponse, Answering
<1>5. HandlersResponse(SendText(response, "handler"))
  BY <1>2, SendTextType DEF HandlersResponse, Answering
<1>6. ASSUME NEW code \in Nat \ {NoStatus}
      PROVE  HandlersResponse(SendText(SendStatus(response, code, "JSON"), "handler"))
  <2>1. /\ SendStatus(response, code, "JSON") \in ResponseType
        /\ SendStatus(response, code, "JSON").text = response.text
        /\ Untouched(SendStatus(response, code, "JSON"))
    BY <1>2, SendStatusType
  <2> QED
    BY <1>2, <2>1, SendTextType DEF HandlersResponse, Answering
<1>7. HandlersResponse(Hijacked(response))
  BY <1>2 DEF HandlersResponse, Hijacked, ResponseType, Begun, Untouched, Answering
<1>8. ASSUME NEW r, Tracked(r), HandlersResponse(r)
      PROVE  /\ HandlersResponse(response')
             /\ started' = TRUE /\ sentNothing' = (sentNothing \/ ~Begun(response'))
  BY <1>8 DEF Tracked
<1>9. ASSUME NEW c \in Optional, NEW r, Capability(c, r), HandlersResponse(r)
      PROVE  /\ HandlersResponse(response')
             /\ \/ started' = TRUE /\ sentNothing' = (sentNothing \/ ~Begun(response'))
                \/ /\ UNCHANGED <<started, sentNothing>>
                   /\ c \notin writer.own /\ c \in writer.below
  BY <1>8, <1>9 DEF Capability, trackerFor
<1>10. CASE WriteHeader
  <2>1. PICK code \in Statuses \cup {EarlyHints} : Tracked(SendStatus(response, code, "handler"))
    BY <1>10 DEF WriteHeader
  <2> QED
    BY <1>1, <1>4, <1>8, <2>1, AdapterAssumption, StatusTypes
<1>11. CASE Write
  BY <1>1, <1>5, <1>8, <1>11 DEF Write
<1>12. CASE ReadFrom
  <2>1. PICK r \in {SendText(response, "handler"), SendStatus(response, OK, "handler"), response} :
          Tracked(r)
    BY <1>12 DEF ReadFrom
  <2>2. HandlersResponse(r)
    BY <1>3, <1>4, <1>5, StatusTypes
  <2> QED
    BY <1>1, <1>8, <2>1, <2>2
<1>13. CASE Flush
  <2>1. Capability("Flusher", SendStatus(response, OK, "handler"))
    BY <1>13 DEF Flush
  <2>2. HandlersResponse(SendStatus(response, OK, "handler")) /\ "Flusher" \in Optional
    BY <1>4, StatusTypes DEF Optional
  <2> QED
    BY <1>1, <1>9, <2>1, <2>2
<1>14. CASE Hijack
  <2>1. PICK r \in {Hijacked(response), response} : Capability("Hijacker", r)
    BY <1>14 DEF Hijack
  <2>2. HandlersResponse(r) /\ "Hijacker" \in Optional
    BY <1>3, <1>7 DEF Optional
  <2> QED
    BY <1>1, <1>9, <2>1, <2>2
<1>15. CASE JSON
  <2>1. CASE UNCHANGED responseVars
    BY <1>1, <1>3, <2>1 DEF responseVars
  <2>2. ASSUME NEW code \in Statuses,
               Tracked(SendText(SendStatus(response, code, "JSON"), "handler"))
        PROVE  /\ HandlersResponse(response')
               /\ started' = TRUE /\ sentNothing' = (sentNothing \/ ~Begun(response'))
    BY <1>6, <1>8, <2>2, AdapterAssumption
  <2> QED
    BY <1>1, <1>15, <2>1, <2>2 DEF JSON
<1> QED
  BY <1>10, <1>11, <1>12, <1>13, <1>14, <1>15

\* The calls of the handler's that write.
Writes == WriteHeader \/ Write \/ ReadFrom \/ Flush \/ Hijack \/ JSON

LEMMA InitInv == Init => AdapterInv
<1> SUFFICES ASSUME Init PROVE AdapterInv
  OBVIOUS
<1>1. PICK b \in Bodies : unread = b.size /\ fault = b.fault
  BY DEF Init
<1>2. unread \in Nat /\ fault \in BOOLEAN
  BY <1>1, AdapterAssumption
<1>3. ~Begun(response)
  BY DEF Init, Begun, NoStatus
<1>4. TypeOK
  <2>1. response \in ResponseType
    BY DEF Init, ResponseType, NoStatus
  <2>2. calls \in 0..MaxCalls
    BY AdapterAssumption DEF Init
  <2>3. decoded \in [given : Nat, of : Nat, cut : BOOLEAN]
    BY DEF Init, NotDecoded
  <2> QED
    BY <1>2, <2>1, <2>2, <2>3 DEF Init, TypeOK, ResponseType
<1>5. OpenInv /\ Untouched(response) /\ FailureIsVisible /\ AbortHasCause
  BY <1>3 DEF Init, OpenInv, Untouched, FailureIsVisible, AbortHasCause
<1> QED
  BY <1>4, <1>5 DEF Init, AdapterInv, WholeBodyDecoded, NotDecoded

\* What a decode takes off the body fits its limit unless it is refused, and is
\* refused unless it is all of the body.
LEMMA DecodeStep ==
    ASSUME TypeOK, JSONDecodeLimit
    PROVE  /\ unread' \in Nat
           /\ decoded' = decoded \/
              decoded' = [given |-> unread, of |-> unread, cut |-> FALSE]
<1>1. PICK max \in JSONLimits :
        LET room == IF ReadLimit(max) > 0 THEN ReadLimit(max) ELSE 0
            body == Lesser(unread, room)
            cut  == fault /\ room > unread
        IN  /\ unread' = unread - body
            /\ decoded' = IF cut \/ body > max THEN decoded
                          ELSE [given |-> body, of |-> unread, cut |-> fault]
  BY DEF JSONDecodeLimit
<1>2. max \in Nat /\ max < MaxInt /\ MaxInt \in Nat /\ unread \in Nat /\ fault \in BOOLEAN
  BY AdapterAssumption DEF TypeOK
<1>3. ReadLimit(max) = max + 1
  BY <1>2 DEF ReadLimit, Inc64
<1>4. (IF ReadLimit(max) > 0 THEN ReadLimit(max) ELSE 0) = max + 1
  BY <1>2, <1>3
<1> DEFINE body == Lesser(unread, max + 1)
<1>5. /\ unread' = unread - body
      /\ decoded' = IF (fault /\ max + 1 > unread) \/ body > max THEN decoded
                    ELSE [given |-> body, of |-> unread, cut |-> fault]
  BY <1>1, <1>4
<1>6. CASE unread <= max
  <2>1. body = unread /\ max + 1 > unread /\ ~(body > max)
    BY <1>2, <1>6 DEF Lesser
  <2>2. unread' = 0
    BY <1>2, <1>5, <2>1
  <2> HIDE DEF body
  <2>3. decoded' = IF fault THEN decoded
                   ELSE [given |-> unread, of |-> unread, cut |-> fault]
    BY <1>5, <2>1
  <2> QED
    BY <1>2, <2>2, <2>3
<1>7. CASE ~(unread <= max)
  <2>1. body = max + 1 /\ body > max /\ unread - body \in Nat
    BY <1>2, <1>7 DEF Lesser
  <2> HIDE DEF body
  <2> QED
    BY <1>5, <2>1
<1> QED
  BY <1>6, <1>7

LEMMA InvStep == AdapterInv /\ [Next]_vars => AdapterInv'
<1> SUFFICES ASSUME AdapterInv, [Next]_vars PROVE AdapterInv'
  OBVIOUS
<1> USE DEF AdapterInv
<1>1. CASE Writes
  <2>1. /\ pc = "handler" /\ calls' \in 0..MaxCalls
        /\ UNCHANGED <<writer, unread, fault, decoded, pc, err, logged, outcome>>
        /\ HandlersResponse(response')
        /\ \/ started' = TRUE /\ sentNothing' = (sentNothing \/ ~Begun(response'))
           \/ UNCHANGED <<started, response, sentNothing>>
           \/ UNCHANGED <<started, sentNothing>>
    BY <1>1, HandlerCall DEF Writes, requestVars, endVars, responseVars
  <2>2. started' \in BOOLEAN /\ sentNothing' \in BOOLEAN
    BY <2>1, Zenon DEF TypeOK
  <2>3. TypeOK'
    BY <2>1, <2>2 DEF TypeOK, HandlersResponse, ResponseType
  <2>4. OpenInv' /\ Untouched(response)'
    <3>1. /\ Untouched(response') /\ "adapter" \notin response'.text
          /\ Begun(response') => Answering(response')
      BY <2>1 DEF HandlersResponse
    <3>2. Answering(response) => Answering(response')
      BY <2>1 DEF HandlersResponse
    <3>3. started' => Answering(response') \/ sentNothing'
      <4>1. CASE started' = TRUE /\ sentNothing' = (sentNothing \/ ~Begun(response'))
        BY <3>1, <4>1, Zenon
      <4>2. CASE UNCHANGED <<started, sentNothing>>
        <5>1. started => Answering(response) \/ sentNothing
          BY <2>1 DEF OpenInv
        <5> QED
          BY <3>2, <4>2, <5>1
      <4> QED
        BY <2>1, <4>1, <4>2
    <3> QED
      BY <2>1, <3>1, <3>3 DEF OpenInv
  <2> QED
    BY <2>1, <2>3, <2>4 DEF FailureIsVisible, AbortHasCause, WholeBodyDecoded, OpenInv
<1>2. CASE JSONDecodeLimit
  <2>1. /\ pc = "handler" /\ calls' \in 0..MaxCalls
        /\ UNCHANGED <<writer, started, response, sentNothing, pc, err, logged, outcome, fault>>
    BY <1>2, AdapterAssumption
       DEF JSONDecodeLimit, Calls, TypeOK, responseVars, endVars
  <2>2. unread' \in Nat /\ (decoded' = decoded \/
                            decoded' = [given |-> unread, of |-> unread, cut |-> FALSE])
    BY <1>2, DecodeStep
  <2>3. TypeOK' /\ WholeBodyDecoded'
    <3>1. decoded' \in [given : Nat, of : Nat, cut : BOOLEAN] /\ WholeBodyDecoded'
      <4>1. CASE decoded' = decoded
        BY <4>1 DEF TypeOK, WholeBodyDecoded
      <4>2. CASE decoded' = [given |-> unread, of |-> unread, cut |-> FALSE]
        <5>1. unread \in Nat
          BY DEF TypeOK
        <5> QED
          BY <4>2, <5>1 DEF WholeBodyDecoded
      <4> QED
        BY <2>2, <4>1, <4>2
    <3> QED
      BY <2>1, <2>2, <3>1 DEF TypeOK
  <2>4. OpenInv' /\ Untouched(response)' /\ FailureIsVisible' /\ AbortHasCause'
    BY <2>1 DEF OpenInv, Untouched, Begun, FailureIsVisible, AbortHasCause, Answering
  <2> QED
    BY <2>3, <2>4
<1>3. CASE Return \/ Panic \/ Abort
  <2>1. pc # "done" /\ UNCHANGED <<writer, started, response, sentNothing, unread, fault, decoded, calls>>
    BY <1>3 DEF Return, Panic, Abort, responseVars, requestVars
  <2>2. TypeOK'
    <3>1. pc' \in {"handler", "returned", "done"}
      BY <1>3 DEF Return, Panic, Abort
    <3>2. err' \in {None} \cup DOMAIN ErrorMapper
      BY <1>3 DEF TypeOK, Return, Panic, Abort
    <3>3. logged' \in BOOLEAN
      BY <1>3 DEF TypeOK, Return, Panic, Abort
    <3>4. outcome' \in {"open", "complete", "refused", "aborted"}
      BY <1>3 DEF TypeOK, Return, Panic, Abort
    <3> QED
      BY <2>1, <3>1, <3>2, <3>3, <3>4 DEF TypeOK
  <2>3. OpenInv' /\ FailureIsVisible' /\ AbortHasCause'
    BY <1>3, <2>1
       DEF Return, Panic, Abort, OpenInv, Begun, FailureIsVisible, AbortHasCause, Answering
  <2> QED
    BY <2>1, <2>2, <2>3 DEF Untouched, Begun, WholeBodyDecoded
<1>4. CASE Finish
  <2>1. response \in ResponseType /\ OpenInv /\ pc = "returned"
    BY <1>4 DEF Finish, TypeOK, ResponseType
  <2>2. /\ response' \in ResponseType /\ response'.text = response.text
        /\ Untouched(response')
    BY <1>4, <2>1, StatusTypes, SendStatusType DEF Finish
  <2>3. TypeOK'
    BY <1>4, <2>2 DEF TypeOK, Finish, ResponseType, requestVars
  <2>4. FailureIsVisible' /\ ~logged'
    BY <1>4, <2>1, <2>2 DEF Finish, OpenInv, FailureIsVisible, ResponseType
  <2> QED
    BY <1>4, <2>2, <2>3, <2>4
       DEF Finish, OpenInv, AbortHasCause, WholeBodyDecoded, requestVars
<1>5. CASE Refuse
  <2>1. response \in ResponseType /\ ~logged /\ ErrorMapper[err] \in Nat \ {NoStatus}
    BY <1>5, AdapterAssumption DEF Refuse, TypeOK, ResponseType, OpenInv
  <2>2. /\ SendStatus(response, ErrorMapper[err], "adapter") \in ResponseType
        /\ Untouched(SendStatus(response, ErrorMapper[err], "adapter"))
    BY <2>1, SendStatusType
  <2>3. response' \in ResponseType /\ Untouched(response')
    BY <1>5, <2>2, SendTextType DEF Refuse
  <2>4. TypeOK'
    BY <1>5, <2>3 DEF TypeOK, Refuse, ResponseType, requestVars
  <2> QED
    BY <1>5, <2>1, <2>3, <2>4
       DEF Refuse, OpenInv, FailureIsVisible, AbortHasCause, WholeBodyDecoded, requestVars
<1>6. CASE UNCHANGED vars
  BY <1>6 DEF vars, responseVars, requestVars, endVars, TypeOK, OpenInv, Untouched, Begun,
     Answering, FailureIsVisible, AbortHasCause, WholeBodyDecoded
<1> QED
  BY <1>1, <1>2, <1>3, <1>4, <1>5, <1>6 DEF Next, Handler, Writes, Served

LEMMA InvAlways == Spec => []AdapterInv
BY InitInv, InvStep, PTL DEF Spec

\* The adapter's state keeps its types.
THEOREM AdapterTypes == Spec => []TypeOK
<1>1. AdapterInv => TypeOK
  BY DEF AdapterInv
<1> QED
  BY <1>1, InvAlways, PTL

\* A response the handler failed in the middle of is never finished as if it
\* were whole.
THEOREM FailureShown == Spec => []FailureIsVisible
<1>1. AdapterInv => FailureIsVisible
  BY DEF AdapterInv
<1> QED
  BY <1>1, InvAlways, PTL

\* A connection is dropped for an error only if the handler was already
\* answering, or made a call that counts as a start and sent nothing.
THEOREM AbortsCaused == Spec => []AbortHasCause
<1>1. AdapterInv => AbortHasCause
  BY DEF AdapterInv
<1> QED
  BY <1>1, InvAlways, PTL

\* JSONDecodeLimit decodes whole bodies, for every limit below the largest int64.
THEOREM DecodesWholeBodies == Spec => []WholeBodyDecoded
<1>1. AdapterInv => WholeBodyDecoded
  BY DEF AdapterInv
<1> QED
  BY <1>1, InvAlways, PTL

-----------------------------------------------------------------------------
(* Where no writer hides an interface of the one below it. *)

HonestInv == AdapterInv /\ StartKnown /\ ErrorStandsAlone

\* A call of the handler's that begins the response is one the tracker sees.
LEMMA HonestStep ==
    ASSUME NothingHidden, HonestInv, [Next]_vars
    PROVE  HonestInv'
<1> USE DEF HonestInv
<1>1. AdapterInv'
  BY InvStep
<1>2. CASE Writes
  <2>1. /\ pc = "handler" /\ UNCHANGED <<writer, pc, err, outcome>>
        /\ \/ started' = TRUE
           \/ UNCHANGED <<started, response>>
           \/ \E c \in Optional : c \notin writer.own /\ c \in writer.below
    BY <1>2, HandlerCall DEF Writes, AdapterInv, endVars, responseVars
  <2>2. started' = TRUE \/ UNCHANGED <<started, response>>
    BY <2>1 DEF NothingHidden, AdapterInv, TypeOK
  <2>3. outcome = "open"
    BY <2>1 DEF AdapterInv, OpenInv
  <2> QED
    BY <1>1, <2>1, <2>2, <2>3 DEF StartKnown, ErrorStandsAlone, Begun
<1>3. CASE JSONDecodeLimit \/ Return \/ Panic \/ Abort \/ Finish
  <2>1. outcome' # "refused" /\ (pc' # "done" => UNCHANGED <<pc, response, started>> \/ Return)
    BY <1>3 DEF JSONDecodeLimit, Calls, endVars, responseVars, Return, Panic, Abort, Finish,
       AdapterInv, OpenInv
  <2> QED
    BY <1>1, <1>3, <2>1 DEF StartKnown, ErrorStandsAlone, Begun, Return, responseVars
<1>4. CASE Refuse
  <2>1. /\ response \in ResponseType /\ ~Begun(response)
        /\ response.by = "nobody" /\ response.text = {}
    BY <1>4 DEF Refuse, AdapterInv, TypeOK, ResponseType, StartKnown, Untouched
  <2>2. ErrorMapper[err] \in Nat \ {NoStatus, EarlyHints}
    BY <1>4, AdapterAssumption DEF Refuse, AdapterInv, TypeOK
  <2> DEFINE code == ErrorMapper[err]
             s == SendStatus(response, code, "adapter")
  <2>3. /\ s \in ResponseType /\ s.status = code /\ s.by = "adapter"
        /\ s.text = {} /\ s.hijacked = FALSE
    BY <2>1, <2>2 DEF SendStatus, ResponseType, Begun
  <2>4. code # NoStatus
    BY <2>2
  <2>5. response' = SendText(s, "adapter") /\ pc' = "done" /\ err' = err
    BY <1>4 DEF Refuse
  <2> HIDE DEF code, s
  <2>6. SendStatus(s, OK, "adapter") = s
    BY <2>3, <2>4 DEF SendStatus
  <2>7. response' = [s EXCEPT !.text = @ \cup {"adapter"}]
    BY <2>3, <2>5, <2>6 DEF SendText
  <2>8. response' = [status |-> code, by |-> "adapter", text |-> {"adapter"}, hijacked |-> FALSE]
    BY <2>3, <2>7 DEF ResponseType
  <2> QED
    BY <1>1, <2>5, <2>8 DEF StartKnown, ErrorStandsAlone, code
<1>5. CASE UNCHANGED vars
  BY <1>1, <1>5 DEF vars, responseVars, endVars, StartKnown, ErrorStandsAlone, Begun
<1> QED
  BY <1>2, <1>3, <1>4, <1>5 DEF Next, Handler, Writes, Served

LEMMA HonestAlways == NothingHidden => (Spec => []HonestInv)
<1> SUFFICES ASSUME NothingHidden PROVE Spec => []HonestInv
  OBVIOUS
<1>1. Init => HonestInv
  BY InitInv DEF HonestInv, Init, StartKnown, ErrorStandsAlone, Begun, NoStatus
<1>2. HonestInv /\ [Next]_vars => HonestInv'
  BY HonestStep
<1> QED
  BY <1>1, <1>2, PTL DEF Spec

\* The text of an error is the whole of a response with its own status, if no
\* writer hides an interface of the one below it.
THEOREM ErrorsStandAlone == NothingHidden => (Spec => []ErrorStandsAlone)
<1>1. HonestInv => ErrorStandsAlone
  BY DEF HonestInv
<1> QED
  BY <1>1, HonestAlways, PTL

\* Under the same condition the adapter, the tracker and the server implement
\* the exchange that Response specifies.
THEOREM AdapterImplementsResponse == NothingHidden => (Spec => ImplementsResponse)
<1> SUFFICES ASSUME NothingHidden PROVE Spec => ImplementsResponse
  OBVIOUS
<1>1. Init => Exchange!Init
  BY DEF Init, Exchange!Init, Begun, NoStatus
<1>2. HonestInv /\ HonestInv' /\ [Next]_vars => [Exchange!Next]_(Exchange!vars)
  <2> SUFFICES ASSUME HonestInv, HonestInv', [Next]_vars
               PROVE  [Exchange!Next]_(Exchange!vars)
    OBVIOUS
  <2> USE DEF Exchange!Next, Exchange!vars, Exchange!Begin, Exchange!Complete,
              Exchange!Refuse, Exchange!Abort
  <2>1. CASE Writes
    <3>1. /\ pc = "handler" /\ UNCHANGED outcome
          /\ Begun(response) => Begun(response')
      BY <2>1, HandlerCall DEF Writes, HonestInv, AdapterInv, endVars, HandlersResponse
    <3>2. outcome = "open"
      BY <3>1 DEF HonestInv, AdapterInv, OpenInv
    <3> QED
      BY <3>1, <3>2 DEF Begun
  <2>2. CASE JSONDecodeLimit \/ Return
    BY <2>2 DEF JSONDecodeLimit, Return, Calls, endVars, responseVars, Begun
  <2>3. CASE Panic \/ Abort
    BY <2>3 DEF Panic, Abort, responseVars, Begun, HonestInv, AdapterInv, OpenInv
  <2>4. CASE Finish
    <3>1. Begun(response') /\ outcome = "open" /\ outcome' = "complete"
      BY <2>4 DEF Finish, HonestInv, AdapterInv, OpenInv, TypeOK, SendStatus, Begun, OK,
         NoStatus, EarlyHints
    <3> QED
      BY <3>1
  <2>5. CASE Refuse
    <3>1. ~Begun(response) /\ outcome = "open" /\ outcome' = "refused"
      BY <2>5 DEF Refuse, HonestInv, AdapterInv, OpenInv, StartKnown
    <3>2. Begun(response')
      <4>1. err' = err /\ ErrorMapper[err] # NoStatus
        BY <2>5, AdapterAssumption DEF Refuse, HonestInv, AdapterInv, TypeOK
      <4>2. response' = [status |-> ErrorMapper[err'], by |-> "adapter",
                         text |-> {"adapter"}, hijacked |-> FALSE]
        BY <3>1 DEF HonestInv, ErrorStandsAlone
      <4> QED
        BY <4>1, <4>2 DEF Begun
    <3> QED
      BY <3>1, <3>2
  <2>6. CASE UNCHANGED vars
    BY <2>6 DEF vars, responseVars, endVars, Begun
  <2> QED
    BY <2>1, <2>2, <2>3, <2>4, <2>5, <2>6 DEF Next, Handler, Writes, Served
<1>3. Exchange!Init /\ [][Exchange!Next]_(Exchange!vars) <=> Exchange!Spec
  BY DEF Exchange!Spec
<1> QED
  BY <1>1, <1>2, <1>3, HonestAlways, PTL DEF Spec, ImplementsResponse
=============================================================================
