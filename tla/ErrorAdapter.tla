---------------------------- MODULE ErrorAdapter ----------------------------
(***************************************************************************)
(* wrap.go: a handler that returns an error, run behind the tracker that   *)
(* records whether its response has started, and the two helpers of        *)
(* helpers.go that such handlers are made of, JSON and JSONDecodeLimit.    *)
(*                                                                         *)
(* The handler calls what it likes in any order and then returns, or       *)
(* panics.  A writer is the optional interfaces its own type has and those *)
(* found behind its Unwrap, which http.ResponseController goes through.    *)
(* The server's side of the response is external, as wrap.go relies on it. *)
(***************************************************************************)
EXTENDS Integers, TLC

CONSTANTS
    Writers,       \* the writers the adapter may be handed
    ErrorMapper,   \* a handler's errors and the status each is mapped to
    Statuses,      \* final statuses a handler may send
    Bodies,        \* request bodies: a size, and whether reading fails at its end
    JSONLimits,    \* the limits handlers pass to JSONDecodeLimit
    MaxInt,        \* the largest int64
    MaxCalls       \* bound: calls a handler makes

None     == "nil"

\* DefaultErrorMapper, by what errors.Is finds in the error.
DefaultErrorMapper ==
    [e \in {"ErrMissingHost", "ErrMalformed", "ErrIncomplete", "ErrAmbiguousFraming",
            "ErrBadContentLength", "ErrBadChunk"} |-> 400]
    @@ ("ErrBadTransferEncoding" :> 501)
    @@ [e \in {"ErrBodyTooLarge", "ErrDrainTooLarge", "ErrChunkLineTooLong",
               "ErrChunkExtensionTooLong", "ErrTooManyTrailers"} |-> 413]
    @@ [e \in {"ErrHeadTooLarge", "ErrTooManyHeaders", "ErrValueTooLarge"} |-> 431]
    @@ ("ErrRequestLineTooLarge" :> 414)
    @@ ("another error" :> 500)

NoStatus == 0
OK       == 200
EarlyHints == 103   \* stands for the 1xx statuses, which start no response
Optional == {"Flusher", "Hijacker"}

ASSUME AdapterAssumption ==
    /\ Writers \subseteq [own : SUBSET Optional, below : SUBSET Optional]
    /\ DOMAIN ErrorMapper \subseteq STRING /\ None \notin DOMAIN ErrorMapper
    /\ \A e \in DOMAIN ErrorMapper : ErrorMapper[e] \in Nat \ {NoStatus, EarlyHints}
    /\ Statuses \subseteq Nat \ {NoStatus, EarlyHints}
    /\ Bodies \subseteq [size : Nat, fault : BOOLEAN]
    /\ MaxInt \in Nat /\ JSONLimits \subseteq 0..(MaxInt - 1)
    /\ MaxCalls \in Nat

VARIABLES
    writer,      \* the http.ResponseWriter given to the adapter
    started,     \* startTracker.started
    response,    \* what the client is being sent
    pc,          \* "handler", "returned" or "done"
    err,         \* what the handler returned
    logged,      \* the adapter's Log was called
    outcome,     \* how the exchange ended
    calls,       \* calls the handler has made
    unread,      \* bytes of the request body not yet read
    fault,       \* reading it fails where it should end
    decoded,     \* what the JSON decoder was last given
    sentNothing  \* history: a call that should start the response sent nothing

responseVars == <<started, response, sentNothing>>
requestVars  == <<unread, fault, decoded>>
endVars      == <<pc, err, logged, outcome>>

vars == <<writer, responseVars, requestVars, endVars, calls>>

NotDecoded == [given |-> 0, of |-> 0, cut |-> FALSE]

Init ==
    /\ writer \in Writers
    /\ started = FALSE /\ sentNothing = FALSE
    /\ response = [status |-> NoStatus, by |-> "nobody", text |-> {}, hijacked |-> FALSE]
    /\ pc = "handler" /\ err = None /\ logged = FALSE /\ outcome = "open"
    /\ calls = 0
    /\ \E b \in Bodies : unread = b.size /\ fault = b.fault
    /\ decoded = NotDecoded

-----------------------------------------------------------------------------
(* The server's response. *)

\* A status counts once, and not on a hijacked connection.
SendStatus(r, code, who) ==
    IF r.hijacked \/ r.status # NoStatus \/ code = EarlyHints THEN r
    ELSE [r EXCEPT !.status = code, !.by = who]

\* Body bytes send the status first if nobody has.
SendText(r, who) ==
    IF r.hijacked THEN r
    ELSE [SendStatus(r, OK, who) EXCEPT !.text = @ \cup {who}]

Hijacked(r) == [r EXCEPT !.hijacked = TRUE]

Begun(r) == r.status # NoStatus \/ r.hijacked

-----------------------------------------------------------------------------
(* The handler, writing through the tracker. *)

Calls ==
    /\ pc = "handler" /\ calls < MaxCalls /\ calls' = calls + 1
    /\ UNCHANGED <<writer, endVars>>

\* Mutation: the call is forwarded and not recorded.
TrackedSilently(r) == response' = r /\ UNCHANGED <<started, sentNothing>>

\* Every method of the tracker sets started, then forwards.
Tracked(r) ==
    /\ started' = TRUE /\ response' = r
    /\ sentNothing' = (sentNothing \/ ~Begun(r))

WriteHeader ==
    /\ Calls /\ UNCHANGED requestVars
    /\ \E code \in Statuses \cup {EarlyHints} : Tracked(SendStatus(response, code, "handler"))

Write == Calls /\ UNCHANGED requestVars /\ Tracked(SendText(response, "handler"))

\* Mutation: the copy goes to the writer the tracker embeds, past the tracker.
ReadFromForwarded ==
    /\ Calls /\ UNCHANGED requestVars
    /\ \E r \in {SendText(response, "handler"), SendStatus(response, OK, "handler"), response} :
         TrackedSilently(r)

\* The source may fail before its first byte; whether the server has sent a
\* status by then is up to its ReadFrom.
ReadFrom ==
    /\ Calls /\ UNCHANGED requestVars
    /\ \E r \in {SendText(response, "handler"), SendStatus(response, OK, "handler"), response} :
         Tracked(r)

\* The optional interfaces the handler sees.
trackerFor(w) == {c \in Optional : c \in w.own}

\* The call reaches the tracker; or, by way of http.ResponseController, it
\* passes a tracker that lacks the method and arrives at the first writer below
\* that has it.
Capability(c, r) ==
    \/ c \in trackerFor(writer) /\ Tracked(r)
    \/ /\ c \notin trackerFor(writer) /\ c \in writer.own \cup writer.below
       /\ response' = r /\ UNCHANGED <<started, sentNothing>>

Flush ==
    /\ Calls /\ UNCHANGED requestVars
    /\ Capability("Flusher", SendStatus(response, OK, "handler"))

\* Hijacking may fail, and then leaves the response as it was.
Hijack ==
    /\ Calls /\ UNCHANGED requestVars
    /\ \E r \in {Hijacked(response), response} : Capability("Hijacker", r)

\* Mutation: the status is sent before the value is encoded.
JSONStatusFirst ==
    /\ Calls /\ UNCHANGED requestVars
    /\ \E code \in Statuses :
         LET r == SendStatus(response, code, "JSON") IN
         Tracked(r) \/ Tracked(SendText(r, "handler"))

\* JSON: a value that cannot be encoded leaves the response alone.
JSON ==
    /\ Calls /\ UNCHANGED requestVars
    /\ \/ UNCHANGED responseVars
       \/ \E code \in Statuses :
            Tracked(SendText(SendStatus(response, code, "JSON"), "handler"))

-----------------------------------------------------------------------------
(* Reading the request. *)

Lesser(a, b) == IF a <= b THEN a ELSE b

\* int64 addition of one.
Inc64(n) == IF n = MaxInt THEN -(MaxInt + 1) ELSE n + 1

\* Mutation: the limit itself, not one past it.
ReadLimitExact(max) == max

ReadLimit(max) == Inc64(max)

\* Mutation: a limit's worth of bytes is always taken off the body.
JSONDecodeLimitGreedy ==
    /\ Calls /\ UNCHANGED responseVars
    /\ \E max \in JSONLimits : unread' = unread - ReadLimit(max)
    /\ UNCHANGED <<fault, decoded>>

\* io.ReadAll over io.LimitReader: the end of the body, or the fault there, is
\* seen only if the limit lies beyond it.
JSONDecodeLimit ==
    /\ Calls /\ UNCHANGED responseVars
    /\ \E max \in JSONLimits :
         LET room == IF ReadLimit(max) > 0 THEN ReadLimit(max) ELSE 0
             body == Lesser(unread, room)
             cut  == fault /\ room > unread
         IN  /\ unread' = unread - body
             /\ decoded' = IF cut \/ body > max THEN decoded
                           ELSE [given |-> body, of |-> unread, cut |-> fault]
             /\ UNCHANGED fault

-----------------------------------------------------------------------------
(* The end. *)

Return ==
    /\ pc = "handler" /\ pc' = "returned"
    /\ err' \in {None} \cup DOMAIN ErrorMapper
    /\ UNCHANGED <<writer, responseVars, requestVars, logged, outcome, calls>>

\* A panic of the handler's own goes up to the server, which drops the
\* connection.
Panic ==
    /\ pc = "handler" /\ pc' = "done" /\ outcome' = "aborted"
    /\ UNCHANGED <<writer, responseVars, requestVars, err, logged, calls>>

\* The server ends a response whose handler is done.
Finish ==
    /\ pc = "returned" /\ err = None
    /\ pc' = "done" /\ outcome' = "complete"
    /\ response' = SendStatus(response, OK, "server")
    /\ UNCHANGED <<writer, started, sentNothing, requestVars, err, logged, calls>>

\* Mutation: the error is logged and the handler simply returns.
AbortByReturning ==
    /\ pc = "returned" /\ err # None /\ started
    /\ logged' = TRUE /\ pc' = "done" /\ outcome' = "complete"
    /\ UNCHANGED <<writer, responseVars, requestVars, err, calls>>

Abort ==
    /\ pc = "returned" /\ err # None /\ started
    /\ logged' = TRUE /\ pc' = "done" /\ outcome' = "aborted"
    /\ UNCHANGED <<writer, responseVars, requestVars, err, calls>>

\* Mutation: the state of the response is not asked for.
RefuseAlways ==
    /\ pc = "returned" /\ err # None
    /\ pc' = "done" /\ outcome' = "refused"
    /\ response' = SendText(SendStatus(response, ErrorMapper[err], "adapter"), "adapter")
    /\ UNCHANGED <<writer, started, sentNothing, requestVars, err, logged, calls>>

Refuse ==
    /\ pc = "returned" /\ err # None /\ ~started
    /\ pc' = "done" /\ outcome' = "refused"
    /\ response' = SendText(SendStatus(response, ErrorMapper[err], "adapter"), "adapter")
    /\ UNCHANGED <<writer, started, sentNothing, requestVars, err, logged, calls>>

\* The server has served the request.
Served == pc = "done" /\ UNCHANGED vars

Handler == WriteHeader \/ Write \/ ReadFrom \/ Flush \/ Hijack \/ JSON
           \/ JSONDecodeLimit \/ Return \/ Panic

Next == Handler \/ Finish \/ Abort \/ Refuse \/ Served

Spec == Init /\ [][Next]_vars

-----------------------------------------------------------------------------
(* Properties. *)

TypeOK ==
    /\ writer \in Writers /\ started \in BOOLEAN /\ sentNothing \in BOOLEAN
    /\ response \in [status : Nat, by : {"nobody", "handler", "JSON", "server", "adapter"},
                     text : SUBSET {"handler", "adapter"}, hijacked : BOOLEAN]
    /\ pc \in {"handler", "returned", "done"}
    /\ err \in {None} \cup DOMAIN ErrorMapper /\ logged \in BOOLEAN
    /\ outcome \in {"open", "complete", "refused", "aborted"}
    /\ calls \in 0..MaxCalls /\ unread \in Nat /\ fault \in BOOLEAN
    /\ decoded \in [given : Nat, of : Nat, cut : BOOLEAN]

\* No middleware hides an interface of the writer below it.
NothingHidden == \A w \in Writers : w.below \subseteq w.own

\* The text of an error reaches the client only as the whole of a response with
\* the error's own status: never behind a status or bytes of the handler, never
\* on a hijacked connection (wrap.go:18-20, 61-64).
ErrorStandsAlone ==
    outcome = "refused" =>
        response = [status |-> ErrorMapper[err], by |-> "adapter",
                    text |-> {"adapter"}, hijacked |-> FALSE]

\* A response the handler failed in the middle of is never finished as if it
\* were whole: the client can tell (wrap.go:64, TestE2EAbortAfterResponseStarted).
FailureIsVisible ==
    outcome = "complete" => err = None /\ response.text \subseteq {"handler"}

\* A connection is dropped only if the client was already being answered by the
\* handler, or by a JSON value that could be encoded; before that an error still
\* gets its status.  Excepted are calls that are counted as a start and send
\* nothing: a 1xx status, a failed Hijack, a copy from a source that fails at
\* once (wrap.go:61-62, helpers.go:31-33).
AbortHasCause ==
    logged => \/ response.hijacked \/ response.by = "handler"
              \/ "handler" \in response.text \/ sentNothing

\* The decoder is handed a whole body or none: not one cut at the limit, not one
\* whose reading failed (helpers.go:64-65).
WholeBodyDecoded == decoded.given = decoded.of /\ ~decoded.cut

\* The adapter, the tracker and the server give the client one exchange.
Exchange == INSTANCE Response WITH begun <- Begun(response), outcome <- outcome

ImplementsResponse == Exchange!Spec
=============================================================================
