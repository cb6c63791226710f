----------------------------- MODULE BodyStream -----------------------------
(***************************************************************************)
(* What a request body promises the handler and the connection, whatever   *)
(* its framing: the peer announces bytes, never past the budget; the       *)
(* handler receives announced bytes only; the stream ends exactly once, as *)
(* whole (everything announced was delivered) or as failed; the connection *)
(* may be reused only behind a whole body.  BodyReader implements it.      *)
(***************************************************************************)
EXTENDS Integers

CONSTANTS Budget

VARIABLES
    announced,   \* body bytes the peer has committed to so far
    delivered,   \* body bytes handed out
    outcome,     \* "open", "whole" or "failed"
    reusable     \* the connection stands on the next request

vars == <<announced, delivered, outcome, reusable>>

\* A body whose length is known to be over the budget is failed at birth.
Init ==
    /\ announced \in Nat
    /\ delivered = 0
    /\ outcome = IF announced > Budget THEN "failed" ELSE "open"
    /\ reusable = FALSE

\* The peer commits to more bytes, within the budget, once the ones before
\* have all been delivered.
Announce ==
    /\ outcome = "open" /\ delivered = announced
    /\ announced' \in announced..Budget
    /\ UNCHANGED <<delivered, outcome, reusable>>

\* Bytes are handed out, and the stream may end with them: as whole only if
\* nothing announced is missing.
Deliver ==
    /\ outcome = "open"
    /\ delivered' \in delivered..announced
    /\ outcome' \in {"open", "whole", "failed"}
    /\ outcome' = "whole" => delivered' = announced
    /\ reusable' \in BOOLEAN
    /\ reusable' => outcome' = "whole"
    /\ UNCHANGED announced

\* The connection is released after the end.
Release ==
    /\ outcome = "whole"
    /\ reusable' = TRUE
    /\ UNCHANGED <<announced, delivered, outcome>>

Next == Announce \/ Deliver \/ Release

Spec == Init /\ [][Next]_vars
=============================================================================
