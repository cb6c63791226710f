------------------------------ MODULE Response ------------------------------
(***************************************************************************)
(* What one exchange promises the client, whoever writes the response: it  *)
(* begins at most once; a refusal, the status and text of an error, is a   *)
(* whole response of its own and never follows one that has begun; and the *)
(* exchange ends once, as complete, refused or aborted.  ErrorAdapter      *)
(* implements it.                                                          *)
(***************************************************************************)

VARIABLES
    begun,     \* a status is out, or the connection was handed over
    outcome    \* "open", "complete", "refused" or "aborted"

vars == <<begun, outcome>>

Init == begun = FALSE /\ outcome = "open"

Begin    == outcome = "open" /\ begun' = TRUE /\ UNCHANGED outcome
Complete == outcome = "open" /\ begun' = TRUE /\ outcome' = "complete"
Refuse   == outcome = "open" /\ ~begun /\ begun' = TRUE /\ outcome' = "refused"
Abort    == outcome = "open" /\ outcome' = "aborted" /\ UNCHANGED begun

Next == Begin \/ Complete \/ Refuse \/ Abort

Spec == Init /\ [][Next]_vars
=============================================================================
