-------------------------- MODULE PaperlessRequest --------------------------
(***************************************************************************)
(* What the rest of the server may rely on when it asks Paperless-ngx for  *)
(* something (the methods of Client): the caller sees one request with one *)
(* outcome, within RequestTime, and at once when its context is cancelled. *)
(* Attempts, waits and bodies do not show.                                 *)
(***************************************************************************)
EXTENDS Naturals

CONSTANT RequestTime

VARIABLES
    open,     \* the method has been called and has not returned
    elapsed,  \* since when it was called
    gone,     \* its context is cancelled
    outcome   \* what it has returned: "none" before

vars == <<open, elapsed, gone, outcome>>

Outcome == {"value", "API error", "other error"}

Init ==
    /\ open = FALSE
    /\ elapsed = 0
    /\ gone = FALSE
    /\ outcome = "none"

Begin ==
    /\ ~open /\ outcome = "none"
    /\ open' = TRUE
    /\ UNCHANGED <<elapsed, gone, outcome>>

Tick ==
    /\ open /\ ~gone
    /\ elapsed < RequestTime
    /\ elapsed' = elapsed + 1
    /\ UNCHANGED <<open, gone, outcome>>

Cancel ==
    /\ open /\ ~gone
    /\ gone' = TRUE
    /\ UNCHANGED <<open, elapsed, outcome>>

End ==
    /\ open
    /\ open' = FALSE
    /\ outcome' \in Outcome
    /\ UNCHANGED <<elapsed, gone>>

\* The caller has what it asked for; what follows is another request.
Forget ==
    /\ ~open /\ outcome # "none"
    /\ elapsed' = 0
    /\ gone' = FALSE
    /\ outcome' = "none"
    /\ UNCHANGED open

Next == Begin \/ Tick \/ Cancel \/ End \/ Forget

Spec == Init /\ [][Next]_vars
=============================================================================
