---------------------------- MODULE HttpExchange ----------------------------
(***************************************************************************)
(* What the server promises about each HTTP request it accepts, whatever   *)
(* its handlers do: it is answered once, with a status that nothing        *)
(* replaces; a refused one leads to no request to Paperless-ngx, neither   *)
(* before its answer nor after it; and one that is served leads to those   *)
(* of the calls of a batch, each once, and a call's lookups only after its *)
(* first request.  They may be made after the answer has begun: it streams *)
(* the results, and it may end before they do.                             *)
(***************************************************************************)
EXTENDS Naturals

CONSTANTS
    Place,     \* places for requests being served
    Call,      \* the calls of a batch
    Query,     \* the requests of a call: 0 the first, the others its lookups
    Served,    \* statuses of requests that may lead to requests
    Refused    \* statuses of those that may not

VARIABLES
    open,      \* whether there is a request at each place
    answer,    \* its status, 0 before it has one
    made       \* the requests it has led to

vars == <<open, answer, made>>

-----------------------------------------------------------------------------
Init ==
    /\ open = [p \in Place |-> FALSE]
    /\ answer = [p \in Place |-> 0]
    /\ made = [p \in Place |-> {}]

Open(p) ==
    /\ ~open[p]
    /\ open' = [open EXCEPT ![p] = TRUE]
    /\ UNCHANGED <<answer, made>>

\* A health check is answered as it comes.
OpenAnswered(p) ==
    /\ ~open[p]
    /\ open' = [open EXCEPT ![p] = TRUE]
    /\ answer' \in {[answer EXCEPT ![p] = code] : code \in Served}
    /\ UNCHANGED made

Make(p, c, k) ==
    /\ open[p] /\ answer[p] \notin Refused
    /\ <<c, k>> \notin made[p]
    /\ k # 0 => <<c, 0>> \in made[p]
    /\ made' = [made EXCEPT ![p] = @ \cup {<<c, k>>}]
    /\ UNCHANGED <<open, answer>>

Answer(p, code) ==
    /\ open[p] /\ answer[p] = 0
    /\ code \in Refused => made[p] = {}
    /\ answer' = [answer EXCEPT ![p] = code]
    /\ UNCHANGED <<open, made>>

Close(p) ==
    /\ open[p] /\ answer[p] # 0
    /\ open' = [open EXCEPT ![p] = FALSE]
    /\ answer' = [answer EXCEPT ![p] = 0]
    /\ made' = [made EXCEPT ![p] = {}]

Next ==
    \E p \in Place :
        \/ Open(p) \/ OpenAnswered(p)
        \/ \E c \in Call, k \in Query : Make(p, c, k)
        \/ \E code \in Served \cup Refused : Answer(p, code)
        \/ Close(p)

Spec == Init /\ [][Next]_vars
=============================================================================
