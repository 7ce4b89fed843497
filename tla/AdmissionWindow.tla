-------------------------- MODULE AdmissionWindow --------------------------
(***************************************************************************)
(* RateLimiter with an observer that counts, from an instant of its own    *)
(* choosing, the requests that pass the server's bucket and the requests   *)
(* each client has admitted.  The observer only watches: it disables no    *)
(* action of the limiter.                                                  *)
(***************************************************************************)
EXTENDS RateLimiterRefinement

VARIABLES
    chosen,    \* the observer has chosen the start of its window
    from,      \* the start of the window
    passed,    \* requests the server's bucket granted in the window
    admitted   \* requests admitted in the window, by client

windowVars == <<chosen, from, passed, admitted>>

WInit ==
    /\ Init
    /\ chosen = FALSE
    /\ from = 0
    /\ passed = 0
    /\ admitted = [c \in Client |-> 0]

\* The window starts now, and the counting with it.
OpenWindow ==
    /\ ~chosen
    /\ chosen' = TRUE
    /\ from' = now
    /\ UNCHANGED <<vars, passed, admitted>>

One == IF chosen THEN 1 ELSE 0

WPass(r, c) ==
    /\ PassGlobal(r, c)
    /\ passed' = passed + One
    /\ UNCHANGED <<chosen, from, admitted>>

WAdmit(r) ==
    /\ TakeGranted(r)
    /\ admitted' = [admitted EXCEPT ![ip[r]] = @ + One]
    /\ UNCHANGED <<chosen, from, passed>>

Uncounted(r) ==
    \/ \E c \in Client : RefuseGlobal(r, c)
    \/ FindEntry(r)
    \/ CreateEntry(r)
    \/ TakeRefused(r)
    \/ Respond(r)

WNext ==
    \/ OpenWindow
    \/ \E r \in Req : WAdmit(r) \/ \E c \in Client : WPass(r, c)
    \/ /\ \/ \E r \in Req : Uncounted(r)
          \/ EvictExpired \/ Stop \/ EvictorExit \/ Tick
       /\ UNCHANGED windowVars

WSpec == WInit /\ [][WNext]_<<vars, windowVars>>

-----------------------------------------------------------------------------
WTypeOK ==
    /\ TypeOK
    /\ chosen \in BOOLEAN
    /\ from \in 0..now
    /\ passed \in Nat
    /\ admitted \in [Client -> Nat]

\* In no window of w ticks does the server let through more than its burst
\* plus w times its rate (SPEC: "Global limit ... prevents overall request
\* flooding"; ratelimit.go:76).
ServerBudget ==
    passed * TicksPerSecond <= Capacity(GBurst) + (now - from) * GlobalRate

\* Nor does a client get more than its own burst plus w times its rate,
\* however its requests interleave with each other and with the evictor, and
\* however often its limiter is evicted and created anew (ratelimit.go:80-97).
ClientBudget ==
    \A c \in Client :
        admitted[c] * TicksPerSecond
            <= Capacity(CBurst) + (now - from) * PerClientRate
=============================================================================
