------------------------- MODULE PersistentBuckets -------------------------
(***************************************************************************)
(* What the rate limiter promises, without its machinery: one bucket for   *)
(* the server and one for every client that ever was or will be, each      *)
(* refilled at every tick, none of them ever created, evicted or reset.  A *)
(* request is judged by the server's bucket and then by its client's, and  *)
(* a request the client's bucket refuses has still been counted against    *)
(* the server's.                                                           *)
(*                                                                         *)
(* The implementation keeps buckets only for the clients it has seen       *)
(* lately, refills them on demand, and shares them between goroutines;     *)
(* that it implements this specification says that none of this can be     *)
(* noticed by a client.                                                    *)
(***************************************************************************)
EXTENDS Integers

CONSTANTS
    Client, Req, Nil,
    Cost,                       \* credits a request takes, a positive number
    GlobalRate, GlobalCap,      \* credits gained per tick, and at most held
    ClientRate, ClientCap

VARIABLES
    server,   \* the server's credit
    level,    \* each client's credit
    stage,    \* how far each request is: "passed" by the server's bucket, ...
    who       \* the client a request comes from

vars == <<server, level, stage, who>>

Refilled(credit, rate, cap) ==
    IF credit + rate <= cap THEN credit + rate ELSE cap

Init ==
    /\ server = GlobalCap
    /\ level = [c \in Client |-> ClientCap]
    /\ stage = [r \in Req |-> "idle"]
    /\ who = [r \in Req |-> Nil]

Pass(r, c) ==
    /\ stage[r] = "idle"
    /\ server >= Cost
    /\ server' = server - Cost
    /\ stage' = [stage EXCEPT ![r] = "passed"]
    /\ who' = [who EXCEPT ![r] = c]
    /\ UNCHANGED level

RefuseAll(r, c) ==
    /\ stage[r] = "idle"
    /\ server < Cost
    /\ stage' = [stage EXCEPT ![r] = "refused"]
    /\ who' = [who EXCEPT ![r] = c]
    /\ UNCHANGED <<server, level>>

Admit(r) ==
    /\ stage[r] = "passed"
    /\ level[who[r]] >= Cost
    /\ level' = [level EXCEPT ![who[r]] = @ - Cost]
    /\ stage' = [stage EXCEPT ![r] = "allowed"]
    /\ UNCHANGED <<server, who>>

RefuseClient(r) ==
    /\ stage[r] = "passed"
    /\ level[who[r]] < Cost
    /\ stage' = [stage EXCEPT ![r] = "refused"]
    /\ UNCHANGED <<server, level, who>>

Respond(r) ==
    /\ stage[r] \in {"allowed", "refused"}
    /\ stage' = [stage EXCEPT ![r] = "idle"]
    /\ who' = [who EXCEPT ![r] = Nil]
    /\ UNCHANGED <<server, level>>

Refill ==
    /\ server' = Refilled(server, GlobalRate, GlobalCap)
    /\ level' = [c \in Client |-> Refilled(level[c], ClientRate, ClientCap)]
    /\ UNCHANGED <<stage, who>>

RequestStep(r) ==
    \/ \E c \in Client : Pass(r, c) \/ RefuseAll(r, c)
    \/ Admit(r)
    \/ RefuseClient(r)
    \/ Respond(r)

Next == Refill \/ \E r \in Req : RequestStep(r)

Spec == Init /\ [][Next]_vars
=============================================================================
