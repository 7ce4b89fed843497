---------------------------- MODULE TimedToolCall ----------------------------
(***************************************************************************)
(* ToolCall on a clock: how long a tool call may last when each of its     *)
(* requests to Paperless-ngx keeps to PaperlessRequest, as PaperlessClient *)
(* does.  The clock only watches the actions of ToolCall.  It stands still *)
(* while a goroutine can run, so that all time is spent in requests.       *)
(***************************************************************************)
EXTENDS ToolCall

CONSTANT RequestTime  \* PaperlessRequest's bound, in ticks

ASSUME RequestTimeAssumption == RequestTime \in Nat \ {0}

VARIABLES
    age,      \* how long each request in flight has lasted
    elapsed   \* how long the call has lasted

timedVars == <<vars, age, elapsed>>

-----------------------------------------------------------------------------
\* Nil stands for the request the handler itself waits for; the others are the
\* lookups of the goroutines.
Requester == Id \cup {Nil}

InFlight(x) ==
    IF x = Nil
    THEN phase = "search" \/ (tool = "content" /\ Resolving /\ todo # {})
    ELSE worker[x] = "fetch"

\* Something other than the network can go on: the loop has an id and a slot for
\* it, a goroutine has or may have mu, there is nothing left to wait for, or the
\* handler computes.
Runnable ==
    \/ tool = "list" /\ Resolving /\ todo # {} /\ GroupHasRoom
    \/ \E id \in Id : worker[id] = "write" \/ (worker[id] = "lock" /\ mu = Nil)
    \/ Resolving /\ todo = {} /\ Active = {}
    \/ phase \in {"render", "replied", "failed"}

TInit ==
    /\ Init
    /\ age = [x \in Requester |-> 0]
    /\ elapsed = 0

\* A step of ToolCall takes no time; a request that begins is new.
TStep ==
    /\ Next
    /\ age' = [x \in Requester |->
                  IF InFlight(x)' /\ (x = Nil => phase' = phase) THEN age[x] ELSE 0]
    /\ elapsed' = IF phase' = "idle" THEN 0 ELSE elapsed

\* Time passes for all requests that are in flight, within the time each has;
\* a cancelled context ends them at once.
Tick ==
    /\ ~Runnable /\ ~clientGone
    /\ \E x \in Requester : InFlight(x)
    /\ \A x \in Requester : InFlight(x) => age[x] < RequestTime
    /\ age' = [x \in Requester |-> IF InFlight(x) THEN age[x] + 1 ELSE age[x]]
    /\ elapsed' = elapsed + 1
    /\ UNCHANGED vars

TNext == TStep \/ Tick

TSpec == TInit /\ [][TNext]_timedVars

-----------------------------------------------------------------------------
\* Rounds of Limit lookups at a time that n ids take.
Rounds(n) == (n + Limit - 1) \div Limit

\* The requests it takes to look up ids one after the other, or Limit at a time.
Turns(ids) == IF tool = "list" THEN Rounds(Cardinality(ids)) ELSE Cardinality(ids)

\* The requests that can follow one another in a call.
Depth ==
    IF tool = "plain" THEN 1
                      ELSE 1 + Turns(CorrIds(page)) + Turns(TypeIds(page))

\* A tool call lasts no longer than the requests that can follow one another,
\* however unevenly the lookups of a round end: a slot that is free never waits
\* for the slowest one (tools.go:235-238).  With a page of 100 documents, 100
\* correspondents and 100 types, that is 11 requests of up to three attempts
\* of 30 seconds, which the WRITE_TIMEOUT of main.go:158 has to allow for.
CallIsBounded == elapsed <= Depth * RequestTime
=============================================================================
