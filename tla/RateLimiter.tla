---------------------------- MODULE RateLimiter ----------------------------
(***************************************************************************)
(* handlers/ratelimit.go: the two-tier token bucket in front of every MCP  *)
(* request, the map of per-client limiters, and the goroutine that evicts  *)
(* the limiters of clients not seen for ClientTTL.                         *)
(*                                                                         *)
(* What is hard here is that Allow is three atomic sections, not one: the  *)
(* global bucket (its own lock), the map (rl.mu), and, after rl.mu is      *)
(* released, the bucket the goroutine still holds a pointer to.  The       *)
(* evictor may run between any two of them.  Limiter objects are           *)
(* therefore modelled by identity, as cells of a heap: the map and a       *)
(* goroutine may point to the same cell, or to two different cells for     *)
(* one client if an eviction came in between.                              *)
(***************************************************************************)
EXTENDS TokenBucket, FiniteSets

CONSTANTS
    Client,          \* client IP addresses, as extractClientIP returns them
    Req,             \* goroutines serving requests
    Cell,            \* heap cells for *clientLimiter objects
    Nil,             \* the nil pointer, and the client of an idle goroutine
    GlobalRate, GlobalBurst,        \* RateLimiterConfig.Global...
    PerClientRate, PerClientBurst,  \* RateLimiterConfig.PerClient...
    ClientTTL,       \* clientTTL, in ticks
    CleanupInterval, \* cleanupInterval, in ticks
    MaxPause,        \* a call of Allow, and a due sweep, take at most this long
    MaxTime          \* bound: the clock stops here

ASSUME NilAssumption == Nil \notin Client /\ Nil \notin Cell

ASSUME ConfigAssumption ==
    /\ GlobalRate \in Nat \ {0} /\ PerClientRate \in Nat \ {0}
    /\ GlobalBurst \in Int /\ PerClientBurst \in Int

ASSUME TimeAssumption ==
    /\ ClientTTL \in Nat /\ CleanupInterval \in Nat \ {0}
    /\ MaxPause \in Nat /\ MaxTime \in Nat
    /\ MaxPause <= ClientTTL
    /\ MaxPause < CleanupInterval

VARIABLES
    now,          \* the clock
    global,       \* rl.global
    clients,      \* rl.clients: each client's cell, Nil when it has no entry
    heap,         \* the clientLimiter objects: [bucket, lastSeen]
    pc,           \* where each goroutine is in RateLimitMiddleware and Allow
    ip,           \* its clientIP
    held,         \* its local variable cl
    calledAt,     \* when it called Allow, 0 while it is not in it
    tickAge,      \* time since the ticker last fired
    tickPending,  \* ticker.C holds a tick (its buffer has room for one)
    evictor,      \* the goroutine evictStaleClients
    stopped       \* rl.stopCh is closed

vars == <<now, global, clients, heap, pc, ip, held, calledAt,
          tickAge, tickPending, evictor, stopped>>

callVars  == <<pc, ip, held, calledAt>>
sweepVars == <<tickAge, tickPending, evictor, stopped>>

-----------------------------------------------------------------------------
\* A burst that is not positive means twice the rate, which here is an int that
\* can be doubled: conversion and overflow are the subject of Configuration!Burst.
EffectiveBurst(burst, rate) == IF burst <= 0 THEN 2 * rate ELSE burst

GBurst == EffectiveBurst(GlobalBurst, GlobalRate)
CBurst == EffectiveBurst(PerClientBurst, PerClientRate)

\* Mistakes: a fraction of a token is taken for a token.
FractionOfGlobalToken == Level(global, GlobalRate, GBurst, now) >= 1
FractionOfCellToken(k) == Level(heap[k].bucket, PerClientRate, CBurst, now) >= 1

GlobalHasToken == CanTake(global, GlobalRate, GBurst, now)
CellHasToken(k) == CanTake(heap[k].bucket, PerClientRate, CBurst, now)

\* Mistake: an entry is evicted one instant early.
ExpiredEarly(k) == now - heap[k].lastSeen >= ClientTTL

\* time.Since(cl.lastSeen) > clientTTL
Expired(k) == now - heap[k].lastSeen > ClientTTL

\* A new clientLimiter: a full bucket, seen now.
NewClientLimiter == [bucket |-> NewLimiter(CBurst, now), lastSeen |-> now]

\* The value of a cell nothing points to.
Blank == [bucket |-> NewLimiter(CBurst, 0), lastSeen |-> 0]

Mapped == {c \in Client : clients[c] # Nil}
Pointed == {clients[c] : c \in Mapped} \cup {held[r] : r \in Req}

InAllow(r) == pc[r] \in {"lookup", "take"}

-----------------------------------------------------------------------------
Init ==
    /\ now = 0
    /\ global = NewLimiter(GBurst, 0)
    /\ clients = [c \in Client |-> Nil]
    /\ heap = [k \in Cell |-> Blank]
    /\ pc = [r \in Req |-> "idle"]
    /\ ip = [r \in Req |-> Nil]
    /\ held = [r \in Req |-> Nil]
    /\ calledAt = [r \in Req |-> 0]
    /\ tickAge = 0
    /\ tickPending = FALSE
    /\ evictor = "running"
    /\ stopped = FALSE

\* rl.global.Allow() grants: the call goes on to the map.
PassGlobal(r, c) ==
    /\ pc[r] = "idle"
    /\ GlobalHasToken
    /\ global' = Take(global, GlobalRate, GBurst, now)
    /\ pc' = [pc EXCEPT ![r] = "lookup"]
    /\ ip' = [ip EXCEPT ![r] = c]
    /\ calledAt' = [calledAt EXCEPT ![r] = now]
    /\ UNCHANGED <<now, clients, heap, held, sweepVars>>

\* rl.global.Allow() refuses: Allow returns false before it looks at the map.
RefuseGlobal(r, c) ==
    /\ pc[r] = "idle"
    /\ ~GlobalHasToken
    /\ pc' = [pc EXCEPT ![r] = "refused"]
    /\ ip' = [ip EXCEPT ![r] = c]
    /\ UNCHANGED <<now, global, clients, heap, held, calledAt, sweepVars>>

\* Mistake: lastSeen is only set when the entry is created.
FindEntryUnseen(r) ==
    /\ pc[r] = "lookup"
    /\ clients[ip[r]] # Nil
    /\ held' = [held EXCEPT ![r] = clients[ip[r]]]
    /\ pc' = [pc EXCEPT ![r] = "take"]
    /\ UNCHANGED <<now, global, clients, heap, ip, calledAt, sweepVars>>

\* Mistake: a known client is given a new limiter all the same.
FindEntryAnew(r) ==
    /\ pc[r] = "lookup"
    /\ clients[ip[r]] # Nil
    /\ heap' = [heap EXCEPT ![clients[ip[r]]] = NewClientLimiter]
    /\ held' = [held EXCEPT ![r] = clients[ip[r]]]
    /\ pc' = [pc EXCEPT ![r] = "take"]
    /\ UNCHANGED <<now, global, clients, ip, calledAt, sweepVars>>

\* Under rl.mu, the client has an entry: refresh lastSeen, keep the pointer.
FindEntry(r) ==
    /\ pc[r] = "lookup"
    /\ clients[ip[r]] # Nil
    /\ heap' = [heap EXCEPT ![clients[ip[r]]].lastSeen = now]
    /\ held' = [held EXCEPT ![r] = clients[ip[r]]]
    /\ pc' = [pc EXCEPT ![r] = "take"]
    /\ UNCHANGED <<now, global, clients, ip, calledAt, sweepVars>>

\* Under rl.mu, the client has none: allocate a limiter and enter it.
CreateEntry(r) ==
    /\ pc[r] = "lookup"
    /\ clients[ip[r]] = Nil
    /\ \E k \in Cell \ Pointed :
        /\ heap' = [heap EXCEPT ![k] = NewClientLimiter]
        /\ clients' = [clients EXCEPT ![ip[r]] = k]
        /\ held' = [held EXCEPT ![r] = k]
    /\ pc' = [pc EXCEPT ![r] = "take"]
    /\ UNCHANGED <<now, global, ip, calledAt, sweepVars>>

\* cl.limiter.Allow(), after rl.mu was released, on the cell still held.
TakeGranted(r) ==
    /\ pc[r] = "take"
    /\ CellHasToken(held[r])
    /\ heap' = [heap EXCEPT ![held[r]].bucket =
                    Take(heap[held[r]].bucket, PerClientRate, CBurst, now)]
    /\ held' = [held EXCEPT ![r] = Nil]
    /\ calledAt' = [calledAt EXCEPT ![r] = 0]
    /\ pc' = [pc EXCEPT ![r] = "allowed"]
    /\ UNCHANGED <<now, global, clients, ip, sweepVars>>

TakeRefused(r) ==
    /\ pc[r] = "take"
    /\ ~CellHasToken(held[r])
    /\ held' = [held EXCEPT ![r] = Nil]
    /\ calledAt' = [calledAt EXCEPT ![r] = 0]
    /\ pc' = [pc EXCEPT ![r] = "refused"]
    /\ UNCHANGED <<now, global, clients, heap, ip, sweepVars>>

\* The middleware answers 429, or calls the next handler, which returns.
Respond(r) ==
    /\ pc[r] \in {"allowed", "refused"}
    /\ pc' = [pc EXCEPT ![r] = "idle"]
    /\ ip' = [ip EXCEPT ![r] = Nil]
    /\ UNCHANGED <<now, global, clients, heap, held, calledAt, sweepVars>>

\* Mistake: a sweep leaves the loop after the first entry it deletes.
EvictOne ==
    /\ evictor = "running"
    /\ tickPending
    /\ tickPending' = FALSE
    /\ UNCHANGED <<now, global, callVars, tickAge, evictor, stopped>>
    /\ IF \E c \in Mapped : Expired(clients[c])
       THEN \E c \in Mapped : Expired(clients[c])
                              /\ clients' = [clients EXCEPT ![c] = Nil]
       ELSE UNCHANGED clients
    /\ heap' = [k \in Cell |-> IF k \in Pointed' THEN heap[k] ELSE Blank]

\* evictStaleClients receives a tick and runs evictExpired, all under rl.mu.
\* Cells that nothing points to any more are collected.
EvictExpired ==
    /\ evictor = "running"
    /\ tickPending
    /\ tickPending' = FALSE
    /\ clients' = [c \in Client |->
                    IF clients[c] # Nil /\ Expired(clients[c])
                    THEN Nil ELSE clients[c]]
    /\ UNCHANGED <<now, global, callVars, tickAge, evictor, stopped>>
    /\ heap' = [k \in Cell |-> IF k \in Pointed' THEN heap[k] ELSE Blank]

\* Stop closes stopCh (closing it twice would panic).
Stop ==
    /\ ~stopped
    /\ stopped' = TRUE
    /\ UNCHANGED <<now, global, clients, heap, callVars,
                   tickAge, tickPending, evictor>>

\* The select sees stopCh closed; with a tick pending too it may pick either.
EvictorExit ==
    /\ evictor = "running"
    /\ stopped
    /\ evictor' = "exited"
    /\ UNCHANGED <<now, global, clients, heap, callVars,
                   tickAge, tickPending, stopped>>

\* Time passes.  No call of Allow stays unfinished, and no due sweep waits,
\* for more than MaxPause; the ticker drops a tick nobody collected.
Tick ==
    /\ now < MaxTime
    /\ \A r \in Req : InAllow(r) => now - calledAt[r] < MaxPause
    /\ evictor = "running" /\ tickPending => tickAge < MaxPause
    /\ now' = now + 1
    /\ IF tickAge + 1 = CleanupInterval
       THEN tickAge' = 0 /\ tickPending' = (tickPending \/ evictor = "running")
       ELSE tickAge' = tickAge + 1 /\ UNCHANGED tickPending
    /\ UNCHANGED <<global, clients, heap, callVars, evictor, stopped>>

AllowStep(r) ==
    \/ \E c \in Client : PassGlobal(r, c) \/ RefuseGlobal(r, c)
    \/ FindEntry(r)
    \/ CreateEntry(r)
    \/ TakeGranted(r)
    \/ TakeRefused(r)
    \/ Respond(r)

Next ==
    \/ \E r \in Req : AllowStep(r)
    \/ EvictExpired
    \/ Stop
    \/ EvictorExit
    \/ Tick

Spec == Init /\ [][Next]_vars

-----------------------------------------------------------------------------
\* Every variable keeps its type.
TypeOK ==
    /\ now \in 0..MaxTime
    /\ global \in Bucket
    /\ clients \in [Client -> Cell \cup {Nil}]
    /\ heap \in [Cell -> [bucket : Bucket, lastSeen : Nat]]
    /\ pc \in [Req -> {"idle", "lookup", "take", "allowed", "refused"}]
    /\ ip \in [Req -> Client \cup {Nil}]
    /\ \A r \in Req : InAllow(r) => ip[r] \in Client
    /\ held \in [Req -> Cell \cup {Nil}]
    /\ \A r \in Req : held[r] # Nil <=> pc[r] = "take"
    /\ calledAt \in [Req -> Nat]
    /\ tickAge \in 0..(CleanupInterval - 1)
    /\ tickPending \in BOOLEAN
    /\ evictor \in {"running", "exited"}
    /\ stopped \in BOOLEAN

\* Allow takes a token from cl.limiter after rl.mu was released
\* (ratelimit.go:95-97).  The limiter it still points to is the one the map
\* holds for its client: the evictor has not dropped it in between, so that
\* a client never spends from two budgets at once.
HeldIsCurrent ==
    \A r \in Req : pc[r] = "take" => clients[ip[r]] = held[r]

\* The map holds no client that has been silent for longer than clientTTL
\* plus one sweep (and the delay of that sweep): the ticker and the sweep
\* together do what evictStaleClients promises, whatever ticks are dropped.
StaleBound ==
    ~stopped => \A c \in Mapped :
        now - heap[clients[c]].lastSeen
            <= ClientTTL + CleanupInterval + MaxPause

\* However many client addresses there are, the map holds no more of them
\* than the server's bucket lets in within the life of an entry: what keeps
\* memory bounded is that the global check comes before the insertion
\* (ratelimit.go:76-91), together with the eviction.
MapBound ==
    ~stopped =>
        Cardinality(Mapped) * TicksPerSecond
            <= Capacity(GBurst)
                 + (ClientTTL + CleanupInterval + 2 * MaxPause) * GlobalRate
=============================================================================
