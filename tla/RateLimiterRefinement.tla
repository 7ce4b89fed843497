----------------------- MODULE RateLimiterRefinement -----------------------
(***************************************************************************)
(* RateLimiter implements PersistentBuckets, provided a client that is     *)
(* silent for long enough to be evicted has had time to earn a full        *)
(* bucket.                                                                 *)
(***************************************************************************)
EXTENDS RateLimiter

\* A limiter last used MaxPause after its lastSeen, and evicted at the first
\* instant lastSeen is more than clientTTL old, is full again by then.  main
\* sets the burst to twice the rate, so that two seconds are enough.
ASSUME IdleRefillsBucket ==
    (ClientTTL + 1 - MaxPause) * PerClientRate >= Capacity(CBurst)

\* A client without an entry is one whose bucket is full.
ClientLevel(c) ==
    IF clients[c] = Nil
    THEN Capacity(CBurst)
    ELSE Level(heap[clients[c]].bucket, PerClientRate, CBurst, now)

ServerLevel == Level(global, GlobalRate, GBurst, now)
Levels == [c \in Client |-> ClientLevel(c)]

\* From the outside, a call that is inside Allow has passed the server's bucket.
Stages == [r \in Req |-> IF InAllow(r) THEN "passed" ELSE pc[r]]

Buckets == INSTANCE PersistentBuckets WITH
    Cost <- TicksPerSecond,
    GlobalCap <- Capacity(GBurst),
    ClientRate <- PerClientRate,
    ClientCap <- Capacity(CBurst),
    server <- ServerLevel,
    level <- Levels,
    stage <- Stages,
    who <- ip

\* Creating, sharing and evicting limiters is invisible: every step of the
\* code is a step of, or leaves alone, one permanent bucket per client
\* (ratelimit.go:75-111).  In particular no eviction gives a client credit
\* it had not earned, and no interleaving spends a token twice.
ImplementsPersistentBuckets == Buckets!Spec
=============================================================================
