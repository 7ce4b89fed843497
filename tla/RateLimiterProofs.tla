------------------------- MODULE RateLimiterProofs --------------------------
(***************************************************************************)
(* The safety of RateLimiter for any clients, goroutines, rates and        *)
(* durations, by an inductive invariant; and its refinement: it implements *)
(* PersistentBuckets whenever an idle client earns a full bucket before    *)
(* its limiter can be evicted.                                             *)
(***************************************************************************)
EXTENDS RateLimiterRefinement, TLAPS

\* Two clients never share a limiter.
OwnLimiter ==
    \A c, d \in Client :
        clients[c] # Nil /\ clients[c] = clients[d] => c = d

\* A call that is under way began at most MaxPause ago; once it has looked
\* its client up, the entry has been seen since the call began.
CallsAreRecent ==
    \A r \in Req :
        /\ InAllow(r) => /\ calledAt[r] <= now
                         /\ now - calledAt[r] <= MaxPause
        /\ pc[r] = "take" => calledAt[r] <= heap[held[r]].lastSeen

\* An entry's bucket was last used at most MaxPause after the entry was seen.
EntriesAreOrdered ==
    \A c \in Client : clients[c] # Nil =>
        LET e == heap[clients[c]]
        IN  /\ e.lastSeen <= now
            /\ e.bucket.last <= now
            /\ e.bucket.last <= e.lastSeen + MaxPause

\* What the last sweep left, and how late the next one can be.
SweepsAreRecent ==
    /\ ~stopped => evictor = "running"
    /\ evictor = "running" /\ tickPending => tickAge <= MaxPause
    /\ ~stopped => \A c \in Client : clients[c] # Nil =>
          now - heap[clients[c]].lastSeen
              <= ClientTTL + tickAge
                   + (IF tickPending THEN CleanupInterval ELSE 0)

IInv ==
    /\ TypeOK
    /\ OwnLimiter
    /\ HeldIsCurrent
    /\ CallsAreRecent
    /\ EntriesAreOrdered
    /\ global.last <= now
    /\ SweepsAreRecent

-----------------------------------------------------------------------------
\* Bursts are positive, whatever the configuration says, and so capacities
\* are natural numbers.
LEMMA BurstTypes ==
    /\ GBurst \in Nat \ {0} /\ Capacity(GBurst) \in Nat
    /\ CBurst \in Nat \ {0} /\ Capacity(CBurst) \in Nat
<1>1. GBurst \in Nat \ {0} /\ CBurst \in Nat \ {0}
  BY ConfigAssumption DEF GBurst, CBurst, EffectiveBurst
<1>2. ASSUME NEW burst \in Nat \ {0}
      PROVE  Capacity(burst) \in Nat
  BY TicksAssumption DEF Capacity
<1> QED
  BY <1>1, <1>2

\* A bucket stays a bucket when a token is taken from it.
LEMMA TakeType ==
    ASSUME NEW b \in Bucket, NEW rate \in Nat, NEW burst \in Nat, NEW t \in Nat,
           CanTake(b, rate, burst, t)
    PROVE  Take(b, rate, burst, t) \in Bucket
<1>1. Level(b, rate, burst, t) \in Int
  BY TicksAssumption DEF Level, Lesser, Capacity, Bucket
<1> QED
  BY <1>1, TicksAssumption DEF CanTake, Take, Bucket

LEMMA NewLimiterType ==
    ASSUME NEW t \in Nat
    PROVE  NewLimiter(CBurst, t) \in Bucket /\ NewLimiter(GBurst, t) \in Bucket
BY BurstTypes DEF NewLimiter, Bucket

-----------------------------------------------------------------------------
LEMMA InitType == Init => TypeOK
<1> SUFFICES ASSUME Init PROVE TypeOK
  OBVIOUS
<1>1. Blank \in [bucket : Bucket, lastSeen : Nat]
  BY NewLimiterType DEF Blank
<1>2. now \in 0..MaxTime /\ tickAge \in 0..(CleanupInterval - 1)
  BY TimeAssumption DEF Init
<1>3. global \in Bucket
  BY NewLimiterType DEF Init
<1>4. heap \in [Cell -> [bucket : Bucket, lastSeen : Nat]]
  BY <1>1 DEF Init
<1>5. tickPending \in BOOLEAN /\ stopped \in BOOLEAN
  BY DEF Init
<1>6. /\ \A r \in Req : InAllow(r) => ip[r] \in Client
      /\ \A r \in Req : held[r] # Nil <=> pc[r] = "take"
  BY DEF Init, InAllow
<1> QED
  BY <1>2, <1>3, <1>4, <1>5, <1>6 DEF Init, TypeOK

LEMMA NextType == TypeOK /\ [Next]_vars => TypeOK'
<1> SUFFICES ASSUME TypeOK, [Next]_vars PROVE TypeOK'
  OBVIOUS
<1> USE DEF TypeOK, InAllow, callVars, sweepVars
<1>0. now \in Nat /\ Nil \notin Client /\ Nil \notin Cell
  BY TimeAssumption, NilAssumption
<1>1. ASSUME NEW r \in Req, NEW c \in Client, PassGlobal(r, c)
      PROVE  TypeOK'
  <2>1. global' \in Bucket
    BY <1>0, <1>1, TakeType, BurstTypes, ConfigAssumption
    DEF PassGlobal, GlobalHasToken
  <2> QED
    BY <1>0, <1>1, <2>1 DEF PassGlobal
<1>2. ASSUME NEW r \in Req, NEW c \in Client, RefuseGlobal(r, c)
      PROVE  TypeOK'
  BY <1>0, <1>2 DEF RefuseGlobal
<1>3. ASSUME NEW r \in Req, FindEntry(r)
      PROVE  TypeOK'
  BY <1>0, <1>3 DEF FindEntry
<1>4. ASSUME NEW r \in Req, CreateEntry(r)
      PROVE  TypeOK'
  <2>1. PICK k \in Cell \ Pointed :
           /\ heap' = [heap EXCEPT ![k] = NewClientLimiter]
           /\ clients' = [clients EXCEPT ![ip[r]] = k]
           /\ held' = [held EXCEPT ![r] = k]
    BY <1>4 DEF CreateEntry
  <2>2. NewClientLimiter \in [bucket : Bucket, lastSeen : Nat]
    BY <1>0, NewLimiterType DEF NewClientLimiter
  <2> QED
    BY <1>0, <1>4, <2>1, <2>2 DEF CreateEntry
<1>5. ASSUME NEW r \in Req, TakeGranted(r)
      PROVE  TypeOK'
  <2>1. held[r] \in Cell
    BY <1>5 DEF TakeGranted
  <2>2. Take(heap[held[r]].bucket, PerClientRate, CBurst, now) \in Bucket
    BY <1>0, <1>5, <2>1, TakeType, BurstTypes, ConfigAssumption
    DEF TakeGranted, CellHasToken
  <2>3. heap' \in [Cell -> [bucket : Bucket, lastSeen : Nat]]
    BY <1>5, <2>1, <2>2 DEF TakeGranted
  <2> QED
    BY <1>0, <1>5, <2>3 DEF TakeGranted
<1>6. ASSUME NEW r \in Req, TakeRefused(r)
      PROVE  TypeOK'
  BY <1>0, <1>6 DEF TakeRefused
<1>7. ASSUME NEW r \in Req, Respond(r)
      PROVE  TypeOK'
  BY <1>0, <1>7 DEF Respond
<1>8. CASE EvictExpired
  <2>1. Blank \in [bucket : Bucket, lastSeen : Nat]
    BY NewLimiterType DEF Blank
  <2>2. heap' \in [Cell -> [bucket : Bucket, lastSeen : Nat]]
    BY <1>8, <2>1 DEF EvictExpired
  <2>3. clients' \in [Client -> Cell \cup {Nil}]
    BY <1>8 DEF EvictExpired
  <2> QED
    BY <1>8, <2>2, <2>3 DEF EvictExpired
<1>9. CASE Stop
  BY <1>9 DEF Stop
<1>10. CASE EvictorExit
  BY <1>10 DEF EvictorExit
<1>11. CASE Tick
  <2>1. now' \in 0..MaxTime /\ tickAge' \in 0..(CleanupInterval - 1)
    BY <1>0, <1>11, TimeAssumption DEF Tick
  <2>2. tickPending' \in BOOLEAN
    BY <1>11 DEF Tick
  <2> QED
    BY <1>11, <2>1, <2>2 DEF Tick
<1>12. CASE UNCHANGED vars
  BY <1>12 DEF vars
<1> QED
  BY <1>1, <1>2, <1>3, <1>4, <1>5, <1>6, <1>7, <1>8, <1>9, <1>10, <1>11,
     <1>12 DEF Next, AllowStep

\* Every variable keeps its type.
THEOREM TypeCorrect == Spec => []TypeOK
<1> QED
  BY InitType, NextType, PTL DEF Spec

-----------------------------------------------------------------------------
LEMMA InitInv == Init => IInv
<1> SUFFICES ASSUME Init PROVE IInv
  OBVIOUS
<1>1. TypeOK
  BY InitType
<1>2. OwnLimiter /\ EntriesAreOrdered
  BY DEF Init, OwnLimiter, EntriesAreOrdered
<1>3. HeldIsCurrent /\ CallsAreRecent
  BY DEF Init, HeldIsCurrent, CallsAreRecent, InAllow
<1>4. global.last <= now
  BY DEF Init, NewLimiter
<1>5. SweepsAreRecent
  BY DEF Init, SweepsAreRecent
<1> QED
  BY <1>1, <1>2, <1>3, <1>4, <1>5 DEF IInv

LEMMA NextInv == IInv /\ [Next]_vars => IInv'
<1> SUFFICES ASSUME IInv, [Next]_vars PROVE IInv'
  OBVIOUS
<1>0. TypeOK /\ TypeOK'
  BY NextType DEF IInv
<1> USE TimeAssumption, NilAssumption
    DEF IInv, OwnLimiter, HeldIsCurrent, CallsAreRecent, EntriesAreOrdered,
        InAllow, callVars, sweepVars
<1>1. ASSUME NEW r \in Req, NEW c \in Client, PassGlobal(r, c)
      PROVE  IInv'
  <2>1. UNCHANGED <<now, clients, heap, held, sweepVars>>
    BY <1>1 DEF PassGlobal
  <2>2. HeldIsCurrent' /\ CallsAreRecent'
    BY <1>0, <1>1 DEF PassGlobal, TypeOK
  <2>3. (global.last <= now)'
    BY <1>0, <1>1 DEF PassGlobal, TypeOK, Take
  <2>4. SweepsAreRecent'
    BY <2>1 DEF SweepsAreRecent
  <2> QED
    BY <1>0, <2>1, <2>2, <2>3, <2>4
<1>2. ASSUME NEW r \in Req, NEW c \in Client, RefuseGlobal(r, c)
      PROVE  IInv'
  <2>1. UNCHANGED <<now, global, clients, heap, held, calledAt, sweepVars>>
    BY <1>2 DEF RefuseGlobal
  <2>2. HeldIsCurrent' /\ CallsAreRecent'
    BY <1>0, <1>2 DEF RefuseGlobal, TypeOK
  <2>3. SweepsAreRecent'
    BY <2>1 DEF SweepsAreRecent
  <2> QED
    BY <1>0, <2>1, <2>2, <2>3
<1>3. ASSUME NEW r \in Req, FindEntry(r)
      PROVE  IInv'
  <2> DEFINE k == clients[ip[r]]
  <2>1. /\ k \in Cell
        /\ heap' = [heap EXCEPT ![k].lastSeen = now]
        /\ UNCHANGED <<now, global, clients, ip, calledAt, sweepVars>>
    BY <1>0, <1>3 DEF FindEntry, TypeOK
  <2>2. \A j \in Cell :
           /\ heap'[j].bucket = heap[j].bucket
           /\ heap'[j].lastSeen = IF j = k THEN now ELSE heap[j].lastSeen
    BY <1>0, <2>1 DEF TypeOK
  <2>3. HeldIsCurrent'
    BY <1>0, <1>3 DEF FindEntry, TypeOK
  <2>4. CallsAreRecent'
    BY <1>0, <1>3, <2>1, <2>2 DEF FindEntry, TypeOK
  <2>5. EntriesAreOrdered'
    BY <1>0, <2>1, <2>2 DEF TypeOK, Bucket
  <2>6. SweepsAreRecent'
    BY <1>0, <2>1, <2>2 DEF SweepsAreRecent, TypeOK
  <2> QED
    BY <1>0, <2>1, <2>3, <2>4, <2>5, <2>6
<1>4. ASSUME NEW r \in Req, CreateEntry(r)
      PROVE  IInv'
  <2>1. PICK k \in Cell \ Pointed :
           /\ heap' = [heap EXCEPT ![k] = NewClientLimiter]
           /\ clients' = [clients EXCEPT ![ip[r]] = k]
           /\ held' = [held EXCEPT ![r] = k]
    BY <1>4 DEF CreateEntry
  <2>2. /\ \A c \in Client : clients[c] # k
        /\ \A q \in Req : held[q] # k
    BY <2>1 DEF Pointed, Mapped
  <2>3. UNCHANGED <<now, global, ip, calledAt, sweepVars>>
    BY <1>4 DEF CreateEntry
  <2>4. /\ heap'[k].lastSeen = now /\ heap'[k].bucket.last = now
        /\ \A j \in Cell \ {k} : heap'[j] = heap[j]
    BY <1>0, <2>1 DEF TypeOK, NewClientLimiter, NewLimiter
  <2>5. OwnLimiter'
    BY <1>0, <2>1, <2>2 DEF TypeOK
  <2>6. HeldIsCurrent'
    BY <1>0, <1>4, <2>1, <2>2 DEF CreateEntry, TypeOK
  <2>7. CallsAreRecent'
    BY <1>0, <1>4, <2>1, <2>2, <2>3, <2>4 DEF CreateEntry, TypeOK
  <2>8. EntriesAreOrdered'
    BY <1>0, <2>1, <2>3, <2>4 DEF TypeOK, Bucket
  <2>9. SweepsAreRecent'
    BY <1>0, <2>1, <2>3, <2>4 DEF SweepsAreRecent, TypeOK
  <2> QED
    BY <1>0, <2>3, <2>5, <2>6, <2>7, <2>8, <2>9
<1>5. ASSUME NEW r \in Req, TakeGranted(r)
      PROVE  IInv'
  <2>1. /\ held[r] \in Cell /\ clients[ip[r]] = held[r]
        /\ now - heap[held[r]].lastSeen <= MaxPause
    BY <1>0, <1>5 DEF TakeGranted, TypeOK
  <2>2. UNCHANGED <<now, global, clients, ip, sweepVars>>
    BY <1>5 DEF TakeGranted
  <2>3. \A j \in Cell :
           /\ heap'[j].lastSeen = heap[j].lastSeen
           /\ heap'[j].bucket.last =
                 IF j = held[r] THEN now ELSE heap[j].bucket.last
    BY <1>0, <1>5, <2>1 DEF TakeGranted, TypeOK, Take
  <2>4. HeldIsCurrent'
    BY <1>0, <1>5 DEF TakeGranted, TypeOK
  <2>5. CallsAreRecent'
    BY <1>0, <1>5, <2>2, <2>3 DEF TakeGranted, TypeOK
  <2>6. EntriesAreOrdered'
    BY <1>0, <2>1, <2>2, <2>3 DEF TypeOK, Bucket
  <2>7. SweepsAreRecent'
    BY <1>0, <2>2, <2>3 DEF SweepsAreRecent, TypeOK
  <2> QED
    BY <1>0, <2>2, <2>4, <2>5, <2>6, <2>7
<1>6. ASSUME NEW r \in Req, TakeRefused(r)
      PROVE  IInv'
  <2>1. UNCHANGED <<now, global, clients, heap, ip, sweepVars>>
    BY <1>6 DEF TakeRefused
  <2>2. HeldIsCurrent' /\ CallsAreRecent'
    BY <1>0, <1>6 DEF TakeRefused, TypeOK
  <2>3. SweepsAreRecent'
    BY <2>1 DEF SweepsAreRecent
  <2> QED
    BY <1>0, <2>1, <2>2, <2>3
<1>7. ASSUME NEW r \in Req, Respond(r)
      PROVE  IInv'
  <2>1. UNCHANGED <<now, global, clients, heap, held, calledAt, sweepVars>>
    BY <1>7 DEF Respond
  <2>2. HeldIsCurrent' /\ CallsAreRecent'
    BY <1>0, <1>7 DEF Respond, TypeOK
  <2>3. SweepsAreRecent'
    BY <2>1 DEF SweepsAreRecent
  <2> QED
    BY <1>0, <2>1, <2>2, <2>3
<1>8. CASE EvictExpired
  <2>1. UNCHANGED <<now, global, pc, ip, held, calledAt, tickAge, evictor,
                    stopped>>
    BY <1>8 DEF EvictExpired
  <2>2. \A c \in Client : clients'[c] # Nil =>
           /\ clients'[c] = clients[c]
           /\ ~Expired(clients[c])
           /\ heap'[clients[c]] = heap[clients[c]]
    BY <1>0, <1>8 DEF EvictExpired, Pointed, Mapped, TypeOK
  <2>3. \A r \in Req : held[r] # Nil => heap'[held[r]] = heap[held[r]]
    BY <1>0, <1>8 DEF EvictExpired, Pointed, TypeOK
  <2>4. ASSUME NEW r \in Req, pc[r] = "take"
        PROVE  clients'[ip[r]] = held[r]
    <3>1. ~Expired(held[r])
      BY <1>0, <2>4 DEF Expired, TypeOK
    <3> QED
      BY <1>0, <1>8, <2>4, <3>1 DEF EvictExpired, TypeOK
  <2>5. HeldIsCurrent'
    BY <2>1, <2>4
  <2>6. CallsAreRecent'
    BY <1>0, <2>1, <2>3 DEF TypeOK
  <2>7. OwnLimiter' /\ EntriesAreOrdered'
    BY <2>1, <2>2
  <2>8. \A c \in Client : clients'[c] # Nil =>
           now - heap'[clients'[c]].lastSeen <= ClientTTL
    BY <1>0, <2>2 DEF Expired, TypeOK
  <2>9. SweepsAreRecent'
    BY <1>0, <1>8, <2>1, <2>8 DEF EvictExpired, SweepsAreRecent, TypeOK
  <2> QED
    BY <1>0, <2>1, <2>5, <2>6, <2>7, <2>9
<1>9. CASE Stop
  <2>1. UNCHANGED <<now, global, clients, heap, callVars, tickAge,
                    tickPending, evictor>> /\ stopped'
    BY <1>9 DEF Stop
  <2>2. SweepsAreRecent'
    BY <2>1 DEF SweepsAreRecent
  <2> QED
    BY <1>0, <2>1, <2>2
<1>10. CASE EvictorExit
  <2>1. UNCHANGED <<now, global, clients, heap, callVars, tickAge,
                    tickPending, stopped>> /\ stopped /\ evictor' = "exited"
    BY <1>10 DEF EvictorExit
  <2>2. SweepsAreRecent'
    BY <2>1 DEF SweepsAreRecent
  <2> QED
    BY <1>0, <2>1, <2>2
<1>11. CASE Tick
  <2>1. now' = now + 1
        /\ UNCHANGED <<global, clients, heap, callVars, evictor, stopped>>
    BY <1>11 DEF Tick
  <2>2. CallsAreRecent'
    BY <1>0, <1>11, <2>1 DEF Tick, TypeOK
  <2>3. EntriesAreOrdered' /\ (global.last <= now)'
    BY <1>0, <2>1 DEF TypeOK, Bucket
  <2>4. SweepsAreRecent'
    BY <1>0, <1>11, <2>1 DEF Tick, SweepsAreRecent, TypeOK
  <2> QED
    BY <1>0, <2>1, <2>2, <2>3, <2>4
<1>12. CASE UNCHANGED vars
  BY <1>0, <1>12 DEF vars, SweepsAreRecent
<1> QED
  BY <1>1, <1>2, <1>3, <1>4, <1>5, <1>6, <1>7, <1>8, <1>9, <1>10, <1>11,
     <1>12 DEF Next, AllowStep

\* The inductive invariant is an invariant.
THEOREM Invariance == Spec => []IInv
<1> QED
  BY InitInv, NextInv, PTL DEF Spec

\* A goroutine that takes a token takes it from the limiter the map holds for
\* its client, however it interleaves with the evictor (ratelimit.go:95-97).
THEOREM HeldLimiterIsCurrent == Spec => []HeldIsCurrent
<1>1. IInv => HeldIsCurrent
  BY DEF IInv
<1> QED
  BY Invariance, <1>1, PTL

LEMMA SilentEntriesLeave == IInv => StaleBound
<1> SUFFICES ASSUME IInv, ~stopped, NEW c \in Mapped
             PROVE  now - heap[clients[c]].lastSeen
                      <= ClientTTL + CleanupInterval + MaxPause
  BY DEF StaleBound
<1>1. c \in Client /\ clients[c] # Nil /\ clients[c] \in Cell
  BY DEF Mapped, IInv, TypeOK
<1>2. now - heap[clients[c]].lastSeen
        <= ClientTTL + tickAge + (IF tickPending THEN CleanupInterval ELSE 0)
  BY <1>1 DEF IInv, SweepsAreRecent
<1>3. tickPending => tickAge <= MaxPause
  BY DEF IInv, SweepsAreRecent
<1>4. /\ now \in Int /\ heap[clients[c]].lastSeen \in Int
      /\ tickAge \in 0..(CleanupInterval - 1)
  BY <1>1 DEF IInv, TypeOK
<1> QED
  BY <1>2, <1>3, <1>4, TimeAssumption

\* Silent clients leave the map within clientTTL, one cleanup interval and
\* the delay of one sweep (ratelimit.go:102-128).
THEOREM StaleEntriesLeave == Spec => []StaleBound
<1> QED
  BY Invariance, SilentEntriesLeave, PTL

-----------------------------------------------------------------------------
\* Arithmetic that the provers need spelled out.
LEMMA MonotoneProduct ==
    ASSUME NEW a \in Int, NEW b \in Int, NEW k \in Nat, a <= b
    PROVE  a * k <= b * k
OBVIOUS

LEMMA OneMoreTick ==
    ASSUME NEW d \in Int, NEW k \in Int
    PROVE  (d + 1) * k = d * k + k
OBVIOUS

\* The level of a bucket is a credit between zero and the capacity.
LEMMA LevelType ==
    ASSUME NEW b \in Bucket, NEW rate \in Nat, NEW burst \in Nat, NEW t \in Nat,
           Capacity(burst) \in Nat, b.last <= t
    PROVE  Level(b, rate, burst, t) \in 0..Capacity(burst)
<1>1. t - b.last \in Nat
  BY DEF Bucket
<1>2. (t - b.last) * rate \in Nat
  BY <1>1
<1> QED
  BY <1>2 DEF Level, Lesser, Bucket

\* One tick later, the lazy bucket has gained what an eager one would have.
LEMMA LevelAdvances ==
    ASSUME NEW b \in Bucket, NEW rate \in Nat, NEW burst \in Nat, NEW t \in Nat,
           Capacity(burst) \in Nat
    PROVE  Level(b, rate, burst, t + 1) =
               Buckets!Refilled(Level(b, rate, burst, t), rate, Capacity(burst))
<1> DEFINE d == t - b.last
<1>1. d \in Int /\ (t + 1) - b.last = d + 1 /\ b.credit \in Nat
  BY DEF Bucket
<1> HIDE DEF d
<1>2. (d + 1) * rate = d * rate + rate /\ d * rate \in Int
  <2>1. rate \in Int
    OBVIOUS
  <2>2. (d + 1) * rate = d * rate + rate
    BY <1>1, <2>1, OneMoreTick
  <2> QED
    BY <1>1, <2>1, <2>2
<1>3. /\ Level(b, rate, burst, t) = Lesser(Capacity(burst), b.credit + d * rate)
      /\ Level(b, rate, burst, t + 1) =
           Lesser(Capacity(burst), b.credit + (d * rate + rate))
  <2>1. Level(b, rate, burst, t) = Lesser(Capacity(burst), b.credit + d * rate)
    BY DEF Level, d
  <2>2. Level(b, rate, burst, t + 1) =
          Lesser(Capacity(burst), b.credit + (d + 1) * rate)
    BY <1>1, Zenon DEF Level
  <2> QED
    BY <1>2, <2>1, <2>2
<1> QED
  BY <1>1, <1>2, <1>3 DEF Lesser, Buckets!Refilled

\* A granted request costs TicksPerSecond.
LEMMA LevelAfterTake ==
    ASSUME NEW b \in Bucket, NEW rate \in Nat, NEW burst \in Nat, NEW t \in Nat,
           Capacity(burst) \in Nat, CanTake(b, rate, burst, t)
    PROVE  Level(Take(b, rate, burst, t), rate, burst, t) =
               Level(b, rate, burst, t) - TicksPerSecond
<1> DEFINE l == Level(b, rate, burst, t)
<1>1. (t - t) * rate = 0 /\ (t - b.last) * rate \in Int
  BY DEF Bucket
<1>2. l \in Int /\ l <= Capacity(burst)
  BY <1>1 DEF Level, Lesser, Bucket
<1> HIDE DEF l
<1>3. Level(Take(b, rate, burst, t), rate, burst, t) =
        Lesser(Capacity(burst), l - TicksPerSecond + 0)
  BY <1>1 DEF Level, Take, l
<1> QED
  BY <1>2, <1>3, TicksAssumption DEF Lesser, l

\* A new limiter is full.
LEMMA LevelOfNew ==
    ASSUME NEW rate \in Nat, NEW burst \in Nat, NEW t \in Nat,
           Capacity(burst) \in Nat
    PROVE  Level(NewLimiter(burst, t), rate, burst, t) = Capacity(burst)
BY DEF Level, NewLimiter, Lesser

\* A limiter that may be evicted is full: this is where the time to live, the
\* longest pause and the burst have to fit together.
LEMMA ExpiredIsFull ==
    ASSUME IInv, NEW c \in Client, clients[c] # Nil, Expired(clients[c])
    PROVE  ClientLevel(c) = Capacity(CBurst)
<1> DEFINE b == heap[clients[c]].bucket
           d == now - b.last
<1>1. /\ b \in Bucket /\ now \in Nat /\ heap[clients[c]].lastSeen \in Nat
      /\ b.last \in Nat /\ b.credit \in Nat
  BY DEF IInv, TypeOK, Bucket
<1>2. d >= ClientTTL + 1 - MaxPause /\ d \in Int
  BY <1>1, TimeAssumption DEF IInv, EntriesAreOrdered, Expired
<1>3. d * PerClientRate >= (ClientTTL + 1 - MaxPause) * PerClientRate
  BY <1>2, MonotoneProduct, TimeAssumption, ConfigAssumption
<1>4. /\ (ClientTTL + 1 - MaxPause) * PerClientRate \in Int
      /\ d * PerClientRate \in Int
  BY <1>2, TimeAssumption, ConfigAssumption
<1>5. d * PerClientRate >= Capacity(CBurst)
  BY <1>3, <1>4, IdleRefillsBucket, BurstTypes
<1>6. ClientLevel(c) = Lesser(Capacity(CBurst), b.credit + d * PerClientRate)
  BY DEF ClientLevel, Level
<1> QED
  BY <1>1, <1>4, <1>5, <1>6, BurstTypes DEF Lesser

-----------------------------------------------------------------------------
\* What the lemmas below use of the invariant.
LEMMA InvTypes ==
    IInv => /\ TypeOK /\ now \in Nat /\ global \in Bucket /\ global.last <= now
            /\ GlobalRate \in Nat /\ PerClientRate \in Nat
            /\ Nil \notin Client /\ Nil \notin Cell
BY TimeAssumption, ConfigAssumption, NilAssumption DEF IInv, TypeOK

LEMMA InitRefines == Init => Buckets!Init
<1> SUFFICES ASSUME Init PROVE Buckets!Init
  OBVIOUS
<1>1. ServerLevel = Capacity(GBurst)
  BY LevelOfNew, BurstTypes, ConfigAssumption DEF Init, ServerLevel
<1>2. Levels = [c \in Client |-> Capacity(CBurst)]
  BY DEF Init, ClientLevel, Levels
<1> QED
  BY <1>1, <1>2 DEF Init, InAllow, Stages, Buckets!Init

\* A request the server's bucket grants.
LEMMA PassRefines ==
    ASSUME IInv, NEW r \in Req, NEW c \in Client, PassGlobal(r, c)
    PROVE  Buckets!Pass(r, c)
<1> USE DEF callVars, sweepVars, ServerLevel, Levels, Stages
<1>1. ServerLevel >= TicksPerSecond /\ ServerLevel' = ServerLevel - TicksPerSecond
  BY InvTypes, LevelAfterTake, BurstTypes
  DEF PassGlobal, GlobalHasToken, CanTake
<1>2. Levels' = Levels
  BY DEF PassGlobal, ClientLevel
<1>3. Stages[r] = "idle" /\ Stages' = [Stages EXCEPT ![r] = "passed"]
  BY InvTypes DEF PassGlobal, InAllow, TypeOK
<1> QED
  BY <1>1, <1>2, <1>3 DEF PassGlobal, Buckets!Pass

\* A request it refuses.
LEMMA RefuseRefines ==
    ASSUME IInv, NEW r \in Req, NEW c \in Client, RefuseGlobal(r, c)
    PROVE  Buckets!RefuseAll(r, c)
<1> USE DEF callVars, sweepVars, ServerLevel, Levels, Stages
<1>1. ServerLevel < TicksPerSecond /\ ServerLevel' = ServerLevel
  <2>1. ServerLevel \in Int
    BY InvTypes, LevelType, BurstTypes
  <2> QED
    BY <2>1, TicksAssumption DEF RefuseGlobal, GlobalHasToken, CanTake
<1>2. Levels' = Levels
  BY DEF RefuseGlobal, ClientLevel
<1>3. Stages[r] = "idle" /\ Stages' = [Stages EXCEPT ![r] = "refused"]
  BY InvTypes DEF RefuseGlobal, InAllow, TypeOK
<1> QED
  BY <1>1, <1>2, <1>3 DEF RefuseGlobal, Buckets!RefuseAll

\* Finding an entry changes no level.
LEMMA FindRefines ==
    ASSUME IInv, NEW r \in Req, FindEntry(r)
    PROVE  UNCHANGED Buckets!vars
<1> USE DEF callVars, sweepVars, ServerLevel, Levels, Stages
<1>1. clients[ip[r]] \in Cell
  BY InvTypes DEF FindEntry, TypeOK, InAllow
<1>2. \A k \in Cell : heap'[k].bucket = heap[k].bucket
  BY InvTypes, <1>1 DEF FindEntry, TypeOK
<1>3. Levels' = Levels
  BY InvTypes, <1>2 DEF FindEntry, ClientLevel, TypeOK
<1>4. Stages' = Stages
  BY InvTypes DEF FindEntry, InAllow, TypeOK
<1> QED
  BY <1>3, <1>4 DEF FindEntry, Buckets!vars

\* A new entry is full, and so was the level of the client without one.
LEMMA CreateRefines ==
    ASSUME IInv, NEW r \in Req, CreateEntry(r)
    PROVE  UNCHANGED Buckets!vars
<1> USE DEF callVars, sweepVars, ServerLevel, Levels, Stages
<1>1. PICK k \in Cell \ Pointed :
         /\ heap' = [heap EXCEPT ![k] = NewClientLimiter]
         /\ clients' = [clients EXCEPT ![ip[r]] = k]
  BY DEF CreateEntry
<1>2. ip[r] \in Client /\ clients[ip[r]] = Nil /\ now' = now
  BY InvTypes DEF CreateEntry, TypeOK, InAllow
<1>3. ASSUME NEW c \in Client
      PROVE  ClientLevel(c)' = ClientLevel(c)
  <2>1. CASE c = ip[r]
    <3>1. clients'[c] = k /\ heap'[k].bucket = NewLimiter(CBurst, now)
      BY InvTypes, <1>1, <1>2, <2>1 DEF TypeOK, NewClientLimiter
    <3>2. ClientLevel(c)' = Capacity(CBurst)
      BY InvTypes, <1>1, <1>2, <3>1, LevelOfNew, BurstTypes DEF ClientLevel
    <3> QED
      BY <1>2, <2>1, <3>2 DEF ClientLevel
  <2>2. CASE c # ip[r]
    <3>1. clients'[c] = clients[c] /\ clients[c] # k
      BY InvTypes, <1>1, <1>2, <2>2 DEF TypeOK, Pointed, Mapped
    <3> QED
      BY InvTypes, <1>1, <1>2, <3>1 DEF ClientLevel, TypeOK
  <2> QED
    BY <2>1, <2>2
<1>4. Stages' = Stages
  BY InvTypes DEF CreateEntry, InAllow, TypeOK
<1> QED
  BY <1>3, <1>4 DEF CreateEntry, Buckets!vars

\* A request the client's bucket grants is paid by that client alone.
LEMMA AdmitRefines ==
    ASSUME IInv, NEW r \in Req, TakeGranted(r)
    PROVE  Buckets!Admit(r)
<1> USE DEF callVars, sweepVars, ServerLevel, Levels, Stages
<1> DEFINE k == held[r]
<1>1. /\ k \in Cell /\ ip[r] \in Client /\ clients[ip[r]] = k
      /\ \A c \in Client : clients[c] = k => c = ip[r]
      /\ heap[k].bucket \in Bucket
  BY InvTypes DEF TakeGranted, TypeOK, InAllow, IInv, HeldIsCurrent,
                  OwnLimiter
<1>2. UNCHANGED <<now, clients>>
  BY DEF TakeGranted
<1>3. /\ heap'[k].bucket = Take(heap[k].bucket, PerClientRate, CBurst, now)
      /\ \A j \in Cell \ {k} : heap'[j] = heap[j]
  BY InvTypes, <1>1 DEF TakeGranted, TypeOK
<1>4. ASSUME NEW c \in Client, c = ip[r]
      PROVE  /\ ClientLevel(c) >= TicksPerSecond
             /\ ClientLevel(c)' = ClientLevel(c) - TicksPerSecond
  <2>1. CanTake(heap[k].bucket, PerClientRate, CBurst, now)
    BY DEF TakeGranted, CellHasToken
  <2>2. ClientLevel(c) = Level(heap[k].bucket, PerClientRate, CBurst, now)
    BY InvTypes, <1>1, <1>4 DEF ClientLevel
  <2>3. ClientLevel(c)' =
          Level(Take(heap[k].bucket, PerClientRate, CBurst, now),
                PerClientRate, CBurst, now)
    <3>1. clients'[c] = k /\ now' = now /\ k # Nil
      BY InvTypes, <1>1, <1>2, <1>4
    <3> QED
      BY <3>1, <1>3 DEF ClientLevel
  <2> QED
    BY InvTypes, <1>1, <2>1, <2>2, <2>3, LevelAfterTake, BurstTypes DEF CanTake
<1>5. \A c \in Client \ {ip[r]} : ClientLevel(c)' = ClientLevel(c)
  BY InvTypes, <1>1, <1>2, <1>3 DEF ClientLevel, TypeOK
<1>6. Levels' = [Levels EXCEPT ![ip[r]] = @ - TicksPerSecond]
  <2>1. Levels' = [c \in Client |-> ClientLevel(c)']
    OBVIOUS
  <2>2. [Levels EXCEPT ![ip[r]] = @ - TicksPerSecond] =
          [c \in Client |-> IF c = ip[r] THEN ClientLevel(c) - TicksPerSecond
                                        ELSE ClientLevel(c)]
    BY <1>1
  <2>3. \A c \in Client :
          ClientLevel(c)' = IF c = ip[r] THEN ClientLevel(c) - TicksPerSecond
                                        ELSE ClientLevel(c)
    BY <1>4, <1>5, Zenon
  <2> QED
    BY <2>1, <2>2, <2>3, Zenon
<1>7. Stages[r] = "passed" /\ Stages' = [Stages EXCEPT ![r] = "allowed"]
  BY InvTypes DEF TakeGranted, InAllow, TypeOK
<1>8. Levels[ip[r]] >= TicksPerSecond
  BY <1>1, <1>4
<1> QED
  BY <1>6, <1>7, <1>8 DEF TakeGranted, Buckets!Admit

\* A request it refuses.
LEMMA RefuseClientRefines ==
    ASSUME IInv, NEW r \in Req, TakeRefused(r)
    PROVE  Buckets!RefuseClient(r)
<1> USE DEF callVars, sweepVars, ServerLevel, Levels, Stages
<1> DEFINE k == held[r]
<1>1. /\ k \in Cell /\ ip[r] \in Client /\ clients[ip[r]] = k
      /\ heap[k].bucket \in Bucket /\ heap[k].bucket.last <= now
  BY InvTypes DEF TakeRefused, TypeOK, InAllow, IInv, HeldIsCurrent,
                  EntriesAreOrdered
<1>2. Levels[ip[r]] = Level(heap[k].bucket, PerClientRate, CBurst, now)
  BY InvTypes, <1>1 DEF ClientLevel
<1>3. Levels[ip[r]] < TicksPerSecond
  BY InvTypes, <1>1, <1>2, LevelType, BurstTypes, TicksAssumption
  DEF TakeRefused, CellHasToken, CanTake
<1>4. Levels' = Levels
  BY DEF TakeRefused, ClientLevel
<1>5. Stages[r] = "passed" /\ Stages' = [Stages EXCEPT ![r] = "refused"]
  BY InvTypes DEF TakeRefused, InAllow, TypeOK
<1> QED
  BY <1>3, <1>4, <1>5 DEF TakeRefused, Buckets!RefuseClient

\* The answer.
LEMMA RespondRefines ==
    ASSUME IInv, NEW r \in Req, Respond(r)
    PROVE  Buckets!Respond(r)
<1> USE DEF callVars, sweepVars, ServerLevel, Levels, Stages
<1>1. Levels' = Levels
  BY DEF Respond, ClientLevel
<1>2. /\ Stages[r] \in {"allowed", "refused"}
      /\ Stages' = [Stages EXCEPT ![r] = "idle"]
  BY InvTypes DEF Respond, InAllow, TypeOK
<1> QED
  BY <1>1, <1>2 DEF Respond, Buckets!Respond

\* An eviction changes no level.
LEMMA EvictRefines ==
    ASSUME IInv, EvictExpired
    PROVE  UNCHANGED Buckets!vars
<1> USE DEF callVars, sweepVars, ServerLevel, Levels, Stages
<1>1. UNCHANGED <<now, global, pc, ip>>
  BY DEF EvictExpired
<1>2. ASSUME NEW c \in Client
      PROVE  ClientLevel(c)' = ClientLevel(c)
  <2>1. CASE clients[c] # Nil /\ Expired(clients[c])
    <3>1. clients'[c] = Nil
      BY <2>1 DEF EvictExpired
    <3> QED
      BY <2>1, <3>1, ExpiredIsFull DEF ClientLevel
  <2>2. CASE clients[c] = Nil
    BY <2>2 DEF EvictExpired, ClientLevel
  <2>3. CASE clients[c] # Nil /\ ~Expired(clients[c])
    <3>1. clients'[c] = clients[c]
      BY <2>3 DEF EvictExpired
    <3>2. heap'[clients[c]] = heap[clients[c]]
      BY InvTypes, <2>3, <3>1 DEF EvictExpired, Pointed, Mapped, TypeOK
    <3> QED
      BY <1>1, <3>1, <3>2 DEF ClientLevel
  <2> QED
    BY <2>1, <2>2, <2>3
<1>3. Levels' = Levels
  BY <1>2
<1> QED
  BY <1>1, <1>3 DEF InAllow, Buckets!vars

\* The other steps of the evictor change nothing.
LEMMA RestRefines ==
    ASSUME IInv, Stop \/ EvictorExit \/ UNCHANGED vars
    PROVE  UNCHANGED Buckets!vars
<1> USE DEF callVars, sweepVars, ServerLevel, Levels, Stages
<1>1. UNCHANGED <<now, global, clients, heap, pc, ip>>
  BY DEF Stop, EvictorExit, vars
<1> QED
  BY <1>1 DEF ClientLevel, InAllow, Buckets!vars

\* One tick refills every bucket.
LEMMA TickRefines ==
    ASSUME IInv, Tick
    PROVE  Buckets!Refill
<1> USE DEF callVars, sweepVars, ServerLevel, Levels, Stages
<1>1. now' = now + 1 /\ UNCHANGED <<global, clients, heap, pc, ip>>
  BY DEF Tick
<1>2. ServerLevel' = Buckets!Refilled(ServerLevel, GlobalRate, Capacity(GBurst))
  BY InvTypes, <1>1, LevelAdvances, BurstTypes
<1>3. ASSUME NEW c \in Client
      PROVE  ClientLevel(c)' =
               Buckets!Refilled(ClientLevel(c), PerClientRate, Capacity(CBurst))
  <2>1. CASE clients[c] = Nil
    BY <1>1, <2>1, InvTypes, BurstTypes DEF ClientLevel, Buckets!Refilled
  <2>2. CASE clients[c] # Nil
    <3>1. heap[clients[c]].bucket \in Bucket
      BY InvTypes, <2>2 DEF TypeOK
    <3>2. /\ ClientLevel(c) =
               Level(heap[clients[c]].bucket, PerClientRate, CBurst, now)
          /\ ClientLevel(c)' =
               Level(heap[clients[c]].bucket, PerClientRate, CBurst, now + 1)
      BY <1>1, <2>2 DEF ClientLevel
    <3> QED
      BY InvTypes, <3>1, <3>2, LevelAdvances, BurstTypes
  <2> QED
    BY <2>1, <2>2
<1>4. Levels' =
        [c \in Client |->
           Buckets!Refilled(Levels[c], PerClientRate, Capacity(CBurst))]
  BY <1>3
<1> QED
  BY <1>1, <1>2, <1>4 DEF InAllow, Buckets!Refill

LEMMA StepRefines ==
    IInv /\ [Next]_vars => [Buckets!Next]_(Buckets!vars)
<1> SUFFICES ASSUME IInv, [Next]_vars PROVE [Buckets!Next]_(Buckets!vars)
  OBVIOUS
<1> QED
  BY PassRefines, RefuseRefines, FindRefines, CreateRefines, AdmitRefines,
     RefuseClientRefines, RespondRefines, EvictRefines, RestRefines, TickRefines
  DEF Next, AllowStep, Buckets!Next, Buckets!RequestStep

\* Whatever the clients, the rates and the interleaving, the limiter behaves
\* as one permanent bucket for the server and one for every client
\* (ratelimit.go:52-128).
THEOREM LimiterRefinesBuckets == Spec => ImplementsPersistentBuckets
<1> QED
  BY Invariance, InitRefines, StepRefines, PTL
  DEF Spec, ImplementsPersistentBuckets, Buckets!Spec
=============================================================================
