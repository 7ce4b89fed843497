----------------------- MODULE AdmissionWindowProofs -----------------------
(***************************************************************************)
(* The budgets of every window, for every configuration.  What a client    *)
(* has left in its bucket and what it was granted since the window opened  *)
(* together never exceed a full bucket and what the bucket has gained: each *)
(* grant moves a token from the first to the second, each tick adds to     *)
(* both sides alike, and by the refinement nothing else changes a level.   *)
(* The bound on the map follows in the same way, over all windows at once. *)
(***************************************************************************)
EXTENDS AdmissionWindow, RateLimiterProofs, FiniteSetTheorems

WIInv ==
    /\ IInv
    /\ chosen \in BOOLEAN
    /\ from \in Nat /\ from <= now
    /\ passed \in Nat
    /\ admitted \in [Client -> Nat]
    /\ ~chosen => passed = 0 /\ \A c \in Client : admitted[c] = 0
    /\ passed * TicksPerSecond + ServerLevel
         <= Capacity(GBurst) + (now - from) * GlobalRate
    /\ \A c \in Client :
         admitted[c] * TicksPerSecond + Levels[c]
           <= Capacity(CBurst) + (now - from) * PerClientRate

\* Levels are credits between zero and the capacity.
LEMMA LevelsTypes ==
    ASSUME IInv
    PROVE  /\ ServerLevel \in 0..Capacity(GBurst)
           /\ Levels \in [Client -> 0..Capacity(CBurst)]
<1>1. ServerLevel \in 0..Capacity(GBurst)
  BY InvTypes, LevelType, BurstTypes DEF ServerLevel
<1>2. ASSUME NEW c \in Client
      PROVE  ClientLevel(c) \in 0..Capacity(CBurst)
  <2>1. CASE clients[c] = Nil
    BY <2>1, BurstTypes DEF ClientLevel
  <2>2. CASE clients[c] # Nil
    <3>1. /\ heap[clients[c]].bucket \in Bucket
          /\ heap[clients[c]].bucket.last <= now
      BY InvTypes, <2>2 DEF TypeOK, IInv, EntriesAreOrdered
    <3> QED
      BY InvTypes, <2>2, <3>1, LevelType, BurstTypes DEF ClientLevel
  <2> QED
    BY <2>1, <2>2
<1> QED
  BY <1>1, <1>2 DEF Levels

\* A window step is a step of the limiter.
LEMMA WindowStep == [WNext]_<<vars, windowVars>> => [Next]_vars
BY DEF WNext, OpenWindow, WPass, WAdmit, Uncounted, Next, AllowStep

\* One more grant costs one more time TicksPerSecond.
LEMMA OneMore ==
    ASSUME NEW n \in Nat
    PROVE  (n + 1) * TicksPerSecond = n * TicksPerSecond + TicksPerSecond
<1>1. n \in Int /\ TicksPerSecond \in Int
  BY TicksAssumption
<1> QED
  BY <1>1, OneMoreTick

LEMMA WInitInv == WInit => WIInv
<1> SUFFICES ASSUME WInit PROVE WIInv
  OBVIOUS
<1>1. IInv
  BY InitInv DEF WInit
<1>2. now = 0 /\ from = 0 /\ passed = 0 /\ admitted = [c \in Client |-> 0]
  BY DEF WInit, Init
<1>3. /\ (now - from) * GlobalRate = 0 /\ (now - from) * PerClientRate = 0
      /\ 0 * TicksPerSecond = 0
  BY <1>2, ConfigAssumption, TicksAssumption
<1>4. \A c \in Client : Levels[c] \in 0..Capacity(CBurst)
  BY <1>1, LevelsTypes
<1>5. ServerLevel \in 0..Capacity(GBurst)
  BY <1>1, LevelsTypes
<1>6. passed * TicksPerSecond + ServerLevel
        <= Capacity(GBurst) + (now - from) * GlobalRate
  BY <1>2, <1>3, <1>5, BurstTypes
<1>7. \A c \in Client : admitted[c] * TicksPerSecond + Levels[c]
        <= Capacity(CBurst) + (now - from) * PerClientRate
  BY <1>2, <1>3, <1>4, BurstTypes
<1>8. chosen \in BOOLEAN
  BY DEF WInit
<1> QED
  BY <1>1, <1>2, <1>6, <1>7, <1>8 DEF WIInv

\* A step that leaves the clock, the levels and the observer alone.
LEMMA QuietStep ==
    ASSUME WIInv, IInv', now' = now, UNCHANGED windowVars,
           ServerLevel' = ServerLevel, Levels' = Levels
    PROVE  WIInv'
BY DEF WIInv, windowVars

LEMMA WNextInv == WIInv /\ [WNext]_<<vars, windowVars>> => WIInv'
<1> SUFFICES ASSUME WIInv, [WNext]_<<vars, windowVars>> PROVE WIInv'
  OBVIOUS
<1>0. IInv /\ IInv'
  BY WindowStep, NextInv DEF WIInv
<1>a. /\ ServerLevel \in 0..Capacity(GBurst)
      /\ Levels \in [Client -> 0..Capacity(CBurst)]
      /\ Capacity(GBurst) \in Nat /\ Capacity(CBurst) \in Nat
      /\ TicksPerSecond \in Nat \ {0}
      /\ now \in Nat /\ from \in Nat
      /\ GlobalRate \in Nat /\ PerClientRate \in Nat
  BY <1>0, LevelsTypes, BurstTypes, TicksAssumption, InvTypes DEF WIInv
<1>b. /\ (now - from) * GlobalRate \in Int
      /\ (now - from) * PerClientRate \in Int
  BY <1>a
<1>c. /\ passed * TicksPerSecond \in Nat
      /\ \A c \in Client : admitted[c] * TicksPerSecond \in Nat
  BY <1>a DEF WIInv
<1>1. CASE OpenWindow
  <2>1. /\ UNCHANGED vars /\ from' = now /\ chosen' = TRUE
        /\ passed' = 0 /\ admitted' = admitted
        /\ \A c \in Client : admitted[c] = 0
    BY <1>1 DEF OpenWindow, WIInv
  <2>2. ServerLevel' = ServerLevel /\ Levels' = Levels /\ now' = now
    BY <2>1 DEF vars, ServerLevel, Levels, ClientLevel
  <2>3. /\ (now' - from') * GlobalRate = 0
        /\ (now' - from') * PerClientRate = 0
        /\ 0 * TicksPerSecond = 0
    BY <1>a, <2>1, <2>2
  <2> QED
    BY <1>0, <1>a, <2>1, <2>2, <2>3 DEF WIInv
<1>2. ASSUME NEW r \in Req, NEW c \in Client, WPass(r, c)
      PROVE  WIInv'
  <2>1. /\ ServerLevel' = ServerLevel - TicksPerSecond
        /\ Levels' = Levels /\ now' = now
    BY <1>0, <1>2, PassRefines DEF WPass, PassGlobal, Buckets!Pass
  <2>2. /\ UNCHANGED <<chosen, from, admitted>>
        /\ passed' = passed + One
    BY <1>2 DEF WPass
  <2>3. /\ passed' \in Nat
        /\ passed' * TicksPerSecond <= passed * TicksPerSecond + TicksPerSecond
        /\ passed' * TicksPerSecond \in Int
        /\ ~chosen => passed' = 0
    <3>1. CASE chosen
      BY <1>a, <1>c, <2>2, <3>1, OneMore DEF One, WIInv
    <3>2. CASE ~chosen
      BY <1>a, <1>c, <2>2, <3>2 DEF One, WIInv
    <3> QED
      BY <3>1, <3>2
  <2>4. passed' * TicksPerSecond + ServerLevel'
          <= Capacity(GBurst) + (now' - from') * GlobalRate
    BY <1>a, <1>b, <1>c, <2>1, <2>2, <2>3 DEF WIInv
  <2> QED
    BY <1>0, <2>1, <2>2, <2>3, <2>4 DEF WIInv
<1>3. ASSUME NEW r \in Req, WAdmit(r)
      PROVE  WIInv'
  <2>1. /\ Levels' = [Levels EXCEPT ![ip[r]] = @ - TicksPerSecond]
        /\ ServerLevel' = ServerLevel /\ now' = now
        /\ ip[r] \in Client
    BY <1>0, <1>3, AdmitRefines
    DEF WAdmit, TakeGranted, Buckets!Admit, IInv, TypeOK, InAllow
  <2>2. /\ UNCHANGED <<chosen, from, passed>>
        /\ admitted' = [admitted EXCEPT ![ip[r]] = @ + One]
    BY <1>3 DEF WAdmit
  <2>3. ASSUME NEW c \in Client
        PROVE  /\ admitted'[c] \in Nat
               /\ ~chosen => admitted'[c] = 0
               /\ admitted'[c] * TicksPerSecond + Levels'[c]
                    <= Capacity(CBurst) + (now' - from') * PerClientRate
    <3>1. CASE c # ip[r] \/ ~chosen
      <4>1. admitted'[c] = admitted[c] /\ admitted[c] \in Nat
        <5>1. CASE c # ip[r]
          BY <2>2, <5>1 DEF WIInv
        <5>2. CASE ~chosen
          <6>1. One = 0
            BY <5>2 DEF One
          <6> QED
            BY <2>2, <6>1 DEF WIInv
        <5> QED
          BY <3>1, <5>1, <5>2
      <4>2. Levels'[c] <= Levels[c] /\ Levels'[c] \in Int
        BY <1>a, <2>1
      <4> QED
        BY <1>a, <1>b, <1>c, <2>1, <2>2, <4>1, <4>2 DEF WIInv
    <3>2. CASE c = ip[r] /\ chosen
      <4>1. /\ admitted'[c] = admitted[c] + 1 /\ admitted[c] \in Nat
            /\ Levels'[c] = Levels[c] - TicksPerSecond
        BY <1>a, <2>1, <2>2, <3>2 DEF One, WIInv
      <4>2. admitted'[c] * TicksPerSecond
              = admitted[c] * TicksPerSecond + TicksPerSecond
        BY <4>1, OneMore
      <4>3. /\ admitted[c] * TicksPerSecond + Levels[c]
                 <= Capacity(CBurst) + (now - from) * PerClientRate
            /\ admitted[c] * TicksPerSecond \in Nat /\ Levels[c] \in Int
        BY <1>a, <1>c DEF WIInv
      <4>4. admitted'[c] * TicksPerSecond + Levels'[c]
              <= Capacity(CBurst) + (now' - from') * PerClientRate
        BY <1>a, <1>b, <2>1, <2>2, <4>1, <4>2, <4>3
      <4> QED
        BY <3>2, <4>1, <4>4
    <3> QED
      BY <3>1, <3>2
  <2>4. admitted' \in [Client -> Nat]
    BY <2>2, <2>3 DEF WIInv
  <2> QED
    BY <1>0, <2>1, <2>2, <2>3, <2>4 DEF WIInv
<1>4. ASSUME NEW r \in Req, Uncounted(r), UNCHANGED windowVars
      PROVE  WIInv'
  <2>1. now' = now
    BY <1>4 DEF Uncounted, RefuseGlobal, FindEntry, CreateEntry, TakeRefused,
                Respond
  <2>2. ServerLevel' = ServerLevel /\ Levels' = Levels
    BY <1>0, <1>4, RefuseRefines, FindRefines, CreateRefines,
       RefuseClientRefines, RespondRefines
    DEF Uncounted, Buckets!RefuseAll, Buckets!vars, Buckets!RefuseClient,
        Buckets!Respond
  <2> QED
    BY <1>0, <1>4, <2>1, <2>2, QuietStep
<1>5. CASE (EvictExpired \/ Stop \/ EvictorExit) /\ UNCHANGED windowVars
  <2>1. now' = now
    BY <1>5 DEF EvictExpired, Stop, EvictorExit
  <2>2. ServerLevel' = ServerLevel /\ Levels' = Levels
    BY <1>0, <1>5, EvictRefines, RestRefines DEF Buckets!vars
  <2> QED
    BY <1>0, <1>5, <2>1, <2>2, QuietStep
<1>6. CASE Tick /\ UNCHANGED windowVars
  <2>1. /\ ServerLevel' = Buckets!Refilled(ServerLevel, GlobalRate, Capacity(GBurst))
        /\ \A c \in Client : Levels'[c] =
             Buckets!Refilled(Levels[c], PerClientRate, Capacity(CBurst))
    BY <1>0, <1>6, TickRefines DEF Buckets!Refill
  <2>2. /\ now' = now + 1 /\ UNCHANGED <<chosen, from, passed, admitted>>
    BY <1>6 DEF Tick, windowVars
  <2>3. /\ ServerLevel' <= ServerLevel + GlobalRate /\ ServerLevel' \in Int
        /\ \A c \in Client : /\ Levels'[c] <= Levels[c] + PerClientRate
                             /\ Levels'[c] \in Int /\ Levels[c] \in Int
    BY <1>a, <2>1 DEF Buckets!Refilled
  <2>4. /\ (now' - from') * GlobalRate = (now - from) * GlobalRate + GlobalRate
        /\ (now' - from') * PerClientRate
             = (now - from) * PerClientRate + PerClientRate
    <3>1. now' - from' = (now - from) + 1 /\ now - from \in Int
      BY <1>a, <2>2
    <3>2. GlobalRate \in Int /\ PerClientRate \in Int
      BY <1>a
    <3> QED
      BY <3>1, <3>2, OneMoreTick
  <2>5. passed' * TicksPerSecond + ServerLevel'
          <= Capacity(GBurst) + (now' - from') * GlobalRate
    BY <1>a, <1>b, <1>c, <2>2, <2>3, <2>4 DEF WIInv
  <2>6. \A c \in Client : admitted'[c] * TicksPerSecond + Levels'[c]
          <= Capacity(CBurst) + (now' - from') * PerClientRate
    BY <1>a, <1>b, <1>c, <2>2, <2>3, <2>4 DEF WIInv
  <2> QED
    BY <1>0, <1>a, <2>2, <2>5, <2>6 DEF WIInv
<1>7. CASE UNCHANGED <<vars, windowVars>>
  <2>1. now' = now /\ ServerLevel' = ServerLevel /\ Levels' = Levels
    BY <1>7 DEF vars, ServerLevel, Levels, ClientLevel
  <2> QED
    BY <1>0, <1>7, <2>1, QuietStep
<1> QED
  BY <1>1, <1>2, <1>3, <1>4, <1>5, <1>6, <1>7 DEF WNext

LEMMA WInvariance == WSpec => []WIInv
<1> QED
  BY WInitInv, WNextInv, PTL DEF WSpec

\* The server admits no more, in any window, than its burst and its rate
\* allow (ratelimit.go:76).
THEOREM ServerStaysInBudget == WSpec => []ServerBudget
<1>1. WIInv => ServerBudget
  <2> SUFFICES ASSUME WIInv PROVE ServerBudget
    OBVIOUS
  <2>1. /\ ServerLevel \in Nat /\ passed * TicksPerSecond \in Int
        /\ Capacity(GBurst) + (now - from) * GlobalRate \in Int
    BY LevelsTypes, InvTypes, BurstTypes, TicksAssumption DEF WIInv
  <2> QED
    BY <2>1 DEF WIInv, ServerBudget
<1> QED
  BY WInvariance, <1>1, PTL

\* Nor does any client get more than its own, across evictions of its limiter
\* and races between its requests (ratelimit.go:80-111).
THEOREM ClientsStayInBudget == WSpec => []ClientBudget
<1>1. WIInv => ClientBudget
  <2> SUFFICES ASSUME WIInv, NEW c \in Client
               PROVE  admitted[c] * TicksPerSecond
                        <= Capacity(CBurst) + (now - from) * PerClientRate
    BY DEF ClientBudget
  <2>1. /\ Levels[c] \in Nat /\ admitted[c] * TicksPerSecond \in Int
        /\ Capacity(CBurst) + (now - from) * PerClientRate \in Int
    BY LevelsTypes, InvTypes, BurstTypes, TicksAssumption DEF WIInv
  <2> QED
    BY <2>1 DEF WIInv
<1> QED
  BY WInvariance, <1>1, PTL

-----------------------------------------------------------------------------
\* Calls the server's bucket let in at t or later that have yet to look their
\* client up, and clients whose last call was surely let in at t or later.
Lookups == {r \in Req : pc[r] = "lookup"}
Entering(t) == {r \in Req : pc[r] = "lookup" /\ calledAt[r] >= t}
Entered(t) == {c \in Mapped : heap[clients[c]].lastSeen >= t + MaxPause}

Grants(t) == Cardinality(Entering(t)) + Cardinality(Entered(t))

\* Each of them cost a token: together with what is left in the bucket they
\* are no more than it held and gained since t.
MapInv ==
    /\ IsFiniteSet(Mapped) /\ IsFiniteSet(Lookups)
    /\ \A t \in Int : t <= now =>
          Grants(t) * TicksPerSecond + ServerLevel
            <= Capacity(GBurst) + (now - t) * GlobalRate

LEMMA GrantsType ==
    ASSUME IsFiniteSet(Mapped), IsFiniteSet(Lookups), NEW t \in Int
    PROVE  /\ IsFiniteSet(Entering(t)) /\ IsFiniteSet(Entered(t))
           /\ Cardinality(Entering(t)) \in Nat /\ Cardinality(Entered(t)) \in Nat
           /\ Grants(t) \in Nat
<1>1. Entering(t) \in SUBSET Lookups /\ Entered(t) \in SUBSET Mapped
  BY DEF Entering, Entered, Lookups
<1>2. IsFiniteSet(Entering(t)) /\ IsFiniteSet(Entered(t))
  BY <1>1, FS_Subset
<1> QED
  BY <1>2, FS_CardinalityType DEF Grants

\* A step from one such state to another that spends no token from the server's
\* bucket and after which no more grants are counted.
LEMMA NoMoreGrants ==
    ASSUME IInv, MapInv, now' = now, ServerLevel' = ServerLevel,
           IsFiniteSet(Mapped'), IsFiniteSet(Lookups'),
           \A t \in Int : t <= now =>
              Grants(t)' \in Nat /\ Grants(t)' <= Grants(t)
    PROVE  MapInv'
<1> SUFFICES ASSUME NEW t \in Int, t <= now
             PROVE  Grants(t)' * TicksPerSecond + ServerLevel
                      <= Capacity(GBurst) + (now - t) * GlobalRate
  BY DEF MapInv
<1>1. Grants(t) \in Nat /\ Grants(t)' \in Nat /\ Grants(t)' <= Grants(t)
  BY GrantsType DEF MapInv
<1>2. Grants(t)' * TicksPerSecond <= Grants(t) * TicksPerSecond
  BY <1>1, MonotoneProduct, TicksAssumption
<1>3. /\ Grants(t)' * TicksPerSecond \in Int /\ Grants(t) * TicksPerSecond \in Int
      /\ ServerLevel \in Int /\ Capacity(GBurst) \in Int
      /\ (now - t) * GlobalRate \in Int
  BY <1>1, TicksAssumption, LevelType, InvTypes, BurstTypes DEF ServerLevel
<1>4. Grants(t) * TicksPerSecond + ServerLevel
        <= Capacity(GBurst) + (now - t) * GlobalRate
  BY DEF MapInv
<1> QED
  BY <1>2, <1>3, <1>4

\* A call leaves the lookup, and its client's entry has been seen now.
LEMMA SeenOnce ==
    ASSUME IInv, MapInv, NEW r \in Req, pc[r] = "lookup", ip[r] \in Client,
           now' = now, ServerLevel' = ServerLevel,
           Mapped' = Mapped \cup {ip[r]}, Lookups' = Lookups \ {r},
           \A t \in Int : Entering(t)' = Entering(t) \ {r},
           \A t \in Int : Entered(t)' =
              IF now >= t + MaxPause THEN Entered(t) \cup {ip[r]} ELSE Entered(t)
    PROVE  MapInv'
<1>1. IsFiniteSet(Mapped') /\ IsFiniteSet(Lookups')
  BY FS_AddElement, FS_RemoveElement DEF MapInv
<1>2. ASSUME NEW t \in Int, t <= now
      PROVE  Grants(t)' \in Nat /\ Grants(t)' <= Grants(t)
  <2>1. /\ IsFiniteSet(Entering(t)) /\ IsFiniteSet(Entered(t))
        /\ Cardinality(Entering(t)) \in Nat /\ Cardinality(Entered(t)) \in Nat
    BY GrantsType DEF MapInv
  <2>2. /\ Cardinality(Entering(t)') \in Nat
        /\ Cardinality(Entering(t)') = IF r \in Entering(t)
                                      THEN Cardinality(Entering(t)) - 1
                                      ELSE Cardinality(Entering(t))
    BY <2>1, FS_RemoveElement, FS_CardinalityType
  <2>3. CASE now >= t + MaxPause
    <3>1. r \in Entering(t)
      <4>1. calledAt[r] \in Nat /\ now - calledAt[r] <= MaxPause
        BY DEF IInv, TypeOK, CallsAreRecent, InAllow
      <4> QED
        BY <2>3, <4>1, InvTypes, TimeAssumption DEF Entering
    <3>2. /\ Cardinality(Entered(t)') \in Nat
          /\ Cardinality(Entered(t)') <= Cardinality(Entered(t)) + 1
      <4>1. Entered(t)' = Entered(t) \cup {ip[r]}
        BY <2>3
      <4>2. /\ IsFiniteSet(Entered(t) \cup {ip[r]})
            /\ \/ Cardinality(Entered(t) \cup {ip[r]}) = Cardinality(Entered(t))
               \/ Cardinality(Entered(t) \cup {ip[r]}) = Cardinality(Entered(t)) + 1
        BY <2>1, FS_AddElement
      <4> QED
        BY <2>1, <4>1, <4>2
    <3> QED
      BY <2>1, <2>2, <3>1, <3>2 DEF Grants
  <2>4. CASE ~(now >= t + MaxPause)
    BY <2>1, <2>2, <2>4 DEF Grants
  <2> QED
    BY <2>3, <2>4
<1> QED
  BY <1>1, <1>2, NoMoreGrants

\* Nothing is seen, and no call comes to its lookup.
LEMMA NothingSeen ==
    ASSUME IInv, MapInv, now' = now, ServerLevel' = ServerLevel,
           Mapped' \in SUBSET Mapped, Lookups' \in SUBSET Lookups,
           \A t \in Int : /\ Entering(t)' \in SUBSET Entering(t)
                          /\ Entered(t)' \in SUBSET Entered(t)
    PROVE  MapInv'
<1>1. IsFiniteSet(Mapped') /\ IsFiniteSet(Lookups')
  BY FS_Subset DEF MapInv
<1>2. ASSUME NEW t \in Int, t <= now
      PROVE  Grants(t)' \in Nat /\ Grants(t)' <= Grants(t)
  <2>1. /\ IsFiniteSet(Entering(t)) /\ IsFiniteSet(Entered(t))
        /\ Cardinality(Entering(t)) \in Nat /\ Cardinality(Entered(t)) \in Nat
    BY GrantsType DEF MapInv
  <2>2. /\ IsFiniteSet(Entering(t)') /\ IsFiniteSet(Entered(t)')
        /\ Cardinality(Entering(t)') <= Cardinality(Entering(t))
        /\ Cardinality(Entered(t)') <= Cardinality(Entered(t))
    BY <2>1, FS_Subset
  <2>3. Cardinality(Entering(t)') \in Nat /\ Cardinality(Entered(t)') \in Nat
    BY <2>2, FS_CardinalityType
  <2> QED
    BY <2>1, <2>2, <2>3 DEF Grants
<1> QED
  BY <1>1, <1>2, NoMoreGrants

-----------------------------------------------------------------------------
LEMMA MapInit == Init => MapInv
<1> SUFFICES ASSUME Init PROVE MapInv
  OBVIOUS
<1>1. Mapped = {} /\ Lookups = {}
  BY DEF Init, Mapped, Lookups
<1>2. IsFiniteSet(Mapped) /\ IsFiniteSet(Lookups)
  BY <1>1, FS_EmptySet
<1>3. ASSUME NEW t \in Int, t <= now
      PROVE  Grants(t) * TicksPerSecond + ServerLevel
               <= Capacity(GBurst) + (now - t) * GlobalRate
  <2>1. Entering(t) = {} /\ Entered(t) = {}
    BY <1>1 DEF Entering, Entered, Lookups
  <2>2. Grants(t) = 0
    BY <2>1, FS_EmptySet DEF Grants
  <2>3. ServerLevel \in 0 .. Capacity(GBurst)
    BY InitInv, InvTypes, LevelType, BurstTypes DEF ServerLevel
  <2>4. (now - t) * GlobalRate \in Nat
    BY <1>3, InitInv, InvTypes
  <2> QED
    BY <2>2, <2>3, <2>4, BurstTypes, TicksAssumption
<1> QED
  BY <1>2, <1>3 DEF MapInv

LEMMA MapNext == IInv /\ MapInv /\ [Next]_vars => MapInv'
<1> SUFFICES ASSUME IInv, MapInv, [Next]_vars PROVE MapInv'
  OBVIOUS
<1> USE DEF callVars, sweepVars
<1>0. IInv'
  BY NextInv
<1>1. ASSUME NEW r \in Req, NEW c \in Client, PassGlobal(r, c)
      PROVE  MapInv'
  <2>1. ServerLevel' = ServerLevel - TicksPerSecond
    BY <1>1, PassRefines DEF Buckets!Pass
  <2>2. /\ UNCHANGED <<now, clients, heap>> /\ now \in Nat
        /\ pc' = [pc EXCEPT ![r] = "lookup"] /\ pc[r] = "idle"
        /\ calledAt' = [calledAt EXCEPT ![r] = now]
    BY <1>1, InvTypes DEF PassGlobal
  <2>3. Mapped' = Mapped /\ Lookups' = Lookups \cup {r}
    BY <2>2 DEF Mapped, Lookups, IInv, TypeOK
  <2>4. IsFiniteSet(Mapped') /\ IsFiniteSet(Lookups')
    BY <2>3, FS_AddElement DEF MapInv
  <2>5. ASSUME NEW t \in Int, t <= now
        PROVE  Grants(t)' * TicksPerSecond + ServerLevel'
                 <= Capacity(GBurst) + (now - t) * GlobalRate
    <3>1. Entering(t)' = Entering(t) \cup {r} /\ r \notin Entering(t)
      BY <2>2, <2>5 DEF Entering, IInv, TypeOK
    <3>2. Entered(t)' = Entered(t)
      BY <2>2, <2>3 DEF Entered
    <3>3. Grants(t) \in Nat /\ Grants(t)' = Grants(t) + 1
      <4>1. /\ IsFiniteSet(Entering(t)) /\ Grants(t) \in Nat
            /\ Cardinality(Entering(t)) \in Nat /\ Cardinality(Entered(t)) \in Nat
        BY GrantsType DEF MapInv
      <4>2. Cardinality(Entering(t)') = Cardinality(Entering(t)) + 1
        BY <3>1, <4>1, FS_AddElement
      <4> QED
        BY <3>2, <4>1, <4>2 DEF Grants
    <3>4. Grants(t)' * TicksPerSecond = Grants(t) * TicksPerSecond + TicksPerSecond
      BY <3>3, OneMoreTick, TicksAssumption
    <3>5. /\ Grants(t) * TicksPerSecond \in Int /\ ServerLevel \in Int
          /\ Capacity(GBurst) \in Int /\ (now - t) * GlobalRate \in Int
          /\ TicksPerSecond \in Int
      BY <3>3, TicksAssumption, LevelType, InvTypes, BurstTypes DEF ServerLevel
    <3>6. Grants(t) * TicksPerSecond + ServerLevel
            <= Capacity(GBurst) + (now - t) * GlobalRate
      BY <2>5 DEF MapInv
    <3> QED
      BY <2>1, <3>4, <3>5, <3>6
  <2> QED
    BY <2>2, <2>4, <2>5 DEF MapInv
<1>2. ASSUME NEW r \in Req, FindEntry(r) \/ CreateEntry(r)
      PROVE  MapInv'
  <2>1. ServerLevel' = ServerLevel /\ now' = now /\ now \in Nat
    BY <1>2, FindRefines, CreateRefines, InvTypes
    DEF FindEntry, CreateEntry, Buckets!vars
  <2>2. /\ pc[r] = "lookup" /\ ip[r] \in Client
        /\ pc' = [pc EXCEPT ![r] = "take"] /\ calledAt' = calledAt
    BY <1>2 DEF FindEntry, CreateEntry, IInv, TypeOK, InAllow
  <2>3. Lookups' = Lookups \ {r}
    BY <2>2 DEF Lookups, IInv, TypeOK
  <2>4. \A t \in Int : Entering(t)' = Entering(t) \ {r}
    BY <2>2 DEF Entering, IInv, TypeOK
  <2>5. PICK k \in Cell : /\ k # Nil
                          /\ clients' = [clients EXCEPT ![ip[r]] = k]
                          /\ heap'[k].lastSeen = now
                          /\ \A c \in Mapped \ {ip[r]} : clients[c] # k
                          /\ \A j \in Cell \ {k} : heap'[j] = heap[j]
    <3>1. CASE FindEntry(r)
      <4> DEFINE k == clients[ip[r]]
      <4>1. k \in Cell /\ k # Nil
        BY <2>2, <3>1 DEF FindEntry, IInv, TypeOK
      <4>2. clients' = [clients EXCEPT ![ip[r]] = k]
        BY <2>2, <3>1 DEF FindEntry, IInv, TypeOK
      <4>3. heap'[k].lastSeen = now /\ \A j \in Cell \ {k} : heap'[j] = heap[j]
        BY <3>1, <4>1 DEF FindEntry, IInv, TypeOK
      <4>4. \A c \in Mapped \ {ip[r]} : clients[c] # k
        BY <2>2, <4>1 DEF IInv, OwnLimiter, Mapped
      <4> QED
        BY <4>1, <4>2, <4>3, <4>4
    <3>2. CASE CreateEntry(r)
      <4>1. PICK k \in Cell \ Pointed :
               /\ heap' = [heap EXCEPT ![k] = NewClientLimiter]
               /\ clients' = [clients EXCEPT ![ip[r]] = k]
        BY <3>2 DEF CreateEntry
      <4>2. k # Nil
        BY NilAssumption
      <4>3. heap'[k].lastSeen = now /\ \A j \in Cell \ {k} : heap'[j] = heap[j]
        BY <4>1 DEF NewClientLimiter, IInv, TypeOK
      <4>4. \A c \in Mapped \ {ip[r]} : clients[c] # k
        BY DEF Pointed
      <4> QED
        BY <4>1, <4>2, <4>3, <4>4
    <3> QED
      BY <1>2, <3>1, <3>2
  <2>6. Mapped' = Mapped \cup {ip[r]}
    BY <2>2, <2>5 DEF Mapped, IInv, TypeOK
  <2>7. \A c \in Mapped \ {ip[r]} :
           clients'[c] = clients[c] /\ heap'[clients[c]] = heap[clients[c]]
    BY <2>2, <2>5 DEF Mapped, IInv, TypeOK
  <2>8. clients'[ip[r]] = k
    BY <2>2, <2>5 DEF IInv, TypeOK
  <2>9. ASSUME NEW t \in Int
        PROVE  Entered(t)' =
                 IF now >= t + MaxPause THEN Entered(t) \cup {ip[r]} ELSE Entered(t)
    <3>1. \A c \in Mapped \ {ip[r]} : c \in Entered(t)' <=> c \in Entered(t)
      BY <2>6, <2>7 DEF Entered
    <3>2. ip[r] \in Entered(t)' <=> now >= t + MaxPause
      BY <2>5, <2>6, <2>8 DEF Entered
    <3>3. ip[r] \in Entered(t) => now >= t + MaxPause
      <4> SUFFICES ASSUME ip[r] \in Entered(t) PROVE now >= t + MaxPause
        OBVIOUS
      <4>1. /\ heap[clients[ip[r]]].lastSeen >= t + MaxPause
            /\ clients[ip[r]] # Nil /\ clients[ip[r]] \in Cell
        BY <2>2 DEF Entered, Mapped, IInv, TypeOK
      <4>2. /\ heap[clients[ip[r]]].lastSeen <= now
            /\ heap[clients[ip[r]]].lastSeen \in Nat
        BY <2>2, <4>1 DEF IInv, EntriesAreOrdered, TypeOK
      <4> QED
        BY <2>1, <4>1, <4>2, TimeAssumption
    <3>4. Entered(t) \in SUBSET Mapped /\ Entered(t)' \in SUBSET (Mapped \cup {ip[r]})
      BY <2>6 DEF Entered
    <3>5. CASE now >= t + MaxPause
      <4>1. Entered(t)' = Entered(t) \cup {ip[r]}
        BY <3>1, <3>2, <3>4, <3>5
      <4> QED
        BY <3>5, <4>1
    <3>6. CASE ~(now >= t + MaxPause)
      <4>1. Entered(t)' = Entered(t)
        BY <3>1, <3>2, <3>3, <3>4, <3>6
      <4> QED
        BY <3>6, <4>1
    <3> QED
      BY <3>5, <3>6
  <2>10. \A t \in Int : Entered(t)' =
            IF now >= t + MaxPause THEN Entered(t) \cup {ip[r]} ELSE Entered(t)
    BY <2>9
  <2> QED
    BY <2>1, <2>2, <2>3, <2>4, <2>6, <2>10, SeenOnce, Zenon
<1>3. ASSUME NEW r \in Req,
             \/ \E c \in Client : RefuseGlobal(r, c)
             \/ TakeGranted(r) \/ TakeRefused(r) \/ Respond(r)
      PROVE  MapInv'
  <2>1. ServerLevel' = ServerLevel /\ now' = now
    BY <1>3, RefuseRefines, AdmitRefines, RefuseClientRefines, RespondRefines
    DEF RefuseGlobal, TakeGranted, TakeRefused, Respond, Buckets!RefuseAll,
        Buckets!Admit, Buckets!RefuseClient, Buckets!Respond
  <2>2. /\ clients' = clients
        /\ \A q \in Req : pc'[q] = "lookup" =>
              pc[q] = "lookup" /\ calledAt'[q] = calledAt[q]
    BY <1>3 DEF RefuseGlobal, TakeGranted, TakeRefused, Respond, IInv, TypeOK
  <2>3. \A k \in Cell : heap'[k].lastSeen = heap[k].lastSeen
    BY <1>3 DEF RefuseGlobal, TakeGranted, TakeRefused, Respond, IInv, TypeOK
  <2>4. Mapped' = Mapped /\ Lookups' \in SUBSET Lookups
    BY <2>2 DEF Mapped, Lookups
  <2>5. ASSUME NEW t \in Int
        PROVE  /\ Entering(t)' \in SUBSET Entering(t)
               /\ Entered(t)' \in SUBSET Entered(t)
    BY <2>2, <2>3, <2>4 DEF Entering, Entered, Mapped, IInv, TypeOK
  <2> QED
    BY <2>1, <2>4, <2>5, NothingSeen
<1>4. CASE EvictExpired
  <2>1. ServerLevel' = ServerLevel /\ UNCHANGED <<now, pc, calledAt>>
    BY <1>4, EvictRefines DEF EvictExpired, Buckets!vars
  <2>2. \A c \in Mapped' : c \in Mapped /\ clients'[c] = clients[c]
    BY <1>4 DEF EvictExpired, Mapped
  <2>3. \A c \in Mapped' : heap'[clients[c]] = heap[clients[c]]
    <3> SUFFICES ASSUME NEW c \in Mapped' PROVE heap'[clients[c]] = heap[clients[c]]
      OBVIOUS
    <3>1. clients[c] \in Cell /\ clients[c] \in Pointed'
      BY <2>2 DEF Pointed, Mapped, IInv, TypeOK
    <3> QED
      BY <1>4, <3>1 DEF EvictExpired
  <2>4. Mapped' \in SUBSET Mapped /\ Lookups' = Lookups
    BY <2>1, <2>2 DEF Lookups
  <2>5. ASSUME NEW t \in Int
        PROVE  /\ Entering(t)' \in SUBSET Entering(t)
               /\ Entered(t)' \in SUBSET Entered(t)
    BY <2>1, <2>2, <2>3 DEF Entering, Entered
  <2> QED
    BY <2>1, <2>4, <2>5, NothingSeen
<1>5. CASE Stop \/ EvictorExit \/ UNCHANGED vars
  <2>1. UNCHANGED <<now, global, clients, heap, pc, calledAt>>
    BY <1>5 DEF Stop, EvictorExit, vars
  <2> QED
    BY <2>1 DEF MapInv, Grants, Entering, Entered, Mapped, Lookups, ServerLevel
<1>6. CASE Tick
  <2>1. /\ now' = now + 1 /\ UNCHANGED <<clients, heap, pc, calledAt>>
        /\ ServerLevel' = Buckets!Refilled(ServerLevel, GlobalRate, Capacity(GBurst))
    BY <1>6, TickRefines DEF Tick, Buckets!Refill
  <2>2. Mapped' = Mapped /\ Lookups' = Lookups
    BY <2>1 DEF Mapped, Lookups
  <2>3. \A t \in Int : Entering(t)' = Entering(t) /\ Entered(t)' = Entered(t)
    BY <2>1 DEF Entering, Entered, Mapped
  <2>4. /\ ServerLevel \in Int /\ Capacity(GBurst) \in Nat /\ now \in Nat
        /\ GlobalRate \in Nat
        /\ ServerLevel' <= ServerLevel + GlobalRate
        /\ ServerLevel' <= Capacity(GBurst) /\ ServerLevel' \in Int
    <3>1. /\ ServerLevel \in 0 .. Capacity(GBurst) /\ Capacity(GBurst) \in Nat
          /\ now \in Nat /\ GlobalRate \in Nat
      BY LevelType, InvTypes, BurstTypes DEF ServerLevel
    <3> QED
      BY <2>1, <3>1 DEF Buckets!Refilled
  <2>5. ASSUME NEW t \in Int, t <= now + 1
        PROVE  Grants(t)' * TicksPerSecond + ServerLevel'
                 <= Capacity(GBurst) + (now' - t) * GlobalRate
    <3>1. Grants(t)' = Grants(t) /\ Grants(t) \in Nat
      BY <2>3, GrantsType DEF Grants, MapInv
    <3>2. CASE t <= now
      <4>1. (now' - t) * GlobalRate = (now - t) * GlobalRate + GlobalRate
        <5>1. now' - t = (now - t) + 1 /\ now - t \in Int /\ GlobalRate \in Int
          BY <2>1, <2>4
        <5> QED
          BY <5>1, OneMoreTick
      <4>2. Grants(t) * TicksPerSecond + ServerLevel
              <= Capacity(GBurst) + (now - t) * GlobalRate
        BY <3>2 DEF MapInv
      <4>3. Grants(t) * TicksPerSecond \in Int /\ (now - t) * GlobalRate \in Int
        BY <2>4, <3>1, TicksAssumption
      <4> QED
        BY <2>4, <3>1, <4>1, <4>2, <4>3
    <3>3. CASE t = now + 1
      <4>1. Entering(t) = {}
        BY <2>4, <3>3 DEF Entering, IInv, CallsAreRecent, InAllow, TypeOK
      <4>2. Entered(t) = {}
        <5> SUFFICES ASSUME NEW c \in Entered(t) PROVE FALSE
          OBVIOUS
        <5>1. /\ c \in Client /\ clients[c] # Nil /\ clients[c] \in Cell
              /\ heap[clients[c]].lastSeen >= t + MaxPause
          BY DEF Entered, Mapped, IInv, TypeOK
        <5>2. /\ heap[clients[c]].lastSeen <= now
              /\ heap[clients[c]].lastSeen \in Nat
          BY <5>1 DEF IInv, EntriesAreOrdered, TypeOK
        <5> QED
          BY <2>4, <3>3, <5>1, <5>2, TimeAssumption
      <4>3. Grants(t) = 0
        BY <4>1, <4>2, FS_EmptySet DEF Grants
      <4>4. (now' - t) * GlobalRate = 0 /\ 0 * TicksPerSecond = 0
        BY <2>1, <2>4, <3>3, TicksAssumption
      <4> QED
        BY <2>4, <3>1, <4>3, <4>4
    <3> QED
      BY <2>4, <2>5, <3>2, <3>3
  <2> QED
    BY <2>1, <2>2, <2>4, <2>5 DEF MapInv
<1> QED
  BY <1>1, <1>2, <1>3, <1>4, <1>5, <1>6 DEF Next, AllowStep

\* The map stays small whatever addresses clients come from: each of its entries
\* was paid for with a token of the server's bucket, and not long ago
\* (ratelimit.go:75-95, 104-111).
THEOREM MapStaysSmall == Spec => []MapBound
<1>1. IInv /\ MapInv => MapBound
  <2> SUFFICES ASSUME IInv, MapInv, ~stopped
               PROVE  Cardinality(Mapped) * TicksPerSecond
                        <= Capacity(GBurst)
                             + (ClientTTL + CleanupInterval + 2 * MaxPause) * GlobalRate
    BY DEF MapBound
  <2> DEFINE life == ClientTTL + CleanupInterval + 2 * MaxPause
             t == now - life
  <2>1. life \in Nat /\ t \in Int /\ t <= now /\ now - t = life
    BY InvTypes, TimeAssumption
  <2>2. Entered(t) = Mapped
    <3>1. ASSUME NEW c \in Mapped
          PROVE  heap[clients[c]].lastSeen >= t + MaxPause
      <4>1. heap[clients[c]].lastSeen \in Nat
        BY DEF Mapped, IInv, TypeOK
      <4>2. now - heap[clients[c]].lastSeen
              <= ClientTTL + CleanupInterval + MaxPause
        BY SilentEntriesLeave DEF StaleBound
      <4> QED
        BY <4>1, <4>2, InvTypes, TimeAssumption
    <3> QED
      BY <3>1 DEF Entered
  <2>3. Grants(t) \in Nat /\ Cardinality(Mapped) <= Grants(t)
        /\ Cardinality(Mapped) \in Nat
    BY <2>1, <2>2, GrantsType DEF Grants, MapInv
  <2>4. Grants(t) * TicksPerSecond + ServerLevel
          <= Capacity(GBurst) + life * GlobalRate
    BY <2>1 DEF MapInv
  <2>5. Cardinality(Mapped) * TicksPerSecond <= Grants(t) * TicksPerSecond
    BY <2>3, MonotoneProduct, TicksAssumption
  <2>6. ServerLevel \in 0 .. Capacity(GBurst) /\ Capacity(GBurst) \in Nat
    BY LevelType, InvTypes, BurstTypes DEF ServerLevel
  <2>7. /\ Cardinality(Mapped) * TicksPerSecond \in Int
        /\ Grants(t) * TicksPerSecond \in Int /\ life * GlobalRate \in Int
    BY <2>1, <2>3, TicksAssumption, InvTypes
  <2> HIDE DEF life, t
  <2>8. Cardinality(Mapped) * TicksPerSecond <= Capacity(GBurst) + life * GlobalRate
    BY <2>4, <2>5, <2>6, <2>7
  <2> QED
    BY <2>8 DEF life
<1>2. Spec => []MapInv
  BY Invariance, MapInit, MapNext, PTL DEF Spec
<1> QED
  BY Invariance, <1>1, <1>2, PTL
=============================================================================
