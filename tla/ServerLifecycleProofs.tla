------------------------ MODULE ServerLifecycleProofs ------------------------
(***************************************************************************)
(* The safety of ServerLifecycle for any number of connections.            *)
(***************************************************************************)
EXTENDS ServerLifecycle, TLAPS

\* Servers that may still put an error into errCh.
MayReport(s) == listener[s] \in {"none", "new", "listening", "failed"}

\* errCh has room for every server that has not reported; none reports before
\* its goroutine is started.
RoomInv ==
    /\ errCh + (IF MayReport("main") THEN 1 ELSE 0)
             + (IF MayReport("metrics") THEN 1 ELSE 0) <= 2
    /\ pc \in {"loading", "logging"} => \A s \in Server : listener[s] = "none"

\* A server is shut down when run has come to it, and not before.
OrderInv ==
    /\ inShutdown["metrics"] => inShutdown["main"]
    /\ inShutdown["main"] <=> pc \in {"stopMain", "stopMetrics", "exited"}
    /\ inShutdown["metrics"] <=> pc \in {"stopMetrics", "exited"}

\* The configuration was valid when run was called.
ValidInv == pc = "logging" => Loads(env)

LInv == TypeOK /\ RoomInv /\ OrderInv /\ DrainedInOrder /\ ValidInv /\ RunningServerAdmits

-----------------------------------------------------------------------------
\* A burst is positive exactly if twice the rate fits an int.
LEMMA BurstSign ==
  ASSUME NEW n \in GoInt, ValidRate(n), NEW b \in Burst(n)
  PROVE  b \in Int /\ (b > 0 <=> 2 * n < IntLimit)
<1> USE ConfigurationAssumption DEF GoInt, ValidRate, Twice
<1>1. CASE 2 * n < IntLimit
  BY <1>1 DEF Burst
<1>2. CASE 2 * n >= IntLimit
  <2>1. PICK k \in FromFloat(n) : b = Twice(k)
    BY <1>2 DEF Burst
  <2>2. k \in GoInt /\ (2 * k >= IntLimit \/ k = -IntLimit)
    BY <1>2, <2>1 DEF FromFloat
  <2> QED
    BY <1>2, <2>1, <2>2
<1> QED
  BY <1>1, <1>2

-----------------------------------------------------------------------------
LEMMA InitInv == Init => LInv
<1> SUFFICES ASSUME Init PROVE LInv
  OBVIOUS
<1>1. TypeOK
  <2>1. conns \in [Server -> 0 .. MaxConns]
    BY MaxConnsAssumption DEF Init
  <2>2. /\ inShutdown \in [Server -> BOOLEAN]
        /\ expired \in BOOLEAN
    BY DEF Init
  <2>3. errCh \in 0 .. 2 /\ quit \in 0 .. 1
    BY DEF Init
  <2> QED
    BY <2>1, <2>2, <2>3 DEF Init, TypeOK
<1>2. RoomInv
  BY DEF Init, RoomInv, MayReport, Server
<1>3. OrderInv /\ DrainedInOrder
  BY DEF Init, OrderInv, DrainedInOrder, Server
<1>4. ValidInv /\ RunningServerAdmits
  BY DEF Init, ValidInv, RunningServerAdmits
<1> QED
  BY <1>1, <1>2, <1>3, <1>4 DEF LInv

LEMMA TypeNext == TypeOK /\ ValidInv /\ [Next]_vars => TypeOK'
<1> SUFFICES ASSUME TypeOK, ValidInv, [Next]_vars PROVE TypeOK'
  OBVIOUS
<1> USE MaxConnsAssumption DEF TypeOK, Server
<1>1. CASE RunStep
  <2>1. CASE Receive
    BY <2>1 DEF Receive
  <2>2. CASE Start
    <3>1. PICK g \in Burst(env.globalRate), c \in Burst(env.perClientRate) :
             burst' = [global |-> g, perClient |-> c]
      BY <2>2 DEF Start
    <3>2. g \in Int /\ c \in Int
      BY <2>2, <3>1, BurstSign DEF Start, ValidInv, Loads, Processed, Validated
    <3> QED
      BY <2>2, <3>1, <3>2 DEF Start
  <2> QED
    BY <1>1, <2>1, <2>2
    DEF RunStep, LoadConfig, LoggingFails, Notify, MainStops, MetricsStops
<1>2. ASSUME NEW s \in Server, ServerStep(s) PROVE TypeOK'
  <2>1. CASE Accept(s) \/ Idle(s)
    BY <2>1 DEF Accept, Idle
  <2>2. CASE Report(s)
    BY <2>2 DEF Report, ErrCap
  <2> QED
    BY <1>2, <2>1, <2>2 DEF ServerStep, Listen, ListenerFails, ListenerCloses
<1>3. CASE Signal
  <2>1. UNCHANGED <<env, burst, listener, inShutdown, conns, errCh, expired>>
    BY <1>3 DEF Signal
  <2>2. /\ pc' \in {pc, "killed"}
        /\ quit' \in {quit, 1}
    BY <1>3 DEF Signal
  <2> QED
    BY <2>1, <2>2
<1>4. CASE Expire \/ UNCHANGED vars
  BY <1>4 DEF Expire, vars
<1> QED
  BY <1>1, <1>2, <1>3, <1>4 DEF Next

LEMMA RoomNext == TypeOK /\ RoomInv /\ [Next]_vars => RoomInv'
<1> SUFFICES ASSUME TypeOK, RoomInv, [Next]_vars PROVE RoomInv'
  OBVIOUS
<1> USE DEF TypeOK, RoomInv, MayReport, Server
<1>1. CASE UNCHANGED <<errCh, listener, pc>>
  BY <1>1
<1>2. CASE RunStep
  BY <1>2
  DEF RunStep, LoadConfig, LoggingFails, Start, Notify, Receive, MainStops,
      MetricsStops
<1>3. ASSUME NEW s \in Server, Report(s) PROVE RoomInv'
  BY <1>3 DEF Report
<1>4. ASSUME NEW s \in Server, Listen(s) \/ ListenerFails(s) \/ ListenerCloses(s)
      PROVE  RoomInv'
  BY <1>4 DEF Listen, ListenerFails, ListenerCloses
<1>5. CASE Signal
  BY <1>5 DEF Signal
<1> QED
  BY <1>1, <1>2, <1>3, <1>4, <1>5
  DEF Next, ServerStep, Accept, Idle, Expire, vars

LEMMA OrderNext ==
  TypeOK /\ OrderInv /\ DrainedInOrder /\ [Next]_vars => (OrderInv /\ DrainedInOrder)'
<1> SUFFICES ASSUME TypeOK, OrderInv, DrainedInOrder, [Next]_vars
             PROVE  (OrderInv /\ DrainedInOrder)'
  OBVIOUS
<1> USE DEF TypeOK, OrderInv, DrainedInOrder, Server
<1>1. CASE RunStep
  BY <1>1
  DEF RunStep, LoadConfig, LoggingFails, Start, Notify, Receive, MainStops,
      MetricsStops
<1>2. ASSUME NEW s \in Server, ServerStep(s) PROVE (OrderInv /\ DrainedInOrder)'
  <2>1. CASE Accept(s)
    BY <2>1 DEF Accept
  <2>2. CASE Idle(s)
    BY <2>2 DEF Idle, Alive
  <2> QED
    BY <1>2, <2>1, <2>2
    DEF ServerStep, Listen, ListenerFails, ListenerCloses, Report
<1>3. CASE Signal
  BY <1>3 DEF Signal, Unprotected, Alive
<1>4. CASE Expire \/ UNCHANGED vars
  BY <1>4 DEF Expire, vars
<1> QED
  BY <1>1, <1>2, <1>3, <1>4 DEF Next

LEMMA AdmitNext ==
  ValidInv /\ RunningServerAdmits /\ [Next]_vars => (ValidInv /\ RunningServerAdmits)'
<1> SUFFICES ASSUME ValidInv, RunningServerAdmits, [Next]_vars
             PROVE  (ValidInv /\ RunningServerAdmits)'
  OBVIOUS
<1> USE DEF ValidInv, RunningServerAdmits
<1>1. CASE LoadConfig
  BY <1>1 DEF LoadConfig
<1>2. CASE Start
  <2>1. PICK g \in Burst(env.globalRate), c \in Burst(env.perClientRate) :
           burst' = [global |-> g, perClient |-> c]
    BY <1>2 DEF Start
  <2>2. /\ g > 0 <=> 2 * env.globalRate < IntLimit
        /\ c > 0 <=> 2 * env.perClientRate < IntLimit
    BY <1>2, <2>1, BurstSign DEF Start, Loads, Processed, Validated
  <2> QED
    BY <1>2, <2>1, <2>2 DEF Start
<1>3. CASE Notify
  BY <1>3 DEF Notify
<1>4. CASE Signal
  BY <1>4 DEF Signal
<1>5. CASE LoggingFails \/ Receive \/ MainStops \/ MetricsStops
  BY <1>5 DEF LoggingFails, Receive, MainStops, MetricsStops
<1>6. CASE UNCHANGED <<pc, env, burst>>
  BY <1>6
<1> QED
  BY <1>1, <1>2, <1>3, <1>4, <1>5, <1>6
  DEF Next, RunStep, ServerStep, Listen, ListenerFails, ListenerCloses, Report,
      Accept, Idle, Expire, vars

LEMMA Invariance == Spec => []LInv
<1>1. LInv /\ [Next]_vars => LInv'
  BY TypeNext, RoomNext, OrderNext, AdmitNext DEF LInv
<1> QED
  BY InitInv, <1>1, PTL DEF Spec

-----------------------------------------------------------------------------
\* Type correctness of the lifecycle, for any number of connections.
THEOREM TypeCorrect == Spec => []TypeOK
<1>1. LInv => TypeOK
  BY DEF LInv
<1> QED
  BY Invariance, <1>1, PTL

\* The servers drain one after the other before the process exits, unless the
\* deadline cuts them short (main.go:231-242).
THEOREM ServersDrain == Spec => []DrainedInOrder
<1>1. LInv => DrainedInOrder
  BY DEF LInv
<1> QED
  BY Invariance, <1>1, PTL

\* The buffer of errCh is enough for both servers (main.go:206-207).
THEOREM ReportsFit == Spec => []ReportNeverBlocks
<1>1. LInv => ReportNeverBlocks
  BY DEF LInv, TypeOK, RoomInv, MayReport, ReportNeverBlocks, ErrCap, Server
<1> QED
  BY Invariance, <1>1, PTL

\* A serving process admits requests exactly if twice its rates fit an int, for
\* an int of any width and any environment (config.go:41-50, main.go:115-118,
\* ratelimit.go:53-56, 83-86).
THEOREM ServerAdmits == Spec => []RunningServerAdmits
<1>1. LInv => RunningServerAdmits
  BY DEF LInv
<1> QED
  BY Invariance, <1>1, PTL
=============================================================================
