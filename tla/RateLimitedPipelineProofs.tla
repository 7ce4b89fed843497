----------------------- MODULE RateLimitedPipelineProofs -----------------------
(***************************************************************************)
(* The chain together with its limiter, for any number of clients and      *)
(* requests, any limits and any batch size: it is still the chain and      *)
(* still the buckets, and the tool calls of a window are bounded by what   *)
(* the buckets hold.                                                       *)
(***************************************************************************)
EXTENDS RateLimitedPipeline, RequestPipelineProofs

Types ==
    /\ server \in 0 .. GlobalCap
    /\ level \in [Client -> 0 .. ClientCap]
    /\ verdict \in [Req -> {"idle", "passed", "allowed", "refused"}]
    /\ who \in [Req -> Client \cup {Nil}]
    /\ now \in Nat /\ opened \in Nat /\ opened <= now
    /\ watched \in Client \cup {Everyone, Nil}
    /\ granted \in Nat /\ spent \in Nat
    /\ paid \in [Req -> {"unpaid", "before", "within"}]

\* What the limiter's verdict says of where the request is.
Verdict(r) ==
    /\ verdict[r] # "idle" => who[r] \in Client
    /\ verdict[r] = "passed" => stage[r] = "limit"
    /\ stage[r] = "idle" => verdict[r] = "idle"
    /\ stage[r] \in {"body", "token", "mcp", "serve", "log"} => verdict[r] = "allowed"
    /\ running[r] # {} => verdict[r] = "allowed"

VerdictInv == \A r \in Req : Verdict(r)

\* A request that has its token from the watched bucket has paid.
Paid(r) ==
    /\ watched = Nil => paid[r] = "unpaid"
    /\ stage[r] = "idle" => paid[r] = "unpaid"
    /\ IsWatched(r) /\ verdict[r] = "allowed" => paid[r] # "unpaid"
    /\ watched = Everyone /\ verdict[r] = "passed" => paid[r] # "unpaid"

PaidInv ==
    /\ watched = Nil => granted = 0 /\ spent = 0
    /\ \A r \in Req : Paid(r)

\* The tokens taken and what is left are covered by what the watched bucket
\* held and gained.
WatchedLevel == IF watched = Everyone THEN server ELSE level[watched]

BudgetInv ==
    watched # Nil =>
        granted * Cost + WatchedLevel <= WatchedCap + (now - opened) * WatchedRate

\* The calls that requests which have paid may still make.
Reserve == {p \in Req \X (1 .. MaxBatchSize) :
               /\ paid[p[1]] = "within"
               /\ outbound[<<p[1], p[2], 0>>].at = "none"}

\* Every token taken in the window is good for MaxBatchSize calls, made or yet
\* to be made.
ReserveInv == spent + Cardinality(Reserve) <= granted * MaxBatchSize

LInv == PInv /\ Types /\ VerdictInv /\ PaidInv /\ BudgetInv /\ ReserveInv

-----------------------------------------------------------------------------
\* The composition is the chain, and the buckets.
LEMMA StepOfChain == [LNext]_allVars => [Next]_vars
<1> SUFFICES ASSUME [LNext]_allVars PROVE [Next]_vars
  OBVIOUS
<1>1. CASE UNCHANGED allVars
  BY <1>1 DEF allVars
<1>2. ASSUME NEW r \in Req, NEW c \in Client, AskServer(r, c) PROVE UNCHANGED vars
  BY <1>2 DEF AskServer
<1>3. ASSUME NEW r \in Req, AskClient(r) PROVE UNCHANGED vars
  BY <1>3 DEF AskClient
<1>4. ASSUME NEW r \in Req, PassOn(r) \/ TurnAway(r) \/ LPanic(r) \/ LClose(r)
      PROVE  Next
  BY <1>4 DEF PassOn, TurnAway, LPanic, LClose, Next, ChainStep
<1>5. ASSUME NEW r \in Req, NEW c \in Call, NEW k \in Query, LBuild(r, c, k) PROVE Next
  BY <1>5 DEF LBuild, Next, CallStep, QueryStep
<1>6. ASSUME NEW r \in Req, Elsewhere(r) PROVE Next
  BY <1>6 DEF Elsewhere, Next, ChainStep, CallStep, QueryStep
<1>7. ASSUME NEW x, OpenWindow(x) PROVE UNCHANGED vars
  BY <1>7 DEF OpenWindow
<1>8. CASE Tick
  BY <1>8 DEF Tick
<1> QED
  BY <1>1, <1>2, <1>3, <1>4, <1>5, <1>6, <1>7, <1>8 DEF LNext

LEMMA StepOfBuckets == [LNext]_allVars => [Buckets!Next]_bucketVars
<1> SUFFICES ASSUME [LNext]_allVars PROVE Buckets!Next \/ UNCHANGED bucketVars
  OBVIOUS
<1>1. CASE UNCHANGED allVars
  BY <1>1 DEF allVars, limiterVars
<1>2. ASSUME NEW r \in Req, NEW c \in Client, AskServer(r, c) PROVE Buckets!Next
  BY <1>2 DEF AskServer, Buckets!Next, Buckets!RequestStep
<1>3. ASSUME NEW r \in Req, AskClient(r) PROVE Buckets!Next
  BY <1>3 DEF AskClient, Buckets!Next, Buckets!RequestStep
<1>4. ASSUME NEW r \in Req, PassOn(r) \/ TurnAway(r) \/ LPanic(r) \/ Elsewhere(r)
      PROVE  UNCHANGED bucketVars
  BY <1>4 DEF PassOn, TurnAway, LPanic, Elsewhere, limiterVars
<1>5. ASSUME NEW r \in Req, LClose(r) PROVE Buckets!Next \/ UNCHANGED bucketVars
  BY <1>5 DEF LClose, Buckets!Next, Buckets!RequestStep
<1>6. ASSUME NEW r \in Req, NEW c \in Call, NEW k \in Query, LBuild(r, c, k)
      PROVE  UNCHANGED bucketVars
  BY <1>6 DEF LBuild
<1>7. ASSUME NEW x, OpenWindow(x) PROVE UNCHANGED bucketVars
  BY <1>7 DEF OpenWindow
<1>8. CASE Tick
  BY <1>8 DEF Tick, Buckets!Next
<1> QED
  BY <1>1, <1>2, <1>3, <1>4, <1>5, <1>6, <1>7, <1>8 DEF LNext

\* The chain with its limiter takes only steps that the chain can take, so all
\* that is proved of RequestPipeline holds of it (main.go:105-129).
THEOREM ChainIsKept == LSpec => Spec
<1>1. LInit => Init
  BY DEF LInit
<1> QED
  BY <1>1, StepOfChain, PTL DEF LSpec, Spec

\* Panics, refusals and the rest of the chain never touch a bucket: what the
\* buckets go through is what PersistentBuckets allows (handlers/ratelimit.go:137-148).
THEOREM BucketsAreKept == LSpec => Buckets!Spec
<1>1. LInit => Buckets!Init
  BY DEF LInit
<1> QED
  BY <1>1, StepOfBuckets, PTL DEF LSpec, Buckets!Spec, Buckets!vars, bucketVars

-----------------------------------------------------------------------------
LEMMA LInitInv == LInit => LInv
<1> SUFFICES ASSUME LInit PROVE LInv
  OBVIOUS
<1> USE DEF LInit
<1>1. PInv
  BY InitInv
<1>2. Types
  BY BucketAssumption DEF Types, Buckets!Init
<1>3. VerdictInv
  BY DEF VerdictInv, Verdict, Buckets!Init, Init
<1>4. PaidInv /\ BudgetInv
  BY BucketAssumption DEF PaidInv, Paid, BudgetInv, IsWatched
<1>5. ReserveInv
  <2>1. Reserve = {}
    BY DEF Reserve
  <2>2. Cardinality(Reserve) = 0
    BY <2>1, FS_EmptySet
  <2> QED
    BY <2>2, BatchAssumption DEF ReserveInv
<1> QED
  BY <1>1, <1>2, <1>3, <1>4, <1>5 DEF LInv

\* The buckets stay within their bounds, and the window's counters count.
LEMMA TypesNext == Types /\ VerdictInv /\ [LNext]_allVars => Types'
<1> SUFFICES ASSUME Types, VerdictInv, [LNext]_allVars PROVE Types'
  OBVIOUS
<1> USE DEF Types
<1>1. CASE UNCHANGED limiterVars
  BY <1>1 DEF limiterVars, bucketVars, windowVars
<1>2. ASSUME NEW r \in Req, NEW c \in Client, AskServer(r, c) PROVE Types'
  <2>1. UNCHANGED <<level, now, watched, opened, spent>>
    BY <1>2 DEF AskServer, Buckets!Pass, Buckets!RefuseAll
  <2>2. server' \in 0 .. GlobalCap
    BY <1>2, BucketAssumption DEF AskServer, Buckets!Pass, Buckets!RefuseAll
  <2>3. /\ verdict' \in [Req -> {"idle", "passed", "allowed", "refused"}]
        /\ who' \in [Req -> Client \cup {Nil}]
    BY <1>2 DEF AskServer, Buckets!Pass, Buckets!RefuseAll
  <2>4. granted' \in Nat
    BY <1>2 DEF AskServer, TakeToken
  <2>5. paid' \in [Req -> {"unpaid", "before", "within"}]
    BY <1>2 DEF AskServer, TakeToken
  <2> QED
    BY <2>1, <2>2, <2>3, <2>4, <2>5
<1>3. ASSUME NEW r \in Req, AskClient(r) PROVE Types'
  <2>1. UNCHANGED <<server, who, now, watched, opened, spent>>
    BY <1>3 DEF AskClient, Buckets!Admit, Buckets!RefuseClient
  <2>2. who[r] \in Client
    BY <1>3 DEF AskClient, Buckets!Admit, Buckets!RefuseClient, VerdictInv, Verdict
  <2>3. level' \in [Client -> 0 .. ClientCap]
    BY <1>3, <2>2, BucketAssumption DEF AskClient, Buckets!Admit, Buckets!RefuseClient
  <2>4. verdict' \in [Req -> {"idle", "passed", "allowed", "refused"}]
    BY <1>3 DEF AskClient, Buckets!Admit, Buckets!RefuseClient
  <2>5. granted' \in Nat
    BY <1>3 DEF AskClient, TakeToken
  <2>6. paid' \in [Req -> {"unpaid", "before", "within"}]
    BY <1>3 DEF AskClient, TakeToken
  <2> QED
    BY <2>1, <2>3, <2>4, <2>5, <2>6
<1>4. ASSUME NEW r \in Req, LClose(r) PROVE Types'
  BY <1>4 DEF LClose, Buckets!Respond, bucketVars
<1>5. ASSUME NEW r \in Req, NEW c \in Call, NEW k \in Query, LBuild(r, c, k) PROVE Types'
  BY <1>5 DEF LBuild, bucketVars
<1>6. ASSUME NEW x \in Client \cup {Everyone}, OpenWindow(x) PROVE Types'
  BY <1>6 DEF OpenWindow, bucketVars
<1>7. CASE Tick
  BY <1>7, BucketAssumption DEF Tick, Buckets!Refill, Buckets!Refilled, windowVars
<1> QED
  BY <1>1, <1>2, <1>3, <1>4, <1>5, <1>6, <1>7
  DEF LNext, allVars, PassOn, TurnAway, LPanic, Elsewhere

\* The steps that the limiter has no part in leave other requests alone, and
\* vacate no place.
LEMMA ElsewhereFrame ==
  ASSUME TypeOK, NEW r \in Req, Elsewhere(r), NEW q \in Req \ {r}
  PROVE  Same(q)
<1>1. OneStep(r) \/ CallStep(r)
  BY DEF Elsewhere, OneStep, ChainStep, CallStep, QueryStep
<1> QED
  BY <1>1, OneStepFrame, CallStepFrame

LEMMA VerdictNext == PInv /\ Types /\ VerdictInv /\ [LNext]_allVars => VerdictInv'
<1> SUFFICES ASSUME PInv, Types, VerdictInv, [LNext]_allVars, NEW q \in Req
             PROVE  Verdict(q)'
  BY DEF VerdictInv
<1>t. TypeOK
  BY DEF PInv
<1>v. Verdict(q)
  BY DEF VerdictInv
<1>1. ASSUME Same(q), verdict'[q] = verdict[q], who'[q] = who[q]
      PROVE  Verdict(q)'
  BY <1>1, <1>v DEF Verdict, Same
<1>2. ASSUME NEW r \in Req, NEW c \in Client, AskServer(r, c) PROVE Verdict(q)'
  BY <1>2, <1>v
  DEF AskServer, Buckets!Pass, Buckets!RefuseAll, Verdict, Types, vars
<1>3. ASSUME NEW r \in Req, AskClient(r) PROVE Verdict(q)'
  BY <1>3, <1>v
  DEF AskClient, Buckets!Admit, Buckets!RefuseClient, Verdict, Types, vars
<1>4. ASSUME NEW r \in Req, PassOn(r) \/ TurnAway(r) \/ LPanic(r)
      PROVE  OneStep(r) /\ UNCHANGED <<verdict, who>>
  BY <1>4 DEF PassOn, TurnAway, LPanic, OneStep, ChainStep, limiterVars, bucketVars
<1>5. ASSUME NEW r \in Req, PassOn(r) \/ TurnAway(r) \/ LPanic(r), r # q
      PROVE  Verdict(q)'
  BY <1>1, <1>4, <1>5, <1>t, OneStepFrame
<1>6. ASSUME PassOn(q) \/ TurnAway(q) \/ LPanic(q) PROVE Verdict(q)'
  BY <1>6, <1>t, <1>v
  DEF PassOn, TurnAway, LPanic, Admit, Refuse, Panic, Reply, Move, TypeOK,
      Verdict, limiterVars, bucketVars
<1>7. ASSUME NEW r \in Req, Elsewhere(r), r # q PROVE Verdict(q)'
  BY <1>1, <1>7, <1>t, ElsewhereFrame DEF Elsewhere, limiterVars, bucketVars
<1>8. ASSUME Elsewhere(q) PROVE Verdict(q)'
  <2>1. verdict' = verdict /\ who' = who
    BY <1>8 DEF Elsewhere, limiterVars, bucketVars
  <2> USE DEF Move, Reply, TypeOK, Verdict
  <2>2. CASE Healthz(q) \/ Enter(q) \/ Unwind(q)
    BY <1>t, <1>v, <2>1, <2>2 DEF Healthz, Enter, Unwind
  <2>3. CASE ReadFails(q) \/ RejectBatch(q) \/ ReadBody(q)
    BY <1>t, <1>v, <2>1, <2>3 DEF ReadFails, RejectBatch, ReadBody
  <2>4. CASE RejectToken(q) \/ Authenticate(q)
    BY <1>t, <1>v, <2>1, <2>4 DEF RejectToken, Authenticate
  <2>5. CASE RejectMessage(q) \/ TakeMessage(q)
    BY <1>t, <1>v, <2>1, <2>5 DEF RejectMessage, TakeMessage
  <2>6. CASE Finish(q) \/ HangUp(q) \/ WriteLog(q)
    BY <1>t, <1>v, <2>1, <2>6 DEF Finish, HangUp, WriteLog
  <2>7. CASE \E c \in Call : EndCall(q, c) \/ \E k \in Query : Send(q, c, k) \/ Answer(q, c, k)
    <3>1. stage' = stage /\ (running'[q] # {} => running[q] # {})
      BY <1>t, <2>7 DEF EndCall, Send, Answer
    <3> QED
      BY <1>v, <2>1, <3>1
  <2> QED
    BY <1>8, <2>2, <2>3, <2>4, <2>5, <2>6, <2>7 DEF Elsewhere
<1>9. ASSUME LClose(q) PROVE Verdict(q)'
  BY <1>9, <1>t, <1>v
  DEF LClose, Close, Move, TypeOK, Verdict, Types, Buckets!Respond, bucketVars
<1>10. ASSUME NEW r \in Req, LClose(r), r # q PROVE Verdict(q)'
  <2>1. Same(q)
    BY <1>10, <1>t, OneStepFrame DEF LClose, OneStep
  <2>2. verdict'[q] = verdict[q] /\ who'[q] = who[q]
    BY <1>10 DEF LClose, Buckets!Respond, bucketVars, Types
  <2> QED
    BY <1>1, <2>1, <2>2
<1>11. ASSUME NEW r \in Req, NEW c \in Call, NEW k \in Query, LBuild(r, c, k)
       PROVE  Verdict(q)'
  BY <1>11, <1>v DEF LBuild, Build, bucketVars, Verdict
<1>12. ASSUME UNCHANGED <<stage, running, verdict, who>> PROVE Verdict(q)'
  BY <1>12, <1>v DEF Verdict
<1>13. ASSUME NEW x, OpenWindow(x) PROVE Verdict(q)'
  BY <1>12, <1>13 DEF OpenWindow, vars, bucketVars
<1>14. CASE Tick
  BY <1>12, <1>14 DEF Tick, vars, Buckets!Refill
<1>15. CASE UNCHANGED allVars
  BY <1>12, <1>15 DEF allVars, vars, limiterVars, bucketVars
<1> QED
  BY <1>2, <1>3, <1>5, <1>6, <1>7, <1>8, <1>9, <1>10, <1>11, <1>13, <1>14, <1>15
  DEF LNext

-----------------------------------------------------------------------------
\* No place becomes free but by Close.
LEMMA Stays ==
  ASSUME TypeOK, NEW r \in Req, NEW q \in Req,
         PassOn(r) \/ TurnAway(r) \/ LPanic(r) \/ Elsewhere(r)
  PROVE  stage'[q] = "idle" => stage[q] = "idle"
<1> USE DEF TypeOK, Move, Reply
<1>1. CASE PassOn(r) \/ TurnAway(r) \/ LPanic(r)
  BY <1>1 DEF PassOn, TurnAway, LPanic, Admit, Refuse, Panic
<1>2. CASE Healthz(r) \/ Enter(r) \/ ReadFails(r) \/ RejectBatch(r) \/ ReadBody(r)
  BY <1>2 DEF Healthz, Enter, ReadFails, RejectBatch, ReadBody
<1>3. CASE RejectToken(r) \/ Authenticate(r) \/ RejectMessage(r) \/ TakeMessage(r)
  BY <1>3 DEF RejectToken, Authenticate, RejectMessage, TakeMessage
<1>4. CASE Finish(r) \/ HangUp(r) \/ WriteLog(r) \/ Unwind(r)
  BY <1>4 DEF Finish, HangUp, WriteLog, Unwind
<1>5. CASE \E c \in Call : EndCall(r, c) \/ \E k \in Query : Send(r, c, k) \/ Answer(r, c, k)
  BY <1>5 DEF EndCall, Send, Answer
<1> QED
  BY <1>1, <1>2, <1>3, <1>4, <1>5 DEF Elsewhere

LEMMA PaidNext ==
  PInv /\ Types /\ VerdictInv /\ PaidInv /\ [LNext]_allVars => PaidInv'
<1> SUFFICES ASSUME PInv, Types, VerdictInv, PaidInv, [LNext]_allVars
             PROVE  PaidInv'
  OBVIOUS
<1> DEFINE Counted == watched = Nil => granted = 0 /\ spent = 0
<1>t. TypeOK
  BY DEF PInv
<1>p. Counted /\ \A q \in Req : Paid(q) /\ Verdict(q)
  BY DEF PaidInv, VerdictInv
<1>1. ASSUME UNCHANGED <<stage, verdict, who, windowVars>> PROVE PaidInv'
  BY <1>1, <1>p DEF PaidInv, Paid, IsWatched, windowVars
<1>2. ASSUME NEW r \in Req, NEW c \in Client, AskServer(r, c) PROVE PaidInv'
  <2>1. Counted'
    BY <1>2, <1>p, BucketAssumption DEF AskServer, TakeToken
  <2>2. ASSUME NEW q \in Req PROVE Paid(q)'
    BY <1>2, <1>p, <2>2, BucketAssumption
    DEF AskServer, TakeToken, Buckets!Pass, Buckets!RefuseAll, Paid, IsWatched,
        Types, vars
  <2> QED
    BY <2>1, <2>2 DEF PaidInv
<1>3. ASSUME NEW r \in Req, AskClient(r) PROVE PaidInv'
  <2>1. who[r] \in Client /\ stage[r] = "limit"
    BY <1>3, <1>p DEF AskClient, Buckets!Admit, Buckets!RefuseClient, Verdict
  <2>2. Counted'
    BY <1>3, <1>p, <2>1, BucketAssumption DEF AskClient, TakeToken
  <2>3. ASSUME NEW q \in Req PROVE Paid(q)'
    BY <1>3, <1>p, <2>1, <2>3, BucketAssumption
    DEF AskClient, TakeToken, Buckets!Admit, Buckets!RefuseClient, Paid,
        IsWatched, Types, vars
  <2> QED
    BY <2>2, <2>3 DEF PaidInv
<1>4. ASSUME NEW r \in Req, PassOn(r) \/ TurnAway(r) \/ LPanic(r) \/ Elsewhere(r)
      PROVE  PaidInv'
  <2>1. UNCHANGED limiterVars
    BY <1>4 DEF PassOn, TurnAway, LPanic, Elsewhere
  <2>2. ASSUME NEW q \in Req PROVE Paid(q)'
    BY <1>4, <1>t, <1>p, <2>1, <2>2, Stays
    DEF Paid, IsWatched, limiterVars, bucketVars, windowVars
  <2> QED
    BY <1>p, <2>1, <2>2 DEF PaidInv, limiterVars, windowVars
<1>5. ASSUME NEW r \in Req, LClose(r) PROVE PaidInv'
  <2>1. ASSUME NEW q \in Req, q # r PROVE Paid(q)'
    <3>1. stage'[q] = stage[q]
      BY <1>5, <1>t, <2>1, OneStepFrame DEF LClose, OneStep, Same
    <3>2. verdict'[q] = verdict[q] /\ who'[q] = who[q] /\ paid'[q] = paid[q]
      BY <1>5, <2>1 DEF LClose, Buckets!Respond, bucketVars, Types
    <3> QED
      BY <1>5, <1>p, <3>1, <3>2 DEF LClose, Paid, IsWatched
  <2>2. Paid(r)'
    <3>1. verdict'[r] = "idle" /\ paid'[r] = "unpaid"
      BY <1>5 DEF LClose, Buckets!Respond, bucketVars, Types
    <3> QED
      BY <3>1 DEF Paid
  <2> QED
    BY <1>5, <1>p, <2>1, <2>2 DEF PaidInv, LClose
<1>6. ASSUME NEW r \in Req, NEW c \in Call, NEW k \in Query, LBuild(r, c, k) PROVE PaidInv'
  BY <1>6, <1>p DEF LBuild, Build, bucketVars, PaidInv, Paid, IsWatched
<1>7. ASSUME NEW x \in Client \cup {Everyone}, OpenWindow(x) PROVE PaidInv'
  BY <1>7, <1>p, BucketAssumption
  DEF OpenWindow, PaidInv, Paid, Verdict, IsWatched, vars, bucketVars
<1>8. CASE Tick
  BY <1>1, <1>8 DEF Tick, vars, Buckets!Refill
<1>9. CASE UNCHANGED allVars
  BY <1>1, <1>9 DEF allVars, vars, limiterVars, bucketVars
<1> QED
  BY <1>2, <1>3, <1>4, <1>5, <1>6, <1>7, <1>8, <1>9 DEF LNext

-----------------------------------------------------------------------------
LEMMA OneMore ==
    ASSUME NEW n \in Int, NEW k \in Int
    PROVE  (n + 1) * k = n * k + k
OBVIOUS

LEMMA MonotoneTimes ==
    ASSUME NEW m \in Int, NEW n \in Int, NEW k \in Nat, m <= n
    PROVE  m * k <= n * k
OBVIOUS

LEMMA BudgetNext ==
  Types /\ VerdictInv /\ PaidInv /\ BudgetInv /\ [LNext]_allVars => BudgetInv'
<1> SUFFICES ASSUME Types, VerdictInv, PaidInv, BudgetInv, [LNext]_allVars,
                    watched' # Nil
             PROVE  BudgetInv'
  BY DEF BudgetInv
<1> USE DEF Types
<1>0. ASSUME watched # Nil
      PROVE  /\ granted * Cost \in Int /\ (now - opened) * WatchedRate \in Int
             /\ WatchedLevel \in Int /\ WatchedCap \in Int /\ WatchedRate \in Int
  BY <1>0, BucketAssumption DEF WatchedLevel, WatchedCap, WatchedRate
<1>1. ASSUME UNCHANGED <<server, level, watched, now, opened, granted>>
      PROVE  BudgetInv'
  BY <1>1 DEF BudgetInv, WatchedLevel, WatchedCap, WatchedRate
<1>2. ASSUME watched # Nil, UNCHANGED <<watched, now, opened>>,
             granted' = granted + 1, WatchedLevel' = WatchedLevel - Cost
      PROVE  BudgetInv'
  <2>1. granted' * Cost = granted * Cost + Cost
    BY <1>2, OneMore, BucketAssumption
  <2>2. WatchedCap' + (now' - opened') * WatchedRate'
          = WatchedCap + (now - opened) * WatchedRate
    BY <1>2 DEF WatchedCap, WatchedRate
  <2>3. granted' * Cost + WatchedLevel' = granted * Cost + WatchedLevel
    BY <1>0, <1>2, <2>1, BucketAssumption
  <2> QED
    BY <1>2, <2>2, <2>3 DEF BudgetInv
<1>3. ASSUME NEW r \in Req, NEW c \in Client, AskServer(r, c) PROVE BudgetInv'
  <2>1. UNCHANGED <<level, watched, now, opened>>
    BY <1>3 DEF AskServer, Buckets!Pass, Buckets!RefuseAll
  <2>2. CASE Buckets!Pass(r, c) /\ TakeToken(r, Everyone) /\ watched = Everyone
    BY <1>2, <2>1, <2>2, BucketAssumption
    DEF TakeToken, Buckets!Pass, WatchedLevel
  <2>3. CASE Buckets!Pass(r, c) /\ TakeToken(r, Everyone) /\ watched # Everyone
    BY <2>1, <2>3 DEF TakeToken, BudgetInv, WatchedLevel, WatchedCap, WatchedRate
  <2>4. CASE Buckets!RefuseAll(r, c) /\ UNCHANGED granted
    BY <1>1, <2>1, <2>4 DEF Buckets!RefuseAll
  <2> QED
    BY <1>3, <2>2, <2>3, <2>4 DEF AskServer
<1>4. ASSUME NEW r \in Req, AskClient(r) PROVE BudgetInv'
  <2>1. UNCHANGED <<server, who, watched, now, opened>>
    BY <1>4 DEF AskClient, Buckets!Admit, Buckets!RefuseClient
  <2>2. who[r] \in Client
    BY <1>4 DEF AskClient, Buckets!Admit, Buckets!RefuseClient, VerdictInv, Verdict
  <2>3. CASE Buckets!Admit(r) /\ TakeToken(r, who[r]) /\ watched = who[r]
    BY <1>2, <2>1, <2>2, <2>3, BucketAssumption
    DEF TakeToken, Buckets!Admit, WatchedLevel
  <2>4. CASE Buckets!Admit(r) /\ TakeToken(r, who[r]) /\ watched # who[r]
    <3>1. WatchedLevel' = WatchedLevel
      BY <2>1, <2>2, <2>4 DEF Buckets!Admit, WatchedLevel
    <3> QED
      BY <2>1, <2>4, <3>1 DEF TakeToken, BudgetInv, WatchedCap, WatchedRate
  <2>5. CASE Buckets!RefuseClient(r) /\ UNCHANGED granted
    BY <1>1, <2>1, <2>5 DEF Buckets!RefuseClient
  <2> QED
    BY <1>4, <2>3, <2>4, <2>5 DEF AskClient
<1>5. ASSUME NEW x \in Client \cup {Everyone}, OpenWindow(x) PROVE BudgetInv'
  <2>1. granted' = 0 /\ now' - opened' = 0
    BY <1>5 DEF OpenWindow, PaidInv
  <2>2. WatchedLevel' <= WatchedCap' /\ WatchedLevel' \in Int /\ WatchedCap' \in Int
    BY <1>5, BucketAssumption DEF OpenWindow, bucketVars, WatchedLevel, WatchedCap
  <2>3. WatchedRate' \in Int
    BY BucketAssumption DEF WatchedRate
  <2>4. granted' * Cost = 0 /\ (now' - opened') * WatchedRate' = 0
    BY <2>1, <2>3, BucketAssumption
  <2> QED
    BY <2>2, <2>4 DEF BudgetInv
<1>6. CASE Tick
  <2>1. watched # Nil /\ UNCHANGED <<watched, granted, opened>> /\ now' = now + 1
    BY <1>6 DEF Tick, windowVars
  <2>2. WatchedCap' = WatchedCap /\ WatchedRate' = WatchedRate
    BY <2>1 DEF WatchedCap, WatchedRate
  <2>3. WatchedLevel' \in Int /\ WatchedLevel' <= WatchedLevel + WatchedRate
    BY <1>6, <2>1, BucketAssumption
    DEF Tick, Buckets!Refill, Buckets!Refilled, WatchedLevel, WatchedRate
  <2>4. (now' - opened') * WatchedRate = (now - opened) * WatchedRate + WatchedRate
    <3>1. now' - opened' = (now - opened) + 1
      BY <2>1
    <3> QED
      BY <1>0, <2>1, <3>1, OneMore
  <2>5. granted * Cost + WatchedLevel <= WatchedCap + (now - opened) * WatchedRate
    BY <2>1 DEF BudgetInv
  <2>6. granted' * Cost + WatchedLevel' <= WatchedCap' + (now' - opened') * WatchedRate'
    BY <1>0, <2>1, <2>2, <2>3, <2>4, <2>5
  <2> QED
    BY <2>6 DEF BudgetInv
<1>7. ASSUME NEW r \in Req,
             PassOn(r) \/ TurnAway(r) \/ LPanic(r) \/ Elsewhere(r)
      PROVE  BudgetInv'
  BY <1>1, <1>7
  DEF PassOn, TurnAway, LPanic, Elsewhere, limiterVars, bucketVars, windowVars
<1>8. ASSUME NEW r \in Req, LClose(r) PROVE BudgetInv'
  BY <1>1, <1>8 DEF LClose, Buckets!Respond, bucketVars
<1>9. ASSUME NEW r \in Req, NEW c \in Call, NEW k \in Query, LBuild(r, c, k) PROVE BudgetInv'
  BY <1>1, <1>9 DEF LBuild, bucketVars
<1>10. CASE UNCHANGED allVars
  BY <1>1, <1>10 DEF allVars, limiterVars, bucketVars, windowVars
<1> QED
  BY <1>3, <1>4, <1>5, <1>6, <1>7, <1>8, <1>9, <1>10 DEF LNext

-----------------------------------------------------------------------------
\* The reserve is finite, and so is what it becomes by losing pairs.
LEMMA ReserveFinite ==
  ASSUME Types
  PROVE  /\ IsFiniteSet(Reserve) /\ Cardinality(Reserve) \in Nat
         /\ IsFiniteSet(1 .. MaxBatchSize)
         /\ Cardinality(1 .. MaxBatchSize) = MaxBatchSize
<1>1. IsFiniteSet(1 .. MaxBatchSize) /\ Cardinality(1 .. MaxBatchSize) = MaxBatchSize
  BY BatchAssumption, FS_Interval
<1>2. IsFiniteSet(Req \X (1 .. MaxBatchSize))
  BY <1>1, ReqAssumption, FS_Product
<1>3. Reserve \in SUBSET (Req \X (1 .. MaxBatchSize))
  BY DEF Reserve
<1>4. IsFiniteSet(Reserve)
  BY <1>2, <1>3, FS_Subset
<1> QED
  BY <1>1, <1>4, FS_CardinalityType

LEMMA Smaller ==
  ASSUME NEW S, IsFiniteSet(S), NEW T \in SUBSET S
  PROVE  Cardinality(T) \in Nat /\ Cardinality(S) \in Nat /\ Cardinality(T) <= Cardinality(S)
BY FS_Subset, FS_CardinalityType

\* A step that lets no request make a call it could not make before.
LEMMA ReserveShrinks ==
  ASSUME Types, ReserveInv, Reserve' \in SUBSET Reserve, UNCHANGED <<spent, granted>>
  PROVE  ReserveInv'
<1>1. /\ Cardinality(Reserve') \in Nat /\ Cardinality(Reserve) \in Nat
      /\ Cardinality(Reserve') <= Cardinality(Reserve)
  BY ReserveFinite, Smaller
<1>2. spent' + Cardinality(Reserve') <= granted' * MaxBatchSize
  <2>1. granted * MaxBatchSize \in Int /\ spent \in Int
    BY BatchAssumption DEF Types
  <2>2. spent + Cardinality(Reserve) <= granted * MaxBatchSize
    BY DEF ReserveInv
  <2>3. granted' * MaxBatchSize = granted * MaxBatchSize
    OBVIOUS
  <2> QED
    BY <1>1, <2>1, <2>2, <2>3
<1> QED
  BY <1>2 DEF ReserveInv

\* A token taken in the window lets one request make a batch of calls.
LEMMA ReserveGrows ==
  ASSUME Types, ReserveInv, NEW r \in Req, UNCHANGED <<outbound, spent>>,
         granted' = granted + 1, paid' = [paid EXCEPT ![r] = "within"]
  PROVE  ReserveInv'
<1> DEFINE Batch == {r} \X (1 .. MaxBatchSize)
<1>1. IsFiniteSet(Batch) /\ Cardinality(Batch) = MaxBatchSize
  <2>1. IsFiniteSet({r}) /\ Cardinality({r}) = 1
    BY FS_Singleton
  <2>2. IsFiniteSet(Batch) /\ Cardinality(Batch) = 1 * MaxBatchSize
    BY <2>1, ReserveFinite, FS_Product
  <2> QED
    BY <2>2, BatchAssumption
<1>2. Reserve' \in SUBSET (Reserve \cup Batch)
  BY DEF Reserve, Types
<1> HIDE DEF Batch
<1>3. /\ IsFiniteSet(Reserve \cup Batch)
      /\ Cardinality(Reserve \cup Batch)
            = Cardinality(Reserve) + Cardinality(Batch) - Cardinality(Reserve \cap Batch)
  BY <1>1, ReserveFinite, FS_Union
<1>4. Cardinality(Reserve \cap Batch) \in Nat
  <2>1. (Reserve \cap Batch) \in SUBSET Batch
    OBVIOUS
  <2> QED
    BY <1>1, <2>1, Smaller
<1>5. Cardinality(Reserve') \in Nat
      /\ Cardinality(Reserve') <= Cardinality(Reserve \cup Batch)
  BY <1>2, <1>3, Smaller
<1>6. granted' * MaxBatchSize = granted * MaxBatchSize + MaxBatchSize
  BY OneMore, BatchAssumption DEF Types
<1>7. spent + Cardinality(Reserve) <= granted * MaxBatchSize
  BY DEF ReserveInv
<1>8. granted * MaxBatchSize \in Int /\ spent \in Int /\ Cardinality(Reserve) \in Nat
  BY ReserveFinite, BatchAssumption DEF Types
<1>9. spent' + Cardinality(Reserve') <= granted' * MaxBatchSize
  BY <1>1, <1>3, <1>4, <1>5, <1>6, <1>7, <1>8, BatchAssumption
<1> QED
  BY <1>9 DEF ReserveInv

\* A call takes its own pair out of the reserve.
LEMMA ReserveSpent ==
  ASSUME PInv, Types, VerdictInv, PaidInv, ReserveInv, NEW r \in Req, NEW c \in Call,
         NEW k \in Query, LBuild(r, c, k)
  PROVE  ReserveInv'
<1>1. /\ c \in running[r] /\ outbound[<<r, c, k>>].at = "none"
      /\ UNCHANGED <<paid, granted>>
  BY DEF LBuild, Build, MayAsk
<1>2. c \in 1 .. MaxBatchSize
  <2>1. CallsReady(r) /\ c <= req[r].calls
    BY <1>1 DEF PInv, ChainInv
  <2> QED
    BY <2>1, BatchAssumption DEF CallsReady, Vetted, PInv, TypeOK, Request, Call
<1>3. Reserve' = IF k = 0 THEN Reserve \ {<<r, c>>} ELSE Reserve
  <2>1. \A q \in Req, d \in Call, l \in Query :
           outbound'[<<q, d, l>>].at = IF q = r /\ d = c /\ l = k
                                       THEN "built" ELSE outbound[<<q, d, l>>].at
    BY DEF LBuild, Build, PInv, TypeOK
  <2>2. 1 .. MaxBatchSize \subseteq Call /\ 0 \in Query
    BY BatchAssumption DEF Call, Query
  <2>3. \A p \in Req \X (1 .. MaxBatchSize) :
           outbound'[<<p[1], p[2], 0>>].at = "none"
             <=> outbound[<<p[1], p[2], 0>>].at = "none" /\ ~(k = 0 /\ p = <<r, c>>)
    BY <2>1, <2>2
  <2> QED
    BY <1>1, <2>3 DEF Reserve
<1>4. CASE ~(k = 0 /\ IsWatched(r) /\ paid[r] # "before")
  BY <1>1, <1>3, <1>4, ReserveShrinks DEF LBuild
<1>5. CASE k = 0 /\ IsWatched(r) /\ paid[r] # "before"
  <2>1. verdict[r] = "allowed"
    BY <1>1 DEF VerdictInv, Verdict
  <2>2. paid[r] = "within"
    BY <1>5, <2>1 DEF PaidInv, Paid, Types
  <2>3. <<r, c>> \in Reserve
    BY <1>1, <1>2, <1>5, <2>2 DEF Reserve
  <2>4. Cardinality(Reserve') = Cardinality(Reserve) - 1
    BY <1>3, <1>5, <2>3, ReserveFinite, FS_RemoveElement
  <2>5. spent' = spent + 1 /\ spent \in Nat
    BY <1>5 DEF LBuild, Types
  <2>6. granted' * MaxBatchSize = granted * MaxBatchSize
    BY <1>1
  <2>7. spent + Cardinality(Reserve) <= granted * MaxBatchSize
    BY DEF ReserveInv
  <2>8. granted * MaxBatchSize \in Int /\ Cardinality(Reserve) \in Nat
    BY ReserveFinite, BatchAssumption DEF Types
  <2>9. spent' + Cardinality(Reserve') <= granted' * MaxBatchSize
    BY <2>4, <2>5, <2>6, <2>7, <2>8
  <2> QED
    BY <2>9 DEF ReserveInv
<1> QED
  BY <1>4, <1>5

LEMMA ReserveNext ==
  PInv /\ Types /\ VerdictInv /\ PaidInv /\ ReserveInv /\ [LNext]_allVars => ReserveInv'
<1> SUFFICES ASSUME PInv, Types, VerdictInv, PaidInv, ReserveInv, [LNext]_allVars
             PROVE  ReserveInv'
  OBVIOUS
<1>t. TypeOK
  BY DEF PInv
<1>1. ASSUME UNCHANGED <<outbound, paid, spent, granted>> PROVE ReserveInv'
  BY <1>1, ReserveShrinks DEF Reserve
<1>2. ASSUME NEW r \in Req, NEW c \in Client, AskServer(r, c) PROVE ReserveInv'
  BY <1>1, <1>2, ReserveGrows DEF AskServer, TakeToken, vars
<1>3. ASSUME NEW r \in Req, AskClient(r) PROVE ReserveInv'
  BY <1>1, <1>3, ReserveGrows DEF AskClient, TakeToken, vars
<1>4. ASSUME NEW r \in Req, PassOn(r) \/ TurnAway(r) \/ LPanic(r) PROVE ReserveInv'
  BY <1>1, <1>4
  DEF PassOn, TurnAway, LPanic, Admit, Refuse, Panic, limiterVars, windowVars
<1>5. ASSUME NEW r \in Req, Elsewhere(r) PROVE ReserveInv'
  <2>1. UNCHANGED <<paid, spent, granted>>
    BY <1>5 DEF Elsewhere, limiterVars, windowVars
  <2>2. ASSUME NEW c \in Call, NEW k \in Query, Send(r, c, k) \/ Answer(r, c, k)
        PROVE  ReserveInv'
    <3>1. \A q \in Req, d \in Call, l \in Query :
             outbound'[<<q, d, l>>].at = "none" => outbound[<<q, d, l>>].at = "none"
      <4> DEFINE x == <<r, c, k>>
      <4>1. \A y \in Req \X Call \X Query : y # x => outbound'[y] = outbound[y]
        BY <1>t, <2>2 DEF Send, Answer, TypeOK
      <4>2. outbound'[x].at # "none"
        <5>1. outbound[x] \in Outbound /\ x \in DOMAIN outbound
          BY <1>t DEF TypeOK
        <5>2. \/ outbound'[x] = [outbound[x] EXCEPT !.at = "sent",
                                                    !.auth = AuthSent(outbound[x])]
              \/ outbound'[x] = [outbound[x] EXCEPT !.at = "answered"]
          BY <2>2, <5>1 DEF Send, Answer
        <5> QED
          BY <5>1, <5>2 DEF Outbound
      <4> HIDE DEF x
      <4> QED
        BY <4>1, <4>2
    <3>2. 1 .. MaxBatchSize \subseteq Call /\ 0 \in Query
      BY BatchAssumption DEF Call, Query
    <3>3. Reserve' \in SUBSET Reserve
      BY <2>1, <3>1, <3>2 DEF Reserve
    <3> QED
      BY <2>1, <3>3, ReserveShrinks
  <2>3. CASE ~\E c \in Call, k \in Query : Send(r, c, k) \/ Answer(r, c, k)
    <3>1. UNCHANGED outbound
      BY <1>5, <2>3
      DEF Elsewhere, Healthz, Enter, ReadFails, RejectBatch, ReadBody, RejectToken,
          Authenticate, RejectMessage, TakeMessage, EndCall, Finish, HangUp,
          WriteLog, Unwind
    <3> QED
      BY <1>1, <2>1, <3>1
  <2> QED
    BY <2>2, <2>3
<1>6. ASSUME NEW r \in Req, LClose(r) PROVE ReserveInv'
  <2>1. UNCHANGED <<spent, granted>> /\ paid' = [paid EXCEPT ![r] = "unpaid"]
    BY <1>6 DEF LClose
  <2>2. \A q \in Req, c \in Call, k \in Query :
           q # r => outbound'[<<q, c, k>>] = outbound[<<q, c, k>>]
    BY <1>6 DEF LClose, Close
  <2>3. 1 .. MaxBatchSize \subseteq Call /\ 0 \in Query
    BY BatchAssumption DEF Call, Query
  <2>4. Reserve' \in SUBSET Reserve
    BY <2>1, <2>2, <2>3 DEF Reserve, Types
  <2> QED
    BY <2>1, <2>4, ReserveShrinks
<1>7. ASSUME NEW r \in Req, NEW c \in Call, NEW k \in Query, LBuild(r, c, k) PROVE ReserveInv'
  BY <1>7, ReserveSpent
<1>8. ASSUME NEW x \in Client \cup {Everyone}, OpenWindow(x) PROVE ReserveInv'
  <2>1. UNCHANGED <<spent, granted>>
    BY <1>8 DEF OpenWindow
  <2>2. \A r \in Req : paid'[r] # "within"
    BY <1>8 DEF OpenWindow
  <2>3. Reserve' \in SUBSET Reserve
    BY <2>2 DEF Reserve
  <2> QED
    BY <2>1, <2>3, ReserveShrinks
<1>9. CASE Tick
  BY <1>1, <1>9 DEF Tick, vars, windowVars
<1>10. CASE UNCHANGED allVars
  BY <1>1, <1>10 DEF allVars, vars, limiterVars, windowVars
<1> QED
  BY <1>2, <1>3, <1>4, <1>5, <1>6, <1>7, <1>8, <1>9, <1>10 DEF LNext

LEMMA LInvariance == LSpec => []LInv
<1>1. PInv /\ [Next]_vars => PInv'
  BY TypeNext, GaugeNext, ChainNext, LogNext DEF PInv
<1>2. LInv /\ [LNext]_allVars => LInv'
  BY <1>1, StepOfChain, TypesNext, VerdictNext, PaidNext, BudgetNext, ReserveNext
  DEF LInv
<1> QED
  BY LInitInv, <1>2, PTL DEF LSpec

-----------------------------------------------------------------------------
\* The tool calls begun in a window of any length are bounded by the credit of
\* the buckets, for any number of clients, any limits and any batch size
\* (handlers/ratelimit.go:75-97, middleware.go:112-116).
THEOREM PaperlessLoadIsBounded == LSpec => []LoadIsBounded
<1>1. LInv => LoadIsBounded
  <2> SUFFICES ASSUME LInv, watched # Nil
               PROVE  spent * Cost <=
                        MaxBatchSize * (WatchedCap + (now - opened) * WatchedRate)
    BY DEF LoadIsBounded
  <2> DEFINE budget == WatchedCap + (now - opened) * WatchedRate
  <2>1. /\ spent \in Nat /\ granted \in Nat /\ Cost \in Nat /\ MaxBatchSize \in Nat
        /\ WatchedLevel \in Nat /\ granted * Cost \in Int
    BY BucketAssumption, BatchAssumption DEF LInv, Types, WatchedLevel
  <2>2. WatchedCap \in Int /\ (now - opened) * WatchedRate \in Int
    BY BucketAssumption DEF LInv, Types, WatchedCap, WatchedRate
  <2>3. granted * Cost <= budget /\ budget \in Int
    BY <2>1, <2>2 DEF LInv, BudgetInv
  <2> HIDE DEF budget
  <2>4. spent <= granted * MaxBatchSize /\ granted * MaxBatchSize \in Int
    BY <2>1, ReserveFinite DEF LInv, ReserveInv
  <2>5. spent * Cost <= (granted * MaxBatchSize) * Cost
    BY <2>1, <2>4, MonotoneTimes
  <2>6. (granted * MaxBatchSize) * Cost = (granted * Cost) * MaxBatchSize
    BY <2>1
  <2>7. (granted * Cost) * MaxBatchSize <= budget * MaxBatchSize
    BY <2>1, <2>3, MonotoneTimes
  <2>8. budget * MaxBatchSize = MaxBatchSize * budget /\ MaxBatchSize * budget \in Int
    BY <2>1, <2>3
  <2>9. spent * Cost <= MaxBatchSize * budget
    BY <2>1, <2>4, <2>5, <2>6, <2>7, <2>8
  <2> QED
    BY <2>9 DEF budget
<1> QED
  BY LInvariance, <1>1, PTL
=============================================================================
