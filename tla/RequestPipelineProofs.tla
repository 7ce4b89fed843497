------------------------ MODULE RequestPipelineProofs ------------------------
(***************************************************************************)
(* The safety of RequestPipeline for any number of requests and users, any *)
(* batch size and any number of lookups.                                   *)
(***************************************************************************)
EXTENDS RequestPipeline, FiniteSetTheorems, TLAPS

IdOf(r) == IF req[r].id = NoId THEN NewRequestId(r) ELSE req[r].id

\* The request has passed the checks on its batch and its token.
Vetted(r) == req[r].auth \in Token /\ req[r].calls <= MaxBatchSize

\* Before the MCP handler has taken the message of a request.
Early == {"idle", "limit", "body", "token", "mcp"}

\* Nothing has been answered, started or sent.
Untouched(r) ==
    /\ status[r] = 0 /\ running[r] = {}
    /\ \A c \in Call, k \in Query : outbound[<<r, c, k>>].at = "none"

\* The tool calls of a request work for it alone, as long as they run.
CallsReady(r) ==
    /\ Vetted(r)
    /\ ctxToken[r] = req[r].auth /\ ctxId[r] = IdOf(r)
    /\ status[r] \notin Refused

\* What is established when a request comes to a middleware.
ChainInv ==
    \A r \in Req :
        /\ stage[r] \in Early => Untouched(r)
        /\ stage[r] \in Serving => ctxId[r] = IdOf(r)
        /\ stage[r] = "token" => req[r].calls <= MaxBatchSize
        /\ stage[r] \in {"mcp", "serve"} \/ running[r] # {} => CallsReady(r)
        /\ \A c \in running[r] : c <= req[r].calls

\* A request to Paperless-ngx is made for a vetted request, on its behalf.
OutboundInv ==
    \A r \in Req, c \in Call, k \in Query :
        outbound[<<r, c, k>>].at # "none" =>
            /\ Vetted(r)
            /\ c <= req[r].calls
            /\ outbound[<<r, c, k>>].auth = req[r].auth
            /\ outbound[<<r, c, k>>].id = IdOf(r)
            /\ status[r] \notin Refused

\* A request that is past the handlers has its answer; the log line is the last
\* thing they do.
LogInv ==
    \A r \in Req :
        /\ stage[r] \in {"log", "unwind", "done"} => status[r] # 0
        /\ stage[r] \notin {"unwind", "done"} => logged[r] = 0

PInv == TypeOK /\ GaugeIsInFlight /\ ChainInv /\ OutboundInv /\ LogInv /\ AnswersAreLogged

\* The steps of one request other than its tool calls.
OneStep(r) ==
    Healthz(r) \/ Enter(r) \/ ChainStep(r) \/ HangUp(r) \/ Panic(r) \/ Close(r)

-----------------------------------------------------------------------------
LEMMA InitInv == Init => PInv
<1> SUFFICES ASSUME Init PROVE PInv
  OBVIOUS
<1>1. TypeOK
  BY BatchAssumption
  DEF Init, TypeOK, Status, Request, NoRequest, Outbound, NoOutbound, Id, Serving
<1>2. {r \in Req : stage[r] \in Serving} = {}
  BY DEF Init, Serving
<1>3. GaugeIsInFlight
  BY <1>2, FS_EmptySet DEF Init, GaugeIsInFlight
<1>4. \A r \in Req, c \in Call, k \in Query : outbound[<<r, c, k>>].at = "none"
  BY DEF Init, NoOutbound
<1>5. \A r \in Req : /\ status[r] = 0 /\ stage[r] = "idle" /\ logged[r] = 0
                     /\ running[r] = {}
  BY DEF Init
<1>6. LogInv /\ AnswersAreLogged
  BY <1>5 DEF LogInv, AnswersAreLogged
<1> QED
  BY <1>1, <1>3, <1>4, <1>5, <1>6
  DEF PInv, ChainInv, OutboundInv, Serving, Early, Untouched

-----------------------------------------------------------------------------
\* Type correctness and the gauge.
LEMMA GaugePositive ==
  ASSUME TypeOK, GaugeIsInFlight, NEW r \in Req, stage[r] \in Serving
  PROVE  gauge - 1 \in Nat
<1> DEFINE S == {x \in Req : stage[x] \in Serving}
<1>1. IsFiniteSet(S) /\ r \in S
  BY ReqAssumption, FS_Subset
<1>2. Cardinality(S) # 0
  BY <1>1, FS_EmptySet
<1> QED
  BY <1>2 DEF GaugeIsInFlight, TypeOK

LEMMA TypeNext == TypeOK /\ GaugeIsInFlight /\ [Next]_vars => TypeOK'
<1> SUFFICES ASSUME TypeOK, GaugeIsInFlight, [Next]_vars PROVE TypeOK'
  OBVIOUS
<1> USE DEF TypeOK, Status, Served, Refused
<1>1. CASE UNCHANGED vars
  BY <1>1 DEF vars
<1>2. ASSUME NEW r \in Req, Healthz(r) PROVE TypeOK'
  BY <1>2 DEF Healthz, Reply, Move
<1>3. ASSUME NEW r \in Req, Enter(r) PROVE TypeOK'
  BY <1>3 DEF Enter, Move, Request, Id, Serving
<1>4. ASSUME NEW r \in Req, Admit(r) \/ ReadBody(r) \/ Panic(r) PROVE TypeOK'
  BY <1>4 DEF Admit, ReadBody, Panic, Move, Serving
<1>5. ASSUME NEW r \in Req,
             \/ Refuse(r) \/ ReadFails(r) \/ RejectBatch(r)
             \/ RejectToken(r) \/ RejectMessage(r) \/ Finish(r) \/ HangUp(r)
      PROVE  TypeOK'
  <2>1. CASE Refuse(r) \/ ReadFails(r) \/ RejectBatch(r) \/ RejectToken(r)
    BY <2>1 DEF Refuse, ReadFails, RejectBatch, RejectToken, Reply, Move, Serving
  <2>2. CASE RejectMessage(r)
    BY <2>2 DEF RejectMessage, Reply, Move, Serving
  <2>3. CASE Finish(r) \/ HangUp(r)
    BY <2>3 DEF Finish, HangUp, Move, Serving
  <2> QED
    BY <1>5, <2>1, <2>2, <2>3
<1>6. ASSUME NEW r \in Req, Authenticate(r) PROVE TypeOK'
  BY <1>6 DEF Authenticate, Move, Serving
<1>7. ASSUME NEW r \in Req, WriteLog(r) PROVE TypeOK'
  BY <1>7 DEF WriteLog, Move, Serving
<1>8. ASSUME NEW r \in Req, Unwind(r) PROVE TypeOK'
  <2>1. gauge - 1 \in Nat
    BY <1>8, GaugePositive DEF Unwind, Serving
  <2>2. UNCHANGED <<req, ctxId, ctxToken, logged, running, outbound, sharedAuth>>
        /\ stage' \in [Req -> Serving \cup {"idle", "done"}]
    BY <1>8 DEF Unwind, Move
  <2>3. status' \in [Req -> Status]
    BY <1>8 DEF Unwind
  <2>4. gauge' \in Nat
    BY <1>8, <2>1 DEF Unwind
  <2> QED
    BY <2>2, <2>3, <2>4
<1>9. ASSUME NEW r \in Req, Close(r) PROVE TypeOK'
  BY <1>9, BatchAssumption
  DEF Close, Move, Request, NoRequest, Outbound, NoOutbound, Id
<1>10. ASSUME NEW r \in Req, NEW c \in Call, NEW k \in Query, QueryStep(r, c, k)
       PROVE  TypeOK'
  <2>1. <<r, c, k>> \in Req \X Call \X Query
    OBVIOUS
  <2>2. /\ outbound[<<r, c, k>>] \in Outbound
        /\ ctxId[r] \in Id /\ ctxToken[r] \in Token \cup {NoToken}
        /\ AuthSent(outbound[<<r, c, k>>]) \in Token \cup {NoToken}
    BY <2>1 DEF AuthSent, Outbound
  <2>3. CASE Build(r, c, k)
    BY <2>1, <2>2, <2>3 DEF Build, Outbound
  <2>4. CASE Send(r, c, k)
    BY <2>1, <2>2, <2>4 DEF Send, Outbound
  <2>5. CASE Answer(r, c, k)
    BY <2>1, <2>2, <2>5 DEF Answer, Outbound
  <2> QED
    BY <1>10, <2>3, <2>4, <2>5 DEF QueryStep
<1>11. ASSUME NEW r \in Req, NEW c \in Call, EndCall(r, c) PROVE TypeOK'
  BY <1>11 DEF EndCall
<1>12. ASSUME NEW r \in Req, TakeMessage(r) PROVE TypeOK'
  <2>1. 1 .. req[r].calls \subseteq Call
    BY BatchAssumption DEF Request, Call
  <2> QED
    BY <1>12, <2>1 DEF TakeMessage, Move, Serving
<1> QED
  BY <1>1, <1>2, <1>3, <1>4, <1>5, <1>6, <1>7, <1>8, <1>9, <1>10, <1>11, <1>12
  DEF Next, ChainStep, CallStep

LEMMA GaugeNext == PInv /\ [Next]_vars => GaugeIsInFlight'
<1> SUFFICES ASSUME PInv, [Next]_vars PROVE GaugeIsInFlight'
  OBVIOUS
<1> USE DEF PInv
<1> DEFINE S == {x \in Req : stage[x] \in Serving}
<1>0. IsFiniteSet(S)
  BY ReqAssumption, FS_Subset
<1>1. CASE gauge' = gauge /\ S' = S
  BY <1>1 DEF GaugeIsInFlight
<1>2. ASSUME NEW r \in Req, Enter(r) PROVE GaugeIsInFlight'
  <2>1. S' = S \cup {r} /\ r \notin S
    BY <1>2 DEF Enter, Move, TypeOK, Serving
  <2> QED
    BY <1>0, <1>2, <2>1, FS_AddElement DEF Enter, GaugeIsInFlight
<1>3. ASSUME NEW r \in Req, Unwind(r) PROVE GaugeIsInFlight'
  <2>1. S' = S \ {r} /\ r \in S
    BY <1>3 DEF Unwind, Move, TypeOK, Serving
  <2> QED
    BY <1>0, <1>3, <2>1, FS_RemoveElement DEF Unwind, GaugeIsInFlight
<1>4. ASSUME NEW r \in Req, NEW from, NEW to, Move(r, from, to),
             from \in Serving <=> to \in Serving
      PROVE  S' = S
  BY <1>4 DEF Move, TypeOK
<1>5. ASSUME NEW r \in Req, Healthz(r) \/ Close(r) PROVE GaugeIsInFlight'
  BY <1>1, <1>4, <1>5 DEF Healthz, Close, Reply, Serving
<1>6. ASSUME NEW r \in Req, Panic(r) \/ HangUp(r) \/ (ChainStep(r) /\ ~Unwind(r))
      PROVE  GaugeIsInFlight'
  BY <1>1, <1>4, <1>6
  DEF Panic, HangUp, ChainStep, Admit, Refuse, ReadFails, RejectBatch, ReadBody,
      RejectToken, Authenticate, RejectMessage, TakeMessage, Finish, WriteLog,
      Reply, Serving
<1>7. ASSUME NEW r \in Req, CallStep(r) PROVE GaugeIsInFlight'
  BY <1>1, <1>7 DEF CallStep, QueryStep, Build, Send, Answer, EndCall
<1>8. CASE UNCHANGED vars
  BY <1>1, <1>8 DEF vars
<1> QED
  BY <1>2, <1>3, <1>5, <1>6, <1>7, <1>8 DEF Next
-----------------------------------------------------------------------------
\* A step of request r leaves the others as they were.
Same(q) ==
    /\ stage'[q] = stage[q] /\ req'[q] = req[q] /\ ctxId'[q] = ctxId[q]
    /\ ctxToken'[q] = ctxToken[q] /\ status'[q] = status[q]
    /\ logged'[q] = logged[q] /\ running'[q] = running[q]
    /\ \A c \in Call, k \in Query : outbound'[<<q, c, k>>] = outbound[<<q, c, k>>]

LEMMA OneStepFrame ==
  ASSUME TypeOK, NEW r \in Req, OneStep(r), NEW q \in Req \ {r}
  PROVE  Same(q)
BY DEF Same, OneStep, Healthz, Enter, ChainStep, Panic, Close, Admit, Refuse,
       ReadFails, RejectBatch, ReadBody, RejectToken, Authenticate,
       RejectMessage, TakeMessage, Finish, HangUp, WriteLog, Unwind, Reply,
       Move, TypeOK

LEMMA CallStepFrame ==
  ASSUME TypeOK, NEW r \in Req, CallStep(r), NEW q \in Req \ {r}
  PROVE  Same(q)
<1>1. ASSUME NEW c \in Call, NEW k \in Query, QueryStep(r, c, k) PROVE Same(q)
  BY <1>1 DEF Same, QueryStep, Build, Send, Answer, TypeOK
<1>2. ASSUME NEW c \in Call, EndCall(r, c) PROVE Same(q)
  BY <1>2 DEF Same, EndCall, TypeOK
<1> QED
  BY <1>1, <1>2 DEF CallStep

\* ChainInv and OutboundInv, for one request.
Chain(r) ==
    /\ stage[r] \in Early => Untouched(r)
    /\ stage[r] \in Serving => ctxId[r] = IdOf(r)
    /\ stage[r] = "token" => req[r].calls <= MaxBatchSize
    /\ stage[r] \in {"mcp", "serve"} \/ running[r] # {} => CallsReady(r)
    /\ \A c \in running[r] : c <= req[r].calls
    /\ \A c \in Call, k \in Query :
          outbound[<<r, c, k>>].at # "none" =>
            /\ Vetted(r)
            /\ c <= req[r].calls
            /\ outbound[<<r, c, k>>].auth = req[r].auth
            /\ outbound[<<r, c, k>>].id = IdOf(r)
            /\ status[r] \notin Refused

LEMMA ChainStepKeepsOne ==
  ASSUME TypeOK, NEW r \in Req, Chain(r), OneStep(r)
  PROVE  Chain(r)'
<1> USE DEF TypeOK, Chain, IdOf, Vetted, CallsReady, Untouched, Early, Refused
<1>1. CASE Healthz(r)
  BY <1>1 DEF Healthz, Reply, Move, Serving
<1>2. CASE Enter(r)
  BY <1>2 DEF Enter, Move, Request
<1>3. CASE Admit(r) \/ ReadBody(r) \/ Panic(r) \/ WriteLog(r)
  BY <1>3, BatchAssumption
  DEF Admit, ReadBody, Panic, WriteLog, Move, Serving, BatchTooLarge, Request
<1>4. CASE Refuse(r) \/ ReadFails(r) \/ RejectBatch(r) \/ RejectToken(r) \/ RejectMessage(r)
  BY <1>4
  DEF Refuse, ReadFails, RejectBatch, RejectToken, RejectMessage, Reply, Move, Serving
<1>5. CASE Finish(r) \/ HangUp(r)
  BY <1>5 DEF Finish, HangUp, Move, Serving
<1>6. CASE Authenticate(r)
  BY <1>6 DEF Authenticate, Move, Serving
<1>7. CASE Unwind(r)
  BY <1>7 DEF Unwind, Move, Serving, Status, Served
<1>8. CASE Close(r)
  BY <1>8 DEF Close, Move, Serving, NoOutbound
<1>9. CASE TakeMessage(r)
  BY <1>9, BatchAssumption DEF TakeMessage, Move, Serving, Request
<1> QED
  BY <1>1, <1>2, <1>3, <1>4, <1>5, <1>6, <1>7, <1>8, <1>9 DEF OneStep, ChainStep

LEMMA QueryStepKeepsOne ==
  ASSUME TypeOK, NEW r \in Req, NEW c \in Call, NEW k \in Query, QueryStep(r, c, k),
         Chain(r)
  PROVE  Chain(r)'
<1>1. <<r, c, k>> \in Req \X Call \X Query
  OBVIOUS
<1>2. UNCHANGED <<stage, req, ctxId, ctxToken, status, running>>
  BY DEF QueryStep, Build, Send, Answer
<1>3. ASSUME NEW d \in Call, NEW l \in Query, <<d, l>> # <<c, k>>
      PROVE  outbound'[<<r, d, l>>] = outbound[<<r, d, l>>]
  BY <1>3, <1>1 DEF QueryStep, Build, Send, Answer, TypeOK
<1>4. /\ stage[r] \notin Early
      /\ outbound'[<<r, c, k>>].auth = req[r].auth
      /\ outbound'[<<r, c, k>>].id = IdOf(r)
      /\ Vetted(r) /\ c <= req[r].calls
      /\ status[r] \notin Refused
  <2>1. CASE Build(r, c, k)
    BY <1>1, <2>1 DEF Build, MayAsk, Chain, CallsReady, Untouched, TypeOK
  <2>2. CASE Send(r, c, k) \/ Answer(r, c, k)
    <3>1. outbound[<<r, c, k>>].at # "none"
      BY <2>2 DEF Send, Answer
    <3>2. /\ stage[r] \notin Early
          /\ outbound[<<r, c, k>>].auth = req[r].auth
          /\ outbound[<<r, c, k>>].id = IdOf(r)
          /\ Vetted(r) /\ c <= req[r].calls
          /\ status[r] \notin Refused
      BY <3>1 DEF Chain, Untouched
    <3>3. AuthSent(outbound[<<r, c, k>>]) = outbound[<<r, c, k>>].auth
      BY <3>2, TokenAssumption DEF AuthSent, Vetted
    <3>4. /\ outbound'[<<r, c, k>>].auth = outbound[<<r, c, k>>].auth
          /\ outbound'[<<r, c, k>>].id = outbound[<<r, c, k>>].id
      <4> DEFINE x == <<r, c, k>>
                 o == outbound[x]
      <4>1. o \in Outbound /\ x \in DOMAIN outbound
        BY <1>1 DEF TypeOK
      <4>2. outbound'[x] = [o EXCEPT !.at = "sent", !.auth = AuthSent(o)]
            \/ outbound'[x] = [o EXCEPT !.at = "answered"]
        BY <2>2, <4>1 DEF Send, Answer
      <4> QED
        BY <3>3, <4>1, <4>2 DEF Outbound
    <3> QED
      BY <3>2, <3>4
  <2> QED
    BY <2>1, <2>2 DEF QueryStep
<1> QED
  BY <1>2, <1>3, <1>4 DEF Chain, IdOf, Vetted, CallsReady

LEMMA EndCallKeepsOne ==
  ASSUME TypeOK, NEW r \in Req, NEW c \in Call, EndCall(r, c), Chain(r)
  PROVE  Chain(r)'
<1>1. UNCHANGED <<stage, req, ctxId, ctxToken, outbound>> /\ c \in running[r]
  BY DEF EndCall
<1>2. /\ running'[r] = running[r] \ {c}
      /\ status'[r] = status[r] \/ status'[r] = 200
  BY DEF EndCall, TypeOK
<1>3. stage[r] \notin Early
  BY <1>1 DEF Chain, Untouched
<1> QED
  BY <1>1, <1>2, <1>3 DEF Chain, IdOf, Vetted, CallsReady, Refused

LEMMA ChainNext ==
  TypeOK /\ ChainInv /\ OutboundInv /\ [Next]_vars => (ChainInv /\ OutboundInv)'
<1> SUFFICES ASSUME TypeOK, \A q \in Req : Chain(q), [Next]_vars, NEW q \in Req
             PROVE  Chain(q)'
  BY DEF ChainInv, OutboundInv, Chain
<1>1. ASSUME Same(q) PROVE Chain(q)'
  BY <1>1 DEF Same, Chain, IdOf, Vetted, CallsReady, Untouched
<1>2. ASSUME NEW r \in Req, OneStep(r) PROVE Chain(q)'
  BY <1>1, <1>2, ChainStepKeepsOne, OneStepFrame
<1>3. ASSUME NEW r \in Req, CallStep(r) PROVE Chain(q)'
  <2>1. CASE q = r
    BY <1>3, <2>1, QueryStepKeepsOne, EndCallKeepsOne DEF CallStep
  <2> QED
    BY <1>1, <1>3, <2>1, CallStepFrame
<1>4. CASE UNCHANGED vars
  BY <1>1, <1>4 DEF vars, Same
<1> QED
  BY <1>2, <1>3, <1>4 DEF Next, OneStep

\* LogInv and AnswersAreLogged, for one request.
Log(r) ==
    /\ stage[r] \in {"log", "unwind", "done"} => status[r] # 0
    /\ stage[r] \notin {"unwind", "done"} => logged[r] = 0
    /\ stage[r] = "unwind" /\ status[r] \notin {413, 429} => logged[r] # 0
    /\ logged[r] # 0 => logged[r] = status[r]

LEMMA LogNext ==
  TypeOK /\ LogInv /\ AnswersAreLogged /\ [Next]_vars => (LogInv /\ AnswersAreLogged)'
<1> SUFFICES ASSUME TypeOK, \A q \in Req : Log(q), [Next]_vars, NEW q \in Req
             PROVE  Log(q)'
  BY DEF LogInv, AnswersAreLogged, Log
<1>1. ASSUME OneStep(q) PROVE Log(q)'
  <2> USE DEF TypeOK, Log, Move, Reply, Status, Served, Refused
  <2>1. CASE Healthz(q) \/ Enter(q) \/ Close(q)
    BY <2>1 DEF Healthz, Enter, Close
  <2>2. CASE Admit(q) \/ ReadBody(q) \/ Authenticate(q) \/ TakeMessage(q) \/ Panic(q)
    BY <2>2 DEF Admit, ReadBody, Authenticate, TakeMessage, Panic
  <2>3. CASE Refuse(q) \/ ReadFails(q) \/ RejectBatch(q) \/ RejectToken(q)
    BY <2>3 DEF Refuse, ReadFails, RejectBatch, RejectToken
  <2>4. CASE Finish(q) \/ HangUp(q) \/ RejectMessage(q)
    BY <2>4 DEF Finish, HangUp, RejectMessage
  <2>5. CASE WriteLog(q) \/ Unwind(q)
    BY <2>5 DEF WriteLog, Unwind
  <2> QED
    BY <1>1, <2>1, <2>2, <2>3, <2>4, <2>5 DEF OneStep, ChainStep
<1>2. CASE CallStep(q)
  <2>1. UNCHANGED <<stage, logged>>
    BY <1>2 DEF CallStep, QueryStep, Build, Send, Answer, EndCall
  <2>2. status'[q] = status[q] \/ (stage[q] = "serve" /\ status'[q] = 200)
    BY <1>2 DEF CallStep, QueryStep, Build, Send, Answer, EndCall, TypeOK
  <2> QED
    BY <2>1, <2>2 DEF Log
<1>3. ASSUME Same(q) PROVE Log(q)'
  BY <1>3 DEF Same, Log
<1>4. CASE UNCHANGED vars
  BY <1>3, <1>4 DEF vars, Same
<1> QED
  BY <1>1, <1>2, <1>3, <1>4, OneStepFrame, CallStepFrame DEF Next, OneStep

LEMMA Invariance == Spec => []PInv
<1>1. PInv /\ [Next]_vars => PInv'
  BY TypeNext, GaugeNext, ChainNext, LogNext DEF PInv
<1> QED
  BY InitInv, <1>1, PTL DEF Spec

-----------------------------------------------------------------------------
\* Type correctness of the pipeline; in particular the gauge is never negative.
THEOREM TypeCorrect == Spec => []TypeOK
<1>1. PInv => TypeOK
  BY DEF PInv
<1> QED
  BY Invariance, <1>1, PTL

\* The gauge of active requests never drifts, whatever panics
\* (metrics.go:84-92).
THEOREM GaugeIsExact == Spec => []GaugeIsInFlight
<1>1. PInv => GaugeIsInFlight
  BY DEF PInv
<1> QED
  BY Invariance, <1>1, PTL

\* No user's documents are asked for with another user's token, although the
\* HTTP client is shared (main.go:250-275, client.go:247-261).
THEOREM TokensAreIsolated == Spec => []TokenIsolation
<1>1. PInv => TokenIsolation
  BY DEF PInv, OutboundInv, TokenIsolation, IdOf
<1> QED
  BY Invariance, <1>1, PTL

\* One HTTP request costs Paperless-ngx at most the requests of MaxBatchSize calls
\* with all their lookups, a refused one none (middleware.go:77-91, 328-357,
\* tools.go:286-301).
THEOREM AmplificationIsBounded == Spec => []AmplificationBound
<1>1. PInv => AmplificationBound
  <2> SUFFICES ASSUME PInv, NEW r \in Req
               PROVE  /\ Cardinality(Made(r)) <= MaxBatchSize * (1 + MaxLookups)
                      /\ status[r] \in Refused => Made(r) = {}
    BY DEF AmplificationBound
  <2> DEFINE Batch == 1 .. MaxBatchSize
  <2>1. status[r] \in Refused => Made(r) = {}
    BY DEF PInv, OutboundInv, Made
  <2>2. Made(r) \subseteq Batch \X Query
    BY BatchAssumption
    DEF PInv, OutboundInv, Call, Vetted, TypeOK, Request, Made
  <2>3. IsFiniteSet(Batch) /\ Cardinality(Batch) = MaxBatchSize
    BY BatchAssumption, FS_Interval
  <2>4. IsFiniteSet(Query) /\ Cardinality(Query) = 1 + MaxLookups
    BY BatchAssumption, FS_Interval DEF Query
  <2>5. /\ IsFiniteSet(Batch \X Query)
        /\ Cardinality(Batch \X Query) = MaxBatchSize * (1 + MaxLookups)
    <3> HIDE DEF Batch
    <3> QED
      BY <2>3, <2>4, FS_Product
  <2>6. Cardinality(Made(r)) <= MaxBatchSize * (1 + MaxLookups)
    BY <2>2, <2>5, FS_Subset
  <2> QED
    BY <2>1, <2>6
<1> QED
  BY Invariance, <1>1, PTL

\* A log line bears the status the client got, and every answer of the inner
\* handlers has one (middleware.go:268-309).
THEOREM LogIsTrue == Spec => []AnswersAreLogged
<1>1. PInv => AnswersAreLogged
  BY DEF PInv
<1> QED
  BY Invariance, <1>1, PTL

-----------------------------------------------------------------------------
\* The pipeline implements HttpExchange.
IsOpen == [r \in Req |-> stage[r] # "idle"]
MadeBy == [r \in Req |-> Made(r)]

\* A step that makes no request.
LEMMA MadeUnchanged == UNCHANGED outbound => UNCHANGED MadeBy
BY DEF Made, MadeBy

LEMMA MoveIsOpen ==
  ASSUME TypeOK, NEW r \in Req, NEW from, NEW to, Move(r, from, to)
  PROVE  /\ IsOpen[r] <=> from # "idle"
         /\ to # "idle" => IsOpen' = [IsOpen EXCEPT ![r] = TRUE]
         /\ to = "idle" => IsOpen' = [IsOpen EXCEPT ![r] = FALSE]
BY DEF IsOpen, Move, TypeOK

LEMMA ExchangeInit == Init => Exchange!Init
<1> SUFFICES ASSUME Init PROVE Exchange!Init
  OBVIOUS
<1>1. \A r \in Req, c \in Call, k \in Query : outbound[<<r, c, k>>].at = "none"
  BY DEF Init, NoOutbound
<1> QED
  BY <1>1 DEF Init, Exchange!Init, Made

LEMMA ExchangeNext == PInv /\ [Next]_vars => [Exchange!Next]_Exchange!vars
<1> SUFFICES ASSUME PInv, [Next]_vars
             PROVE  Exchange!Next \/ UNCHANGED <<IsOpen, status, MadeBy>>
  BY DEF Exchange!vars, IsOpen, MadeBy
<1> USE DEF Reply
<1>t. TypeOK
  BY DEF PInv
<1>1. ASSUME NEW r \in Req, Healthz(r) PROVE Exchange!OpenAnswered(r)
  <2>1. ~IsOpen[r] /\ IsOpen' = [IsOpen EXCEPT ![r] = TRUE]
    BY <1>1, <1>t, MoveIsOpen DEF Healthz
  <2>2. status' = [status EXCEPT ![r] = 200] /\ UNCHANGED MadeBy
    BY <1>1, MadeUnchanged DEF Healthz
  <2>3. 200 \in Served
    BY DEF Served
  <2> QED
    BY <2>1, <2>2, <2>3 DEF Exchange!OpenAnswered, IsOpen, MadeBy
<1>2. ASSUME NEW r \in Req, Enter(r) PROVE Exchange!Open(r)
  <2>1. ~IsOpen[r] /\ IsOpen' = [IsOpen EXCEPT ![r] = TRUE]
    BY <1>2, <1>t, MoveIsOpen DEF Enter
  <2>2. UNCHANGED <<status, MadeBy>>
    BY <1>2, MadeUnchanged DEF Enter
  <2> QED
    BY <2>1, <2>2 DEF Exchange!Open, IsOpen, MadeBy
<1>3. ASSUME NEW r \in Req, NEW from \in Serving, NEW to \in Serving \cup {"done"},
             Move(r, from, to)
      PROVE  IsOpen[r] /\ IsOpen' = IsOpen
  BY <1>3, <1>t DEF Move, IsOpen, Serving, TypeOK
<1>4. ASSUME NEW r \in Req,
             \/ Refuse(r) \/ ReadFails(r) \/ RejectBatch(r)
             \/ RejectToken(r) \/ RejectMessage(r)
      PROVE  Exchange!Next
  <2>1. IsOpen[r] /\ IsOpen' = IsOpen
    BY <1>3, <1>4
    DEF Refuse, ReadFails, RejectBatch, RejectToken, RejectMessage, Serving
  <2>2. status[r] = 0 /\ MadeBy[r] = {}
    BY <1>4
    DEF Refuse, ReadFails, RejectBatch, RejectToken, RejectMessage, Move, PInv,
        ChainInv, Early, Untouched, Made, MadeBy
  <2>3. UNCHANGED MadeBy
    BY <1>4, MadeUnchanged
    DEF Refuse, ReadFails, RejectBatch, RejectToken, RejectMessage
  <2>4. PICK code \in Refused : status' = [status EXCEPT ![r] = code]
    BY <1>4
    DEF Refuse, ReadFails, RejectBatch, RejectToken, RejectMessage, Refused
  <2>5. Exchange!Answer(r, code)
    BY <2>1, <2>2, <2>3, <2>4 DEF Exchange!Answer, IsOpen, MadeBy
  <2> QED
    BY <2>5 DEF Exchange!Next
<1>5. ASSUME NEW r \in Req, NEW code \in Served, IsOpen[r], UNCHANGED <<IsOpen, MadeBy>>,
             \/ status[r] = 0 /\ status' = [status EXCEPT ![r] = code]
             \/ UNCHANGED status
      PROVE  Exchange!Next \/ UNCHANGED <<IsOpen, status, MadeBy>>
  <2>1. CASE status[r] = 0 /\ status' = [status EXCEPT ![r] = code]
    <3>1. code \notin Refused
      BY DEF Served, Refused
    <3>2. Exchange!Answer(r, code)
      BY <1>5, <2>1, <3>1 DEF Exchange!Answer, IsOpen, MadeBy
    <3> QED
      BY <3>2 DEF Exchange!Next
  <2> QED
    BY <1>5, <2>1
<1>6. ASSUME NEW r \in Req,
             \/ Admit(r) \/ ReadBody(r) \/ Authenticate(r)
             \/ TakeMessage(r) \/ WriteLog(r) \/ Panic(r)
      PROVE  UNCHANGED <<IsOpen, status, MadeBy>>
  BY <1>3, <1>6, MadeUnchanged
  DEF Admit, ReadBody, Authenticate, TakeMessage, WriteLog, Panic, Serving
<1>7. ASSUME NEW r \in Req, Finish(r) \/ HangUp(r) \/ Unwind(r)
      PROVE  Exchange!Next \/ UNCHANGED <<IsOpen, status, MadeBy>>
  <2>1. IsOpen[r] /\ IsOpen' = IsOpen
    BY <1>3, <1>7 DEF Finish, HangUp, Unwind, Serving
  <2>2. UNCHANGED MadeBy
    BY <1>7, MadeUnchanged DEF Finish, HangUp, Unwind
  <2>3. \E code \in Served : \/ status[r] = 0 /\ status' = [status EXCEPT ![r] = code]
                             \/ UNCHANGED status
    BY <1>7, <1>t DEF Finish, HangUp, Unwind, TypeOK, Served
  <2> QED
    BY <1>5, <2>1, <2>2, <2>3
<1>8. ASSUME NEW r \in Req, Close(r) PROVE Exchange!Close(r)
  <2>1. IsOpen[r] /\ IsOpen' = [IsOpen EXCEPT ![r] = FALSE]
    BY <1>8, <1>t, MoveIsOpen DEF Close
  <2>2. status[r] # 0 /\ status' = [status EXCEPT ![r] = 0]
    BY <1>8 DEF Close, Move, PInv, LogInv
  <2>3. MadeBy' = [MadeBy EXCEPT ![r] = {}]
    <3>1. \A q \in Req : MadeBy'[q] = IF q = r THEN {} ELSE MadeBy[q]
      <4>1. \A q \in Req, c \in Call, k \in Query :
               outbound'[<<q, c, k>>] = IF q = r THEN NoOutbound ELSE outbound[<<q, c, k>>]
        BY <1>8 DEF Close
      <4> QED
        BY <4>1 DEF Made, MadeBy, NoOutbound
    <3> QED
      BY <3>1 DEF MadeBy
  <2> QED
    BY <2>1, <2>2, <2>3 DEF Exchange!Close, IsOpen, MadeBy
<1>9. ASSUME NEW r \in Req, NEW c \in Call, NEW k \in Query, Build(r, c, k)
      PROVE  Exchange!Next
  <2>1. UNCHANGED <<IsOpen, status>>
    BY <1>9 DEF Build, IsOpen
  <2>2. IsOpen[r] /\ status[r] \notin Refused /\ c \in 1 .. MaxBatchSize
    <3>1. c \in running[r]
      BY <1>9 DEF Build, MayAsk
    <3>2. stage[r] \notin Early /\ CallsReady(r) /\ c <= req[r].calls
      BY <3>1 DEF PInv, ChainInv, Untouched
    <3>3. req[r].calls \in Nat /\ req[r].calls <= MaxBatchSize /\ c \in Nat \ {0}
      BY <3>2, <1>t, BatchAssumption DEF CallsReady, Vetted, TypeOK, Request, Call
    <3>4. c \in 1 .. MaxBatchSize
      BY <3>2, <3>3, BatchAssumption
    <3>5. stage[r] # "idle" /\ status[r] \notin Refused
      BY <3>2 DEF CallsReady, Early
    <3> QED
      BY <3>4, <3>5 DEF IsOpen
  <2>3. <<c, k>> \notin MadeBy[r] /\ (k # 0 => <<c, 0>> \in MadeBy[r])
    <3>1. <<c, k>> \notin MadeBy[r]
      BY <1>9 DEF Build, MayAsk, Made, MadeBy
    <3>2. ASSUME k # 0 PROVE <<c, 0>> \in MadeBy[r]
      <4>1. 0 \in Query /\ k > 0
        BY <3>2, BatchAssumption DEF Query
      <4>2. outbound[<<r, c, 0>>].at = "answered"
        BY <1>9, <4>1 DEF Build, MayAsk
      <4> QED
        BY <4>1, <4>2 DEF Made, MadeBy
    <3> QED
      BY <3>1, <3>2
  <2>4. MadeBy' = [MadeBy EXCEPT ![r] = @ \cup {<<c, k>>}]
    <3>1. \A q \in Req, d \in Call, l \in Query :
             outbound'[<<q, d, l>>].at = IF q = r /\ d = c /\ l = k
                                         THEN "built" ELSE outbound[<<q, d, l>>].at
      BY <1>9, <1>t DEF Build, TypeOK
    <3>2. \A q \in Req : MadeBy'[q] = IF q = r THEN MadeBy[q] \cup {<<c, k>>}
                                               ELSE MadeBy[q]
      BY <3>1 DEF Made, MadeBy
    <3> QED
      BY <3>2 DEF MadeBy
  <2>5. Exchange!Make(r, c, k)
    BY <2>1, <2>2, <2>3, <2>4 DEF Exchange!Make, IsOpen, MadeBy
  <2> QED
    BY <2>2, <2>5 DEF Exchange!Next
<1>10. ASSUME NEW r \in Req, NEW c \in Call, NEW k \in Query,
              Send(r, c, k) \/ Answer(r, c, k)
       PROVE  UNCHANGED <<IsOpen, status, MadeBy>>
  <2>1. UNCHANGED <<stage, status>>
    BY <1>10 DEF Send, Answer
  <2>2. \A q \in Req, d \in Call, l \in Query :
           outbound'[<<q, d, l>>].at = "none" <=> outbound[<<q, d, l>>].at = "none"
    BY <1>10, <1>t DEF Send, Answer, TypeOK, Outbound
  <2> QED
    BY <2>1, <2>2 DEF IsOpen, Made, MadeBy
<1>11. ASSUME NEW r \in Req, NEW c \in Call, EndCall(r, c)
       PROVE  Exchange!Next \/ UNCHANGED <<IsOpen, status, MadeBy>>
  <2>1. UNCHANGED <<IsOpen, MadeBy>>
    BY <1>11, MadeUnchanged DEF EndCall, IsOpen
  <2>2. IsOpen[r]
    BY <1>11 DEF EndCall, PInv, ChainInv, Early, Untouched, IsOpen
  <2>3. \/ status[r] = 0 /\ status' = [status EXCEPT ![r] = 200]
        \/ UNCHANGED status
    BY <1>11, <1>t DEF EndCall, TypeOK
  <2>4. 200 \in Served
    BY DEF Served
  <2> QED
    BY <1>5, <2>1, <2>2, <2>3, <2>4
<1>12. CASE UNCHANGED vars
  BY <1>12, MadeUnchanged DEF vars, IsOpen
<1> QED
  BY <1>1, <1>2, <1>4, <1>6, <1>7, <1>8, <1>9, <1>10, <1>11, <1>12
  DEF Next, ChainStep, CallStep, QueryStep, Exchange!Next

\* Whatever panics, whoever goes and however requests interleave, each is answered
\* once, a refused one never leads to a request to Paperless-ngx, and a served one
\* only to those of one batch, each once and lookups after what they are for
\* (main.go:102-129).
THEOREM PipelineImplementsExchange == Spec => ImplementsExchange
BY Invariance, ExchangeInit, ExchangeNext, PTL DEF Spec, ImplementsExchange, Exchange!Spec
=============================================================================
