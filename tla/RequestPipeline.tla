--------------------------- MODULE RequestPipeline ---------------------------
(***************************************************************************)
(* HTTP requests on their way through the middleware chain of the server   *)
(* (main.go:95-129): recovery, request id, metrics, rate limit, body       *)
(* limit, logging, token, client injection, and the MCP handler, whose     *)
(* tool calls make requests to Paperless-ngx.                              *)
(*                                                                         *)
(* Every request runs in a goroutine of its own and shares three things    *)
(* with the others: the gauge of active requests, the rate limiter (a      *)
(* verdict here, modelled in RateLimiter) and the one HTTP client.  Any    *)
(* handler may panic; what is deferred still runs.                         *)
(*                                                                         *)
(* A request is its Authorization header, its X-Request-ID and its number  *)
(* of tool calls.  The MCP handler runs the calls in goroutines of their   *)
(* own and streams each result as it comes, so that the response begins    *)
(* while other calls go on, and calls go on when the client has gone or    *)
(* the handler has panicked.  A call makes a first request to Paperless-   *)
(* ngx and, once that is answered, lookups.                                *)
(***************************************************************************)
EXTENDS Naturals, FiniteSets

CONSTANTS
    Req,           \* places for requests being served
    Token,         \* API tokens of acceptable length
    NoToken,       \* no Authorization header, or a malformed one
    LongToken,     \* a token longer than MaxTokenLength
    RequestId,     \* ids a proxy may send
    NoId,          \* no X-Request-ID header
    MaxBatchSize,  \* 100 in the code
    MaxLookups     \* of a tool call: two for each document of a page of 100

ASSUME ReqAssumption == IsFiniteSet(Req)

ASSUME BatchAssumption == MaxBatchSize \in Nat /\ MaxLookups \in Nat

ASSUME TokenAssumption ==
    /\ NoToken \notin Token /\ LongToken \notin Token
    /\ NoId \notin RequestId
    /\ \A r \in Req : <<"generated", r>> \notin RequestId \cup {NoId}

VARIABLES
    stage,      \* the middleware each request has come to
    req,        \* the request as it came in
    ctxId,      \* request_id in its context
    ctxToken,   \* token in its context, and of its Paperless-ngx client
    status,     \* HTTP status sent, 0 before the response begins
    logged,     \* status in the request's log line, 0 if there is none
    gauge,      \* mcp_active_requests
    running,    \* tool calls the MCP handler has started and has no result of
    outbound,   \* the requests to Paperless-ngx of each tool call
    sharedAuth  \* Authorization header of the shared HTTP client itself

vars == <<stage, req, ctxId, ctxToken, status, logged, gauge, running,
          outbound, sharedAuth>>

-----------------------------------------------------------------------------
\* A batch that is one call too long stands for all that are.
Call == 1 .. (MaxBatchSize + 1)

\* The requests of a call: 0 is its search or its document, the others lookups.
Query == 0 .. MaxLookups

Request == [auth : Token \cup {NoToken, LongToken},
            id : RequestId \cup {NoId},
            calls : 0 .. (MaxBatchSize + 1)]

NoRequest == [auth |-> NoToken, id |-> NoId, calls |-> 0]

\* newRequestID draws 8 random bytes, which nothing else has drawn.
NewRequestId(r) == <<"generated", r>>

Id == RequestId \cup {NoId} \cup {NewRequestId(r) : r \in Req}

\* An outbound request is built on the shared client, then sent.
Outbound == [at : {"none", "built", "sent", "answered"},
             auth : Token \cup {NoToken}, id : Id]

NoOutbound == [at |-> "none", auth |-> NoToken, id |-> NoId]

\* Statuses of the answers to requests that may have made calls, and of others.
Served == {200, 202, 500}
Refused == {400, 401, 405, 413, 429}

Status == {0} \cup Served \cup Refused

\* Between the increment of the gauge and its deferred decrement.
Serving == {"limit", "body", "token", "mcp", "serve", "log", "unwind",
            "panic"}

\* Requests of a tool call that Paperless-ngx has yet to answer.
InFlight(r, c) == {k \in Query : outbound[<<r, c, k>>].at \in {"built", "sent"}}

\* Off by one: the batch one call too long is let through.
BatchTooLargeByOne(n) == n > MaxBatchSize + 1

BatchTooLarge(n) == n > MaxBatchSize

-----------------------------------------------------------------------------
Init ==
    /\ stage = [r \in Req |-> "idle"]
    /\ req = [r \in Req |-> NoRequest]
    /\ ctxId = [r \in Req |-> NoId]
    /\ ctxToken = [r \in Req |-> NoToken]
    /\ status = [r \in Req |-> 0]
    /\ logged = [r \in Req |-> 0]
    /\ gauge = 0
    /\ running = [r \in Req |-> {}]
    /\ outbound = [x \in Req \X Call \X Query |-> NoOutbound]
    /\ sharedAuth = NoToken

Move(r, from, to) ==
    /\ stage[r] = from
    /\ stage' = [stage EXCEPT ![r] = to]

\* http.Error: the response begins and the handler returns.
Reply(r, from, to, code) ==
    /\ Move(r, from, to)
    /\ status' = [status EXCEPT ![r] = code]

\* A health check is answered by the mux, outside the chain.
Healthz(r) ==
    /\ Reply(r, "idle", "done", 200)
    /\ UNCHANGED <<req, ctxId, ctxToken, logged, gauge, running, outbound,
                   sharedAuth>>

\* A request comes in, gets its id and is counted.
Enter(r) ==
    /\ Move(r, "idle", "limit")
    /\ \E q \in Request :
          /\ req' = [req EXCEPT ![r] = q]
          /\ ctxId' = [ctxId EXCEPT ![r] =
                          IF q.id = NoId THEN NewRequestId(r) ELSE q.id]
    /\ gauge' = gauge + 1
    /\ UNCHANGED <<ctxToken, status, logged, running, outbound,
                   sharedAuth>>

\* RateLimitMiddleware.
Admit(r) ==
    /\ Move(r, "limit", "body")
    /\ UNCHANGED <<req, ctxId, ctxToken, status, logged, gauge, running,
                   outbound, sharedAuth>>

Refuse(r) ==
    /\ Reply(r, "limit", "unwind", 429)
    /\ UNCHANGED <<req, ctxId, ctxToken, logged, gauge, running, outbound,
                   sharedAuth>>

\* LoggingMiddleware reads the body, which may be larger than the limit or
\* never arrive in full.
ReadFails(r) ==
    /\ Reply(r, "body", "unwind", 413)
    /\ UNCHANGED <<req, ctxId, ctxToken, logged, gauge, running, outbound,
                   sharedAuth>>

RejectBatch(r) ==
    /\ BatchTooLarge(req[r].calls)
    /\ Reply(r, "body", "unwind", 400)
    /\ logged' = [logged EXCEPT ![r] = 400]
    /\ UNCHANGED <<req, ctxId, ctxToken, gauge, running, outbound,
                   sharedAuth>>

ReadBody(r) ==
    /\ ~BatchTooLarge(req[r].calls)
    /\ Move(r, "body", "token")
    /\ UNCHANGED <<req, ctxId, ctxToken, status, logged, gauge, running,
                   outbound, sharedAuth>>

\* TokenMiddleware; LoggingMiddleware logs once it has returned.
RejectToken(r) ==
    /\ req[r].auth \in {NoToken, LongToken}
    /\ Reply(r, "token", "log", 401)
    /\ UNCHANGED <<req, ctxId, ctxToken, logged, gauge, running, outbound,
                   sharedAuth>>

\* The token goes into the context and injectClientMiddleware makes a client
\* of it; its own check for a missing token never fails after this one.
Authenticate(r) ==
    /\ req[r].auth \in Token
    /\ Move(r, "token", "mcp")
    /\ ctxToken' = [ctxToken EXCEPT ![r] = req[r].auth]
    /\ UNCHANGED <<req, ctxId, status, logged, gauge, running, outbound,
                   sharedAuth>>

-----------------------------------------------------------------------------
\* The MCP handler takes the message, and starts its tool calls.
TakeMessage(r) ==
    /\ Move(r, "mcp", "serve")
    /\ running' = [running EXCEPT ![r] = 1 .. req[r].calls]
    /\ UNCHANGED <<req, ctxId, ctxToken, status, logged, gauge, outbound,
                   sharedAuth>>

\* It refuses one that is no MCP message, or of another HTTP method than POST.
RejectMessage(r) ==
    /\ \E code \in {400, 405} : Reply(r, "mcp", "log", code)
    /\ UNCHANGED <<req, ctxId, ctxToken, logged, gauge, running, outbound,
                   sharedAuth>>

\* A call begins with its first request; its page says what to look up.
MayAsk(r, c, k) ==
    /\ c \in running[r]
    /\ outbound[<<r, c, k>>].at = "none"
    /\ k > 0 => outbound[<<r, c, 0>>].at = "answered"

\* Mistake: the token is set on the client all requests share.
BuildOnShared(r, c, k) ==
    /\ MayAsk(r, c, k)
    /\ outbound' = [outbound EXCEPT ![<<r, c, k>>] =
          [at |-> "built", auth |-> NoToken, id |-> ctxId[r]]]
    /\ sharedAuth' = ctxToken[r]
    /\ UNCHANGED <<stage, req, ctxId, ctxToken, status, logged, gauge, running>>

\* doRequest: httpClient.R() with the headers of this request.
Build(r, c, k) ==
    /\ MayAsk(r, c, k)
    /\ outbound' = [outbound EXCEPT ![<<r, c, k>>] =
          [at |-> "built", auth |-> ctxToken[r], id |-> ctxId[r]]]
    /\ UNCHANGED <<stage, req, ctxId, ctxToken, status, logged, gauge, running,
                   sharedAuth>>

\* A header the request does not have comes from the shared client.
AuthSent(o) == IF o.auth = NoToken THEN sharedAuth ELSE o.auth

Send(r, c, k) ==
    /\ outbound[<<r, c, k>>].at = "built"
    /\ outbound' = [outbound EXCEPT
          ![<<r, c, k>>].at = "sent",
          ![<<r, c, k>>].auth = AuthSent(outbound[<<r, c, k>>])]
    /\ UNCHANGED <<stage, req, ctxId, ctxToken, status, logged, gauge, running,
                   sharedAuth>>

\* Paperless-ngx answers, or the request fails.
Answer(r, c, k) ==
    /\ outbound[<<r, c, k>>].at = "sent"
    /\ outbound' = [outbound EXCEPT ![<<r, c, k>>].at = "answered"]
    /\ UNCHANGED <<stage, req, ctxId, ctxToken, status, logged, gauge, running,
                   sharedAuth>>

\* The handler of a tool returns, also without a request if its input is not
\* valid.  The first result begins the response, if anybody still serves it.
EndCall(r, c) ==
    /\ c \in running[r]
    /\ InFlight(r, c) = {}
    /\ running' = [running EXCEPT ![r] = @ \ {c}]
    /\ status' = [status EXCEPT ![r] =
                     IF stage[r] = "serve" /\ @ = 0 THEN 200 ELSE @]
    /\ UNCHANGED <<stage, req, ctxId, ctxToken, logged, gauge, outbound,
                   sharedAuth>>

\* Every call has its result, which ends the response.  A message without calls
\* is answered here, one that asks for nothing with 202.
Finish(r) ==
    /\ running[r] = {}
    /\ Move(r, "serve", "log")
    /\ IF status[r] = 0
       THEN \E code \in {200, 202} : status' = [status EXCEPT ![r] = code]
       ELSE UNCHANGED status
    /\ UNCHANGED <<req, ctxId, ctxToken, logged, gauge, running, outbound,
                   sharedAuth>>

\* The client goes: the MCP handler returns, and its calls go on.  A handler
\* that has written nothing has answered 200.
HangUp(r) ==
    /\ Move(r, "serve", "log")
    /\ status' = [status EXCEPT ![r] = IF @ = 0 THEN 200 ELSE @]
    /\ UNCHANGED <<req, ctxId, ctxToken, logged, gauge, running, outbound,
                   sharedAuth>>

\* Mistake: the inner handlers do not answer through the writer that notes the
\* status, which is 200 as long as nothing is noted.
WriteLogUnnoted(r) ==
    /\ Move(r, "log", "unwind")
    /\ logged' = [logged EXCEPT ![r] = 200]
    /\ UNCHANGED <<req, ctxId, ctxToken, status, gauge, running, outbound,
                   sharedAuth>>

\* The log line, written after the inner handlers have returned.
WriteLog(r) ==
    /\ Move(r, "log", "unwind")
    /\ logged' = [logged EXCEPT ![r] = status[r]]
    /\ UNCHANGED <<req, ctxId, ctxToken, status, gauge, running, outbound,
                   sharedAuth>>

\* A handler of the chain panics.
Panic(r) ==
    /\ stage[r] \in {"limit", "body", "token", "mcp", "serve", "log"}
    /\ Move(r, stage[r], "panic")
    /\ UNCHANGED <<req, ctxId, ctxToken, status, logged, gauge, running,
                   outbound, sharedAuth>>

\* Mistakes: the gauge is decremented twice; the decrement is not deferred; the
\* panic is not recovered; the 500 takes the place of the answer.
UnwindTwice(r) ==
    /\ stage[r] \in {"unwind", "panic"}
    /\ Move(r, stage[r], "done")
    /\ gauge' = gauge - 2
    /\ status' = [status EXCEPT ![r] =
                     IF stage[r] = "panic" /\ @ = 0 THEN 500 ELSE @]
    /\ UNCHANGED <<req, ctxId, ctxToken, logged, running, outbound,
                   sharedAuth>>

UnwindUndeferred(r) ==
    /\ stage[r] \in {"unwind", "panic"}
    /\ Move(r, stage[r], "done")
    /\ gauge' = IF stage[r] = "panic" THEN gauge ELSE gauge - 1
    /\ status' = [status EXCEPT ![r] =
                     IF stage[r] = "panic" /\ @ = 0 THEN 500 ELSE @]
    /\ UNCHANGED <<req, ctxId, ctxToken, logged, running, outbound,
                   sharedAuth>>

UnwindUnrecovered(r) ==
    /\ Move(r, "unwind", "done")
    /\ gauge' = gauge - 1
    /\ UNCHANGED <<req, ctxId, ctxToken, status, logged, running, outbound,
                   sharedAuth>>

UnwindOverwriting(r) ==
    /\ stage[r] \in {"unwind", "panic"}
    /\ Move(r, stage[r], "done")
    /\ gauge' = gauge - 1
    /\ status' = [status EXCEPT ![r] = IF stage[r] = "panic" THEN 500 ELSE @]
    /\ UNCHANGED <<req, ctxId, ctxToken, logged, running, outbound,
                   sharedAuth>>

\* MetricsMiddleware and RecoveryMiddleware return, or run their deferred
\* functions.  The 500 cannot replace a response that has begun.
Unwind(r) ==
    /\ stage[r] \in {"unwind", "panic"}
    /\ Move(r, stage[r], "done")
    /\ gauge' = gauge - 1
    /\ status' = [status EXCEPT ![r] =
                     IF stage[r] = "panic" /\ @ = 0 THEN 500 ELSE @]
    /\ UNCHANGED <<req, ctxId, ctxToken, logged, running, outbound,
                   sharedAuth>>

\* Its place is free for another request when nothing runs for it any more.
Close(r) ==
    /\ Move(r, "done", "idle")
    /\ running[r] = {}
    /\ req' = [req EXCEPT ![r] = NoRequest]
    /\ ctxId' = [ctxId EXCEPT ![r] = NoId]
    /\ ctxToken' = [ctxToken EXCEPT ![r] = NoToken]
    /\ status' = [status EXCEPT ![r] = 0]
    /\ logged' = [logged EXCEPT ![r] = 0]
    /\ outbound' = [x \in Req \X Call \X Query |->
                       IF x[1] = r THEN NoOutbound ELSE outbound[x]]
    /\ UNCHANGED <<gauge, running, sharedAuth>>

-----------------------------------------------------------------------------
\* What a request's own goroutines do once it is in, unless they panic.
ChainStep(r) ==
    \/ Admit(r) \/ Refuse(r)
    \/ ReadFails(r) \/ RejectBatch(r) \/ ReadBody(r)
    \/ RejectToken(r) \/ Authenticate(r)
    \/ RejectMessage(r) \/ TakeMessage(r)
    \/ Finish(r) \/ WriteLog(r) \/ Unwind(r)

QueryStep(r, c, k) == Build(r, c, k) \/ Send(r, c, k) \/ Answer(r, c, k)

\* What the goroutines of its calls do.
CallStep(r) ==
    \E c \in Call : EndCall(r, c) \/ \E k \in Query : QueryStep(r, c, k)

Next ==
    \E r \in Req :
        \/ Healthz(r) \/ Enter(r)
        \/ ChainStep(r)
        \/ CallStep(r)
        \/ HangUp(r) \/ Panic(r)
        \/ Close(r)

Spec == Init /\ [][Next]_vars

\* The scheduler runs goroutines that can run; a request to Paperless-ngx ends
\* by its answer or by the client's timeout (main.go:52).  The calls of a request
\* have a bounded number of steps, so that their fairness may be shared.
FairSpec ==
    /\ Spec
    /\ \A r \in Req : WF_vars(ChainStep(r)) /\ WF_vars(CallStep(r))

-----------------------------------------------------------------------------
\* Every variable keeps its type.
TypeOK ==
    /\ stage \in [Req -> Serving \cup {"idle", "done"}]
    /\ req \in [Req -> Request]
    /\ ctxId \in [Req -> Id]
    /\ ctxToken \in [Req -> Token \cup {NoToken}]
    /\ status \in [Req -> Status]
    /\ logged \in [Req -> Status]
    /\ gauge \in Nat
    /\ running \in [Req -> SUBSET Call]
    /\ outbound \in [Req \X Call \X Query -> Outbound]
    /\ sharedAuth \in Token \cup {NoToken}

\* mcp_active_requests is the number of requests in the chain, however each
\* of them ends (metrics.go:87-88): it never drifts.
GaugeIsInFlight == gauge = Cardinality({r \in Req : stage[r] \in Serving})

\* What is sent to Paperless-ngx for a request bears that request's token and
\* request id, although all requests share one HTTP client (main.go:259,
\* client.go:253-261).
TokenIsolation ==
    \A r \in Req, c \in Call, k \in Query :
        LET o == outbound[<<r, c, k>>]
        IN  o.at \in {"sent", "answered"} =>
               /\ o.auth = req[r].auth
               /\ o.id = (IF req[r].id = NoId THEN NewRequestId(r) ELSE req[r].id)

\* The requests to Paperless-ngx that a request has led to.
Made(r) == {x \in Call \X Query : outbound[<<r, x[1], x[2]>>].at # "none"}

\* A refused request costs Paperless-ngx nothing, whoever refuses it, and one
\* that is served no more requests than MaxBatchSize calls with all their
\* lookups, although calls outlive the answer, its client and the handler
\* (middleware.go:112-116, tools.go:286-301).
AmplificationBound ==
    \A r \in Req :
        /\ Cardinality(Made(r)) <= MaxBatchSize * (1 + MaxLookups)
        /\ status[r] \in Refused => Made(r) = {}

\* A request that has entered the chain is answered and leaves it, even if a
\* handler panics (middleware.go:229-242).
RequestsEnd == \A r \in Req : stage[r] = "limit" ~> stage[r] = "done" /\ status[r] # 0

\* An answer of the MCP handler, of TokenMiddleware or for a batch has a log
\* line when the request leaves the chain, and a log line bears the status that
\* the client got, also if something panics (middleware.go:268-309).
AnswersAreLogged ==
    \A r \in Req :
        /\ stage[r] = "unwind" /\ status[r] \notin {413, 429} => logged[r] # 0
        /\ logged[r] # 0 => logged[r] = status[r]

\* Seen from outside, a request is there, has its answer, and has led to
\* requests to Paperless-ngx.
Exchange == INSTANCE HttpExchange WITH
    Place <- Req,
    Call <- 1 .. MaxBatchSize,
    open <- [r \in Req |-> stage[r] # "idle"],
    answer <- status,
    made <- [r \in Req |-> Made(r)]

\* Panics, recovery, the reuse of a place, clients that go and the interleaving
\* of tool calls are invisible from outside: each request is answered exactly
\* once, a refused one never leads to a request to Paperless-ngx, not even
\* later, and one that is served only to those of the calls of one batch, each
\* once, a call's lookups after its first request (main.go:102-129,
\* middleware.go:232-242, tools.go:286-301).
ImplementsExchange == Exchange!Spec
=============================================================================
