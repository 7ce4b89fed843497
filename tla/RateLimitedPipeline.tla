------------------------- MODULE RateLimitedPipeline -------------------------
(***************************************************************************)
(* The middleware chain with its rate limiter.  RequestPipeline leaves the *)
(* verdict open; here it comes from PersistentBuckets, which RateLimiter   *)
(* implements, in the two steps in which goroutines can interleave.        *)
(*                                                                         *)
(* An observer opens a window when it likes, on one client or on all of    *)
(* them, and counts the tokens taken and the tool calls made in it, other  *)
(* than calls of requests whose token was taken before the window opened.  *)
(***************************************************************************)
EXTENDS RequestPipeline

CONSTANTS
    Client, Nil,            \* client addresses; the lack of one
    Everyone,               \* the observer watches all clients
    Cost,                   \* credits in a token
    GlobalRate, GlobalCap,  \* credits gained per tick, and at most held
    ClientRate, ClientCap,
    MaxTime                 \* bound of the clock

ASSUME BucketAssumption ==
    /\ Cost \in Nat \ {0} /\ MaxTime \in Nat
    /\ GlobalRate \in Nat /\ GlobalCap \in Nat
    /\ ClientRate \in Nat /\ ClientCap \in Nat
    /\ Nil \notin Client /\ Everyone \notin Client \cup {Nil}

VARIABLES
    server, level, \* credit in the server's and in each client's bucket
    verdict,       \* how far each request is with the limiter
    who,           \* the client a request comes from
    now,           \* the clock
    watched,       \* whom the observer watches, Nil before the window opens
    opened,        \* when the window opened
    granted,       \* tokens taken in the window
    spent,         \* tool calls counted
    paid           \* whether a request's token was taken in the window

bucketVars == <<server, level, verdict, who>>
windowVars == <<watched, opened, granted, spent, paid>>
limiterVars == <<bucketVars, now, windowVars>>
allVars == <<vars, limiterVars>>

Buckets == INSTANCE PersistentBuckets WITH stage <- verdict

-----------------------------------------------------------------------------
LInit ==
    /\ Init
    /\ Buckets!Init
    /\ now = 0
    /\ watched = Nil /\ opened = 0 /\ granted = 0 /\ spent = 0
    /\ paid = [r \in Req |-> "unpaid"]

\* The window opens.  A request pays where the watched bucket is asked.
OpenWindow(x) ==
    /\ watched = Nil
    /\ watched' = x
    /\ opened' = now
    /\ paid' = [r \in Req |->
                   IF verdict[r] = "allowed" \/ (verdict[r] = "passed" /\ x = Everyone)
                   THEN "before" ELSE "unpaid"]
    /\ UNCHANGED <<vars, bucketVars, now, granted, spent>>

TakeToken(r, x) ==
    /\ granted' = IF watched = x THEN granted + 1 ELSE granted
    /\ paid' = IF watched = x THEN [paid EXCEPT ![r] = "within"] ELSE paid

\* Allow asks the server's bucket, and then its client's.
AskServer(r, c) ==
    /\ stage[r] = "limit"
    /\ \/ Buckets!Pass(r, c) /\ TakeToken(r, Everyone)
       \/ Buckets!RefuseAll(r, c) /\ UNCHANGED <<granted, paid>>
    /\ UNCHANGED <<vars, now, watched, opened, spent>>

AskClient(r) ==
    /\ \/ Buckets!Admit(r) /\ TakeToken(r, who[r])
       \/ Buckets!RefuseClient(r) /\ UNCHANGED <<granted, paid>>
    /\ UNCHANGED <<vars, now, watched, opened, spent>>

\* Mistake: no return after the 429 is sent.
PassOnAnyway(r) ==
    /\ verdict[r] \in {"allowed", "refused"}
    /\ Admit(r)
    /\ UNCHANGED limiterVars

\* RateLimitMiddleware acts on the verdict.
PassOn(r) ==
    /\ verdict[r] = "allowed"
    /\ Admit(r)
    /\ UNCHANGED limiterVars

TurnAway(r) ==
    /\ verdict[r] = "refused"
    /\ Refuse(r)
    /\ UNCHANGED limiterVars

\* Nothing inside Allow can panic.
LPanic(r) ==
    /\ verdict[r] # "passed"
    /\ Panic(r)
    /\ UNCHANGED limiterVars

\* Nothing runs for the request any more, whether or not it has come to the
\* limiter; until then its calls go by the verdict.
LClose(r) ==
    /\ Close(r)
    /\ IF verdict[r] = "idle" THEN UNCHANGED bucketVars ELSE Buckets!Respond(r)
    /\ paid' = [paid EXCEPT ![r] = "unpaid"]
    /\ UNCHANGED <<now, watched, opened, granted, spent>>

IsWatched(r) == watched # Nil /\ watched \in {Everyone, who[r]}

\* A tool call begins with its first request.
LBuild(r, c, k) ==
    /\ Build(r, c, k)
    /\ spent' = IF k = 0 /\ IsWatched(r) /\ paid[r] # "before"
                THEN spent + 1 ELSE spent
    /\ UNCHANGED <<bucketVars, now, watched, opened, granted, paid>>

\* Steps of the chain and of tool calls that have nothing to do with the limiter.
Elsewhere(r) ==
    /\ \/ Healthz(r) \/ Enter(r)
       \/ ReadFails(r) \/ RejectBatch(r) \/ ReadBody(r)
       \/ RejectToken(r) \/ Authenticate(r)
       \/ RejectMessage(r) \/ TakeMessage(r)
       \/ \E c \in Call :
             EndCall(r, c) \/ \E k \in Query : Send(r, c, k) \/ Answer(r, c, k)
       \/ Finish(r) \/ HangUp(r) \/ WriteLog(r) \/ Unwind(r)
    /\ UNCHANGED limiterVars

Tick ==
    /\ now < MaxTime
    /\ now' = now + 1
    /\ Buckets!Refill
    /\ UNCHANGED <<vars, windowVars>>

LNext ==
    \/ \E r \in Req :
          \/ \E c \in Client : AskServer(r, c)
          \/ AskClient(r)
          \/ PassOn(r) \/ TurnAway(r) \/ LPanic(r) \/ LClose(r)
          \/ \E c \in Call, k \in Query : LBuild(r, c, k)
          \/ Elsewhere(r)
    \/ \E x \in Client \cup {Everyone} : OpenWindow(x)
    \/ Tick

LSpec == LInit /\ [][LNext]_allVars

-----------------------------------------------------------------------------
WatchedCap == IF watched = Everyone THEN GlobalCap ELSE ClientCap
WatchedRate == IF watched = Everyone THEN GlobalRate ELSE ClientRate

\* Whatever clients send, and however their requests interleave, panic or fail,
\* the tool calls that begin in a window of w ticks are at most MaxBatchSize for
\* each token of a full bucket and of what it gains in w ticks; so for every
\* client, and for all of them together (ratelimit.go:75-97, 139-147,
\* middleware.go:112-116, 262-266, main.go:105-129).
LoadIsBounded ==
    watched # Nil =>
        spent * Cost <= MaxBatchSize * (WatchedCap + (now - opened) * WatchedRate)
=============================================================================
