--------------------------- MODULE PaperlessClient ---------------------------
(***************************************************************************)
(* One request of the Paperless-ngx client (doRequest and the methods that *)
(* decode its body, infrastructure/paperless/client.go), over the HTTP     *)
(* client all requests share (newSharedHTTPClient, cmd/server/main.go): up *)
(* to RetryCount + 1 attempts, each within Timeout, with waits in between; *)
(* then the body is read, and its size, the status and the JSON checked.   *)
(*                                                                         *)
(* Requests share connections and nothing else, so that one stands for     *)
(* all; that each bears its own token is RequestPipeline's subject.  resty *)
(* and Paperless-ngx are external: an attempt may fail at any moment, and  *)
(* whether it is then tried again is resty's choice, within RetryCount.    *)
(* Time passes only while the network is waited for.                       *)
(*                                                                         *)
(* req.Get returns when the headers of a response with JSON are there and  *)
(* leaves the body to resp.Bytes(), which returns what it could read and   *)
(* no error; a body of another type resty reads before req.Get returns.    *)
(***************************************************************************)
EXTENDS Naturals

CONSTANTS
    RetryCount,  \* SetRetryCount: 2 in the code
    Timeout,     \* SetTimeout, in ticks: 30 s in the code
    RetryWait,   \* the longest wait between two attempts, in ticks
    BodyLimit,   \* maxResponseBodySize, in chunks: 100 MB in the code
    MaxBody      \* bound: the longest body Paperless-ngx sends, in chunks

ASSUME RetryAssumption ==
    RetryCount \in Nat /\ Timeout \in Nat \ {0} /\ RetryWait \in Nat

ASSUME BodyAssumption == BodyLimit \in Nat /\ MaxBody \in Nat

VARIABLES
    stage,    \* how far doRequest is
    attempt,  \* number of the attempt, from 1
    age,      \* how long the attempt, or the wait, has lasted
    elapsed,  \* how long doRequest has lasted
    gone,     \* the caller's context is cancelled
    answer,   \* the response Paperless-ngx is sending
    body,     \* chunks of its body that are in memory
    result    \* what the method returns

vars == <<stage, attempt, age, elapsed, gone, answer, body, result>>

-----------------------------------------------------------------------------
\* A redirect is an answer like any other: RedirectNoPolicy does not follow it.
Status == {"2xx", "3xx", "4xx", "5xx"}

Answer == [status : Status, size : 0 .. MaxBody, content : {"json", "other"}]
NoAnswer == [status |-> "none", size |-> 0, content |-> "other"]

Result == {"none", "value", "build URL", "request failed", "too large",
           "API error", "unmarshal"}

\* The time all attempts and the waits between them may take.
RequestTime == (RetryCount + 1) * Timeout + RetryCount * RetryWait

\* An attempt lasts from its sending to the end of its body.
InAttempt == stage \in {"sending", "reading"}

InNetwork == InAttempt \/ stage = "waiting"

Patience == IF InAttempt THEN Timeout ELSE RetryWait

\* What doRequest makes of a response, and json.Unmarshal of its body: the size
\* is checked before the status, and a document that breaks off is no JSON.
Decodes == answer.content = "json" /\ body = answer.size

Verdict ==
    LET ok == body <= BodyLimit /\ answer.status = "2xx"
    IN  CASE body > BodyLimit          -> "too large"
          [] body <= BodyLimit /\ ~ok  -> "API error"
          [] ok /\ Decodes             -> "value"
          [] ok /\ ~Decodes            -> "unmarshal"

-----------------------------------------------------------------------------
Init ==
    /\ stage = "idle"
    /\ attempt = 0
    /\ age = 0
    /\ elapsed = 0
    /\ gone = FALSE
    /\ answer = NoAnswer
    /\ body = 0
    /\ result = "none"

Begin ==
    /\ stage = "idle"
    /\ stage' = "called"
    /\ UNCHANGED <<attempt, age, elapsed, gone, answer, body, result>>

\* url.JoinPath cannot parse the base URL.
NoURL ==
    /\ stage = "called"
    /\ stage' = "done"
    /\ result' = "build URL"
    /\ UNCHANGED <<attempt, age, elapsed, gone, answer, body>>

\* req.Get makes its first attempt.
Send ==
    /\ stage = "called"
    /\ stage' = "sending"
    /\ attempt' = 1
    /\ UNCHANGED <<age, elapsed, gone, answer, body, result>>

\* The headers of a response arrive.
Respond ==
    /\ stage = "sending" /\ answer = NoAnswer
    /\ answer' \in Answer
    /\ UNCHANGED <<stage, attempt, age, elapsed, gone, body, result>>

\* The body is read into memory, all of it: inside req.Get or by resp.Bytes().
ReadChunk ==
    /\ answer # NoAnswer
    /\ stage = IF answer.content = "json" THEN "reading" ELSE "sending"
    /\ body < answer.size
    /\ body' = body + 1
    /\ UNCHANGED <<stage, attempt, age, elapsed, gone, answer, result>>

\* req.Get returns a response.
Get ==
    /\ stage = "sending" /\ answer # NoAnswer
    /\ answer.content = "json" \/ body = answer.size
    /\ stage' = "reading"
    /\ UNCHANGED <<attempt, age, elapsed, gone, answer, body, result>>

\* No connection, the timeout, a body that breaks off inside req.Get, or a
\* cancelled context.
Fail ==
    /\ stage = "sending"
    /\ stage' = "failed"
    /\ UNCHANGED <<attempt, age, elapsed, gone, answer, body, result>>

\* An attempt that resty may try again.
Unsuccessful ==
    \/ stage = "failed"
    \/ stage = "sending" /\ answer # NoAnswer /\ answer.status # "2xx"

\* Mistakes: attempts are not counted; a cancelled request is tried again.
RetryForever ==
    /\ Unsuccessful
    /\ ~gone
    /\ stage' = "waiting"
    /\ age' = 0
    /\ answer' = NoAnswer
    /\ body' = 0
    /\ UNCHANGED <<attempt, elapsed, gone, result>>

RetryCancelled ==
    /\ Unsuccessful
    /\ attempt <= RetryCount
    /\ stage' = "waiting"
    /\ age' = 0
    /\ answer' = NoAnswer
    /\ body' = 0
    /\ UNCHANGED <<attempt, elapsed, gone, result>>

\* resty tries again: first it waits.
Retry ==
    /\ Unsuccessful
    /\ attempt <= RetryCount /\ ~gone
    /\ stage' = "waiting"
    /\ age' = 0
    /\ answer' = NoAnswer
    /\ body' = 0
    /\ UNCHANGED <<attempt, elapsed, gone, result>>

Resend ==
    /\ stage = "waiting" /\ ~gone
    /\ stage' = "sending"
    /\ attempt' = attempt + 1
    /\ age' = 0
    /\ UNCHANGED <<elapsed, gone, answer, body, result>>

\* The context ends the wait.
AbandonWait ==
    /\ stage = "waiting" /\ gone
    /\ stage' = "failed"
    /\ UNCHANGED <<attempt, age, elapsed, gone, answer, body, result>>

\* req.Get returns an error.
GiveUp ==
    /\ stage = "failed"
    /\ stage' = "done"
    /\ result' = "request failed"
    /\ UNCHANGED <<attempt, age, elapsed, gone, answer, body>>

\* resp.Bytes() returns the whole body, or what had come of it when the
\* connection, the timeout or the context broke it off; this is checked.
Check ==
    /\ stage = "reading"
    /\ stage' = "done"
    /\ result' = Verdict
    /\ UNCHANGED <<attempt, age, elapsed, gone, answer, body>>

\* The caller's context is cancelled; it was given to resty with SetContext.
Cancel ==
    /\ stage \notin {"idle", "done"} /\ ~gone
    /\ gone' = TRUE
    /\ UNCHANGED <<stage, attempt, age, elapsed, answer, body, result>>

\* Mistakes: the timeout bounds the wait for the headers only; the context is
\* not given to resty.
TickToHeaders ==
    /\ InNetwork /\ ~gone
    /\ age < Patience \/ answer # NoAnswer
    /\ age' = age + 1
    /\ elapsed' = elapsed + 1
    /\ UNCHANGED <<stage, attempt, gone, answer, body, result>>

TickWhileGone ==
    /\ InNetwork
    /\ age < Patience
    /\ age' = age + 1
    /\ elapsed' = elapsed + 1
    /\ UNCHANGED <<stage, attempt, gone, answer, body, result>>

\* Time passes while an attempt, or a wait, goes on.  A cancelled one ends at
\* once.
Tick ==
    /\ InNetwork /\ ~gone
    /\ age < Patience
    /\ age' = age + 1
    /\ elapsed' = elapsed + 1
    /\ UNCHANGED <<stage, attempt, gone, answer, body, result>>

\* The caller has its result; what it calls next is another request.
Return ==
    /\ stage = "done"
    /\ stage' = "idle"
    /\ attempt' = 0
    /\ age' = 0
    /\ elapsed' = 0
    /\ gone' = FALSE
    /\ answer' = NoAnswer
    /\ body' = 0
    /\ result' = "none"

RequestStep ==
    \/ NoURL \/ Send
    \/ Respond \/ ReadChunk \/ Get \/ Fail
    \/ Retry \/ Resend \/ AbandonWait
    \/ GiveUp \/ Check

Next == Begin \/ RequestStep \/ Cancel \/ Tick \/ Return

Spec == Init /\ [][Next]_vars

\* doRequest goes on as soon as it can, and a timeout ends every attempt.
FairSpec == Spec /\ WF_vars(RequestStep)

-----------------------------------------------------------------------------
\* Every variable keeps its type.
TypeOK ==
    /\ stage \in {"idle", "called", "sending", "waiting", "failed", "reading",
                  "done"}
    /\ attempt \in 0 .. RetryCount + 1
    /\ age \in Nat
    /\ elapsed \in Nat
    /\ gone \in BOOLEAN
    /\ answer \in Answer \cup {NoAnswer}
    /\ body \in 0 .. MaxBody
    /\ result \in Result

\* However attempts fail and whenever they are tried again, doRequest lasts no
\* longer than its attempts and waits together (main.go:52-54), although the body
\* is read when they are over: the deadline of an HTTP response (main.go:158) has
\* to leave room for it.
RequestIsBounded == elapsed <= RequestTime

\* Every request ends, whatever the network does (client.go:270, 290).
RequestEnds == stage = "called" ~> stage = "done"

\* To its caller, a request with its retries is the one request of
\* PaperlessRequest, broken-off bodies included: it has one outcome and lasts no
\* longer than RequestTime, and not a tick after its context is cancelled.
Request == INSTANCE PaperlessRequest WITH
    open <- stage \notin {"idle", "done"},
    outcome <- IF result \in {"none", "value", "API error"} THEN result
               ELSE "other error"

ImplementsRequest == Request!Spec

\* SPEC.md:336 says that response bodies from Paperless-ngx are limited to
\* 100 MB by io.LimitReader, to prevent memory exhaustion: what is in memory
\* never exceeds the limit by more than the chunk that shows it is exceeded.
BodyIsBounded == body <= BodyLimit + 1
=============================================================================
