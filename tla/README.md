# mcp-paperless-ngx in TLA+

Models of mcp-paperless-ngx, the properties that make it correct, their
model-checking runs and machine-checked proofs. The modules are translated from
the Go source; line numbers below are those of `src/`. `PROJECT.json` maps every
definition to the lines it models and lists the runs, hazards and theorems.

Contents: [the system](#the-system), [the modules](#the-modules),
[the runs](#the-runs), [fairness](#fairness), [the proofs](#the-proofs),
[findings](#findings), [what is not covered](#what-is-not-covered),
[plan](#plan), [running it](#running-it).

## The system

The program is an HTTP server that lets MCP clients read a Paperless-ngx
archive. Each HTTP request carries the user's own Paperless-ngx token. It passes
a chain of middleware, reaches the MCP handler, and each tool call in it makes
one or more REST requests to Paperless-ngx. Nothing is persisted: all state is in
memory, and all of it but the rate limiter, the gauge and the shared HTTP client
belongs to one request.

| Component | State | Operations | Hard behaviour | Correct when |
|---|---|---|---|---|
| Rate limiter (`handlers/ratelimit.go`) | server bucket, map of client limiters with `lastSeen`, ticker, `stopCh` | `Allow`, `evictExpired`, `evictStaleClients`, `Stop` | `Allow` is three critical sections; the evictor may run between any two; ticks are dropped | it acts as one permanent bucket per client, and the map stays small |
| Tool handlers (`handlers/tools.go`) | per call: page, two maps of names, an errgroup | seven tools, `resolveNames` | up to 20 goroutines write one map; lookups fail one by one; the client may go | each document gets its own names, and the call always answers |
| Middleware chain (`handlers/middleware.go`, `handlers/metrics.go`, `buildHandlers` in `cmd/server/main.go`) | gauge of active requests; per request: context values, status | recovery, id, metrics, rate limit, logging and body limit, token, client injection | concurrent requests share one HTTP client; panics anywhere; early returns; tool calls outlive the answer | the gauge is exact, tokens never mix, refused requests cost nothing |
| Paperless-ngx client (`infrastructure/paperless/`) | none of its own; shares the HTTP client | searches, lookups, `doRequest` | retries, 30 s timeout, cancellation, size bound, error classes | it asks for what the tool promised, ends in time, and has one outcome |
| Application services (`application/service.go`) | none | one method per use case | which parameters reach the search | as above |
| Process lifecycle (`main` and `run` in `cmd/server/main.go`) | two servers, `errCh`, `quit`, shutdown deadline | load, set up logging, start, signal, failure, shutdown | signal and failure race; requests outlast the deadline | it always ends, and drains if it can |
| Configuration (`config/config.go`, `setupLogging`) | the environment, read once | `Load`, `validate`, derived limits | limits at the edge of an int | what is accepted yields a server that serves |
| Tool registration (`handlers/registration.go`) | none | binds tools to handlers | | |
| Metrics (`handlers/metrics.go`) | gauge, counter, histogram | wraps requests and calls | deferred decrement | the gauge does not drift |
| Log output, domain types | none | | | not modelled, see below |

Interactions. `buildHandlers` (`main.go:95-129`) nests the chain: recovery →
request id → metrics → rate limit → body limit → logging, which also bounds the
batch → token → client injection → MCP handler. The MCP library calls the
handlers of `tools.go` in goroutines of their own and streams their results, these
call the services, these the client. The rate
limiter and its evictor goroutine run for the whole life of the process: only
tests call `Stop`.

## The modules

### Rate limiter

`TokenBucket` is the external `golang.org/x/time/rate` bucket: credit counted in
units of 1/`TicksPerSecond` of a token, refilled lazily from the time it was last
used. No rounding is modelled. A rate is an int that can be doubled (`EffectiveBurst`);
what becomes of one that cannot is in `Configuration`.

`RateLimiter` is `ratelimit.go`. Its point is that `Allow` is not atomic:

| Code | Action |
|---|---|
| `rl.global.Allow()` (76-78) | `PassGlobal`, `RefuseGlobal` |
| under `rl.mu`, look the client up or create it (80-95) | `FindEntry`, `CreateEntry` |
| `cl.limiter.Allow()` after the unlock (97) | `TakeGranted`, `TakeRefused` |
| middleware: 429, or the next handler (138-150) | `Respond` |
| the evictor receives a tick, `evictExpired` (102-126) | `EvictExpired` |
| the evictor sees `stopCh` closed | `EvictorExit` |
| `Stop` (67-71) | `Stop` |
| time, and `time.Ticker` with its buffer of one | `Tick` |

A `*clientLimiter` is a cell of `heap`, so that a goroutine's pointer `cl` and the
map's pointer may differ. The client is any member of `Client`
(`extractClientIP` chooses it). `Respond` stands for the whole rest of the
request, whose effects the limiter does not see. Time is a counter. `MaxPause` is the only timing
assumption: neither a call of `Allow` nor a due sweep is delayed by more than
that. `MaxPause <= ClientTTL` means that no goroutine sleeps for 30 minutes inside
`Allow`.

`PersistentBuckets` is what the limiter promises: a server bucket and a bucket
for every client there could be, forever, with no map and no eviction.
`RateLimiterRefinement` maps the code to it. A client without an entry has a
full bucket; creation, lookup, eviction and stopping are stuttering steps.

`AdmissionWindow` composes `RateLimiter` with an observer that picks a moment and
counts from there, to state the budget over *every* window of time. The observer
disables nothing, so that one run checks the limiter, the refinement and the windows.

### Tool calls

`ToolCall` is one call from the handler's point of view, `tools.go:170-352` and the
part of `metrics.go` that wraps it. The loop over the ids, the slots of
`SetLimit(20)`, each goroutine (`fetch`, `lock`, `write`), the mutex, `Wait`, the
two consecutive groups and the rendering are separate steps. Each group has a limit
of its own, as in the code (`GroupIds`, `GroupHasRoom`): that both together keep to it
is due to `Wait`.
`get_document_content` resolves its two names in sequence (`ResolveOne`).
`search_correspondents` and `list_tags` return what the first request returned.
`broken` is the set of ids whose lookup Paperless-ngx fails; a lookup may also
fail because the client left. A name is `<<"name", id>>`, so that it tells whose
it is. What is abstracted: field values other than names, and formatting.

`ToolAnswer` is the call with no goroutines in sight: it fails as a whole, or answers
once with the whole page, on which an id is lost everywhere or nowhere.
`ImplementsToolAnswer` maps the handler's phases to it. Every step of the groups, their
slots and their lock is a stutter; rendering is the answer.

`TimedToolCall` puts `ToolCall` on a clock: each request in flight may last up to
`RequestTime`, whatever the others do, and time stands still while a goroutine can
run. It says how long a call may last: its first request, then for
correspondents and for types as many requests as rounds of `Limit` lookups, not
one for each of the slowest of a fixed batch.

### One request to Paperless-ngx

`PaperlessRequest` is what the callers of the client rely on: one request, one
outcome, within `RequestTime`, and no time spent once the context is cancelled.
`PaperlessClient` is `doRequest` (`client.go:247-304`) with the decoding of its body,
over the HTTP client of `main.go:50-62`, and implements it. `Begin` calls it; `NoURL` is a
base URL that cannot be joined; `Send` makes the first attempt; `Respond` is the arrival of
the headers, `ReadChunk` a piece of the body, `Fail` any way in which an attempt ends
inside `req.Get`; `Retry` and `Resend` are a further attempt, `AbandonWait` and `GiveUp` the
end of trying. `Get` is the return of a response, whose body `doRequest` then reads with
`resp.Bytes()`. That call reports no error, so that a body which the connection, the
timeout or the context breaks off gets to `Check` like a whole one: it is compared with
the limit, then the status is looked at, and then decoding fails, as a JSON document that
breaks off is none. Nothing is tried again at that point. resty is external and not
part of the repository: which failures it tries again and how long it waits is left
open within `SetRetryCount(2)`; that it leaves a JSON body to `resp.Bytes()`, and reads one
of another type inside the attempt, is what its version 3 does. The timeout is taken to
bound each attempt with its body, the longer of the two readings of `SetTimeout`. `RequestTime` is the same in `TimedToolCall`, so that
the bound of a call follows from the bound of a request.

### The request pipeline

`RequestPipeline` serves several HTTP requests at once. `stage` is the middleware
a request has come to; every early return is an action: `Refuse` (429),
`ReadFails` (413), `RejectBatch` (400), `RejectToken` (401), `RejectMessage` (400 or 405,
by the MCP handler), `Panic`. `Unwind` is what is deferred: the gauge's decrement and the
recovery, which writes 500 unless a response has begun. The rate limiter's verdict is a
free choice here.

`TakeMessage` starts the tool calls of a batch, each in a goroutine of its own
(`running`). A call makes a first request to Paperless-ngx, its search or its document,
and once that is answered lookups, of which many can be in flight (`MayAsk`; `resolveNames`
makes up to two for each document of a page, and never a second one for an id). `Build`,
`Send` and `Answer` are such a request on the shared `resty.Client`: headers set on the
request win over headers of the client, which `sharedAuth` represents. `EndCall` is the
return of a tool handler; the first one begins the response, as `StreamableHTTPHandler`
is used with streaming (`main.go:93-101`). `Finish` ends it, `HangUp` is a client that
goes. After that, and after a panic, calls go on: a place is only used again when nothing
runs for it any more (`Close`).

`HttpExchange` is what this amounts to from outside: a request is answered exactly
once, nothing replaces the answer, a refused request never leads to one to Paperless-ngx,
and any other leads to those of one batch, each once, lookups after the request they
belong to. `ImplementsExchange` maps the pipeline to it.

`RateLimitedPipeline` puts the limiter into the chain. Its buckets are those of
`PersistentBuckets`, which the refinement above shows `RateLimiter` to implement, so that
no machinery of the map is repeated. `AskServer` and `AskClient` are the two points at
which goroutines may interleave inside `Allow`, `PassOn` and `TurnAway` what
`RateLimitMiddleware` does with the verdict, `LPanic`, `LClose` and `LBuild` the steps
of `RequestPipeline` that the limiter or the observer sees, `Elsewhere` all others. A tool
call is counted when it makes its first request.
`OpenWindow` is an observer who at any moment begins to count the tokens taken and the
tool calls begun, for one client or for all of them. A call of a request that had its
token before is not counted, as its token is not either.

### The process

`Configuration` holds the decisions of `config.Load`, of `setupLogging` and of the
arguments `buildHandlers` gives to the limiter, as operators on an environment. A
variable is what decides about it: what is wrong with a URL, the integer a rate
denotes, a duration's number and whether it has a unit. An int has a width:
`Twice` wraps, `FromFloat` allows whatever the conversion of a float64 may yield.

`ServerLifecycle` is `main` and `run`: `LoadConfig`, `LoggingFails` and `Start` lead to the
servers or to the end; `Listen`, `ListenerFails`, `ListenerCloses` and `Report` are the
goroutines of the two servers, `Accept` and `Idle` the connections that
`Shutdown` waits for (external, `net/http`), `Notify`, `Signal`, `Receive`,
`MainStops`, `MetricsStops` and `Expire` the main goroutine, the operating system
and the shared 30 second deadline. A signal before `signal.Notify` kills the
process, which is its default effect. A bind that fails is reported even if `Shutdown`
has been called since `ListenAndServe` looked for it.

### Queries

`DocumentQuery` follows an input of one of the six tools that list something from
the tool (`tools.go:176-184`) through the service (`service.go:39-156`) to the
path and the query string (`client.go:117-193`, `352-373`) and back as pages.
`SearchQuery` and `NameQuery` are the sets of name-value pairs of the query string.
Paperless-ngx is external: it applies every parameter, `tags__id__all` once per
value, and refuses a page that does not exist. The archive does not change
while a client pages. A filtered list is given by the positions it keeps (`Selected`,
`Nth`), without recursion, so that it can be reasoned about.

`MCRateLimiter`, `MCTimedToolCall`, `MCRequestPipeline`, `MCRateLimitedPipeline`,
`MCServerLifecycle` and `MCDocumentQuery` add what the instances need: symmetry, a view,
a choice of requests, environments, or a small archive and the inputs. The other runs take the module as it is.

## The runs

Passing runs (all exhaustive):

| Run | Question | Bounds, and why they are enough |
|---|---|---|
| `rate_limiter` | With two goroutines and the evictor interleaving: is the limiter a goroutine holds its client's (`HeldIsCurrent`)? Do silent clients leave (`StaleBound`)? Does the map stay small whatever addresses come (`MapBound`)? Is the budget kept over every window, for the server and for a client, across evictions (`ServerBudget`, `ClientBudget`)? Is the whole one bucket per client (`ImplementsPersistentBuckets`)? | 3 clients, 2 goroutines, 7 ticks. An entry can be created, expire, be evicted and be created again while another goroutine holds a pointer, and a window spans that. The server's budget admits less than three clients in the life of an entry. A client's bucket refills in two ticks and `ClientTTL` is the least that allows it, so that evicting one tick early shows. `GlobalBurst` is 0, which takes the "twice the rate" branch and gives the same burst as `main` passes. |
| `tool_call` | At most `Limit` lookups, of both groups together, no concurrent map access, right names on each document, every call answered, one answer for the whole page (`ImplementsToolAnswer`). | 3 documents, 3 correspondents, 1 type, 2 slots: one id always waits for a slot, two documents may share an id, any subset of the lookups fails, the client leaves at any time. |
| `timed_tool_call` | How long may a call last (`CallIsBounded`)? | 3 correspondents with 2 slots take two rounds, whose lookups end unevenly within 2 ticks each; 1 type is a round that is not full. |
| `paperless_client` | Does a request end in time, and look like one request to its caller? | 2 retries as in the code, a timeout of 3 ticks and a wait of 1, bodies from nothing to beyond the limit: an attempt can fail before the headers and in the body, and a body can break off when the attempts are over. |
| `request_pipeline` | Gauge exact, tokens never mixed, refused requests free and served ones within their calls and lookups, log lines true, every request ends, each answered once (`ImplementsExchange`). | 2 requests, 2 users and one proxy id: isolation and the gauge are about pairs. Batches up to 2 pass and one of 3 does not; a call has a first request and one lookup. The constraint of `MCRequestPipeline` leaves batches of several calls and over-long tokens to one place, and batches to one of the users; the other user sends its requests through a proxy when they come to the other place. So the run leaves out two batches, two proxied or two over-long requests at once; a batch, a proxied and an over-long request each still interleave with the other place's requests. |
| `rate_limited_pipeline` | Are the tool calls begun in a window of time bounded by what the buckets hold and gain, for one client and for all (`LoadIsBounded`)? | 2 requests of 2 clients and one user, batches of one call let through and of two not, 1 tick. A full client's bucket has one token and gets the second in a tick, the server's has two and gets a third, so that either can refuse a request, credit is lost at the cap, and places are used again. Lookups are left out, as calls are what is counted; the view leaves out the statuses and the gauge, which nothing here depends on. The other checks of the chain are those of `request_pipeline`. |
| `server_lifecycle` | Drains in order, `errCh` never blocks, a failure or a signal ends the process; what is accepted as configuration admits requests, or overflows (`RunningServerAdmits`). | 2 connections per server; both servers may fail, at any point, with signals repeating. An int of 4 bits and 31 environments, each with one value out of the ordinary, among them every rate next to a limit. |
| `document_query` | Does a client that pages to the end get exactly what the tool promised, in order? | 5 documents covering each combination of correspondent, tags, text and date that the filters tell apart; 4 correspondents and tags, one of which a name leaves out; page sizes from -1 to one above the maximum. |

Runs that show a disagreement (see [findings](#findings)): `tool_call_errors`,
`document_query_correspondent`, `paperless_client_body`, `documented_timeout`.

`CHECK_DEADLOCK FALSE` is set where the system really stops: the process exits,
the client has all documents.

Symmetry is used in `rate_limiter`, `rate_limited_pipeline` and in
`timed_tool_call` only; they check states and single steps, and every definition
treats clients, goroutines and cells, places, or documents and correspondents, alike.

Each property is paired with a mutant, a plausible slip in the code such as a
missing lock or an off-by-one. The mutants are the definitions commented
"Mistake" or "Off by one". Replacing the real definition by one of them must make
TLC find the property violated.

## Fairness

- `ToolCall.FairSpec`: weak fairness of the handler's steps, of each lookup's end
  and of each goroutine's `Lock` and `Write`. Lookups end because each attempt has
  a 30 second timeout and retries are limited to two (`main.go:50-54`). `Lock` is
  fair as Go's mutex does not starve. Nothing is assumed of clients.
- `PaperlessClient.FairSpec`: weak fairness of the request's steps together, none of
  any single one: an attempt may always fail, but not stay for ever, as it has a
  timeout. Time itself need not pass.
- `RequestPipeline.FairSpec`: weak fairness of each request's own steps and of
  the steps of its calls together, which is the same as for each, as they are finitely
  many. Panics, clients that hang up, new requests and connections closing are free.
- `ServerLifecycle.FairSpec`: weak fairness of `run`, of the deadline's timer and
  of the goroutines that report a failure. Nothing is assumed of requests
  (`Idle`): they may outlast every deadline. Nor is any signal assumed.
- The properties of the limiter, of `RateLimitedPipeline` and of `TimedToolCall` are safety properties. Instead of fairness,
  `Tick` is disabled while a call or a sweep is overdue by `MaxPause`, or while a
  request has used up its time.

## The proofs

All for every value of the constants, from the named assumptions next to their
declarations, checked by TLAPS down to every leaf.

| Module | Theorems | Inductive invariant |
|---|---|---|
| `RateLimiterProofs` | `TypeCorrect`, `HeldLimiterIsCurrent`, `StaleEntriesLeave`, `LimiterRefinesBuckets` | `IInv` |
| `AdmissionWindowProofs` | `ServerStaysInBudget`, `ClientsStayInBudget`, `MapStaysSmall` | `WIInv`, `MapInv` |
| `ToolCallProofs` | `TypeCorrect`, `LimitHolds`, `MapIsSafe`, `ReplyIsRight`, `CallsAreAtomic`, `CallsEndInTime` | `TInv`, `RInv`, `TTInv` |
| `RequestPipelineProofs` | `TypeCorrect`, `GaugeIsExact`, `TokensAreIsolated`, `AmplificationIsBounded`, `LogIsTrue`, `PipelineImplementsExchange` | `PInv` |
| `RateLimitedPipelineProofs` | `ChainIsKept`, `BucketsAreKept`, `PaperlessLoadIsBounded` | `LInv` |
| `PaperlessClientProofs` | `TypeCorrect`, `RequestsAreBounded`, `ClientRefinesRequest` | `CInv` |
| `ServerLifecycleProofs` | `TypeCorrect`, `ServersDrain`, `ReportsFit`, `ServerAdmits` | `LInv` |
| `DocumentQueryProofs` | `TypeCorrect`, `WalksAreComplete` | `DInv` |

**Rate limiter.** `HeldIsCurrent` alone is not inductive: an eviction is harmless
only because the entry of a goroutine that is inside `Allow` has just been seen.
`IInv` therefore adds that cells are not shared between clients (`OwnLimiter`),
that a call in progress is at most `MaxPause` old (`CallsAreRecent`), that a
held cell was seen after the call began (`EntriesAreOrdered`), and how old an
entry may be relative to the last sweep (`SweepsAreRecent`). Since
`MaxPause <= ClientTTL` and the comparison is strict, such an entry is not
expired. `StaleBound` follows from `SweepsAreRecent`.

**Refinement.** One lemma per action. Bucket levels are compared after refilling,
so that `Tick` is the abstract `Refill`. The interesting step is `EvictExpired`, a
stutter only if every evicted bucket is full: `IdleRefillsBucket`,
`(ClientTTL + 1 - MaxPause) * PerClientRate >= Capacity(CBurst)`. In the code the
burst is twice the rate, so two seconds are enough and `clientTTL` is 30 minutes.

**Windows.** `WIInv` adds to `IInv` that what a window has admitted, plus what is
left in the bucket, is at most the burst plus the window's refill. The client's
half uses the mapped level, so that evictions need no case of their own.

**Map.** An entry lives for a known time, so the clients in the map were all let in
by the server's bucket since some moment. `MapInv` says for every moment `t` at once that
the calls let in since `t` that have yet to look their client up, and the clients
seen `MaxPause` after `t` or later, cost what the bucket held and gained. The slack of
`MaxPause` makes the lookup step balance: a call that enters a client now was itself
let in after `t`. `SilentEntriesLeave` then gives the `t` that covers the whole map.

**Tool call.** `TInv` is `TypeOK`, `WithinLimit` and five more: who is in the
group and what is still to do (`GroupInv`), who has the mutex (`MutexInv`), that a
name in the map belongs to its id and a broken id has none (`NamesInv`), that
while the client is there each id of the page is to do, active, failed or named
(`ProgressInv`), and that the reply is the map's image of the page (`ReplyInv`).
`ReplyIsBestEffort` needs the last three, carried through both groups. `WithinLimit` is
about both groups and the guard about one: it needs that whoever works belongs to
the current group (`OneGroup`), as `Wait` lets none of the first group stay.

**One answer.** `RInv` adds to `TInv` that a call has no page before it has listed one, nor
has a tool without documents (`PageInv`). Only the call, the two ends of its first request,
`Render`, `Cancel` and `Return` are steps of `ToolAnswer`, the rest are stutters. For
`Render` the lost ids are those of the page without an entry in the maps: `NamesInv` makes
every broken id one of them, `ProgressInv` makes every one of them broken while the client
is there.

**Duration of a call.** Nothing in the code works in rounds: a free slot takes the next
id. `Paced` says what the slots amount to. With `q` ticks gone since the start of round
`j`, the lookups that have not begun, or began less than `q` ticks ago, are no more
than `n - j * Limit`. Starting a lookup keeps it among them; time passes only with
all slots in use or nothing left to start, so when `q` has come to `RequestTime`, either
nothing is left to start or `Limit` lookups less. `RoundsSuffice` turns this into the
number of rounds, and `PhasesFollow` adds the phases up.

**Pipeline.** `PInv` adds to the gauge what a stage implies about the response, the
context and the calls (`ChainInv`), whose token and id is on each outbound request
(`OutboundInv`), and that a request past the handlers has its answer and is logged last
(`LogInv`). What makes the calls safe after the answer is `CallsReady`: as long as one
runs, whatever the stage, the request in this place is the one it was started for, is
vetted, and has not been refused. The gauge needs that a counted request is in
the set counted, so that the decrement stays natural. In the refinement every step
but `Enter`, `Healthz`, the five refusals, the first of what begins the response
(`EndCall`, `Finish`, `HangUp` or `Unwind` after a panic), `Build` and `Close` is a stutter.

**Pipeline with its limiter.** Every step is a step of the chain or none, and a step of
the buckets or none, which gives `ChainIsKept` and `BucketsAreKept`; the former carries
`PInv` over. `LInv` adds where a request is for each verdict (`VerdictInv`), and two
accounts of the window. `BudgetInv` is the buckets' side: the cost of the tokens taken, plus
what the watched bucket holds, is at most its capacity plus what it gained. `ReserveInv`
is the calls' side, and the reason why the bound holds at every moment rather than at the
end of a batch: the calls made, plus the pairs of a request that has paid and a call it
has not made yet, are at most `MaxBatchSize` for every token. Taking a token adds a batch
of pairs, a call moves one pair to the calls made, and a request that is cut short
returns nothing before its place is used again. `PaidInv` says that a request which got as far as a call has paid in the
window, or before it, in which case its calls are not counted.

**Client.** `CInv` says for each stage how much time may have passed (`TimeInv`): `n`
attempts take at most `n * Timeout + (n - 1) * RetryWait`, and a wait that is given up
counts as one more; an attempt lasts until the last of its body. It adds that there is a
response before a body is read and that a result exists exactly at the end (`AnswerInv`). `Monotone` and
`SpentIsBounded` do the arithmetic, which multiplies variables. In the refinement
only `Begin`, time, the client's departure and the end of a request are steps of the
contract: further attempts, chunks of a body and waits are stutters.

**Lifecycle.** `LInv` adds `RoomInv`, that the errors in `errCh` and the servers that
may still report one are at most two, and that no listener runs before `Start`;
`OrderInv`, which ties `inShutdown` to `pc`; and `ValidInv`, that `run` is called with
a valid configuration. `BurstSign` is the arithmetic: for a valid rate, each burst
the limiter may get is positive exactly if twice the rate fits an int.

**Queries.** A filtered list is defined by the positions it keeps. `RankGrows` and
`RankIsUnique` show that each of these positions has a rank of its own, so that `Nth` names
each once, in order (`NthFacts`, `NthIsOrdered`, `SelectedIsSequence`). `SearchQueryMeans`
and `QueryKeepsPromise` say that for a sensible input a document satisfies the query string
exactly if it is what the tool promises, so that what Paperless-ngx finds is `Wanted`. The
invariant (`WalkInv`) is that a client that has asked for `n` pages from the start has
exactly the elements before page `n + 1`, whatever page size its input is normalised to;
`PageFacts` shows that adjacent pages fit without a gap or an overlap and that the page
after an unfinished walk exists.

Only model-checked: the liveness properties `CallsAreAnswered`, `RequestEnds`,
`RequestsEnd`, `FailureEnds` and `SignalEnds`, as liveness under fairness is beyond the
prover's reach. Every other property of a passing run is a theorem. No module uses a
RECURSIVE operator.

## Findings

1. `get_document_content` answers every failure with "document not found"
   (`tools.go:317`), also a rejected token or an unreachable server; `SPEC.md:318`
   says that Paperless-ngx's response determines the error. Run
   `tool_call_errors`.
2. `get_documents_by_correspondent` with an id of 0 or less lists all documents,
   because `client.go:357` drops the filter; `SPEC.md:157` promises the
   correspondent's. Run `document_query_correspondent`.
3. `SPEC.md:336` says that bodies from Paperless-ngx are limited to 100 MB by
   `io.LimitReader`, to prevent memory exhaustion. `doRequest` compares the length of
   a body that is already in memory (`client.go:290-296`), and nothing limits how much
   is read. Run `paperless_client_body`.
4. `README.md:140` and `SPEC.md:53` give `WRITE_TIMEOUT` in seconds, default `300`. The
   field is a `time.Duration` (`config.go:21`, default `300s`): with the documented
   value the process does not start. Run `documented_timeout`.

Seen while reading, with no run of their own:

- A body that cannot be read is answered with 413 without a request log line
  (`middleware.go:255`), and that line is at debug level; `SPEC.md:296` says that an
  INFO line is emitted on response. `AnswersAreLogged` leaves 413 and 429 out.
- The servers start before `signal.Notify` (`main.go:209-225`), so that an early
  SIGTERM kills the process in mid-request (`Signal` while `Unprotected`).
- A rate of 2^62 or more is accepted, and the server then refuses every request:
  `RunningServerAdmits` says where the limit is.
- `WrapToolHandler` counts a call after the handler has returned, not in a deferred
  function, so that a call that panics is not counted.
- The slog handler's `WithGroup` ignores the group, where its comment says that
  groups are flattened into the keys (`logging.go:106-107`).

## What is not covered

External, modelled only as the code uses it: `x/time/rate`, `net/http`'s
`Shutdown`, resty, envconfig, the MCP library's scheduling of calls, and
Paperless-ngx.

- **Log output**: formatting, levels, the slog adapter (`logging.go:62-123`). When
  `setupLogging` fails is in `Configuration`, which requests are logged in
  `RequestPipeline`.
- **Domain types, tool annotations**: data without behaviour. `models.go` copies fields.
- **Counter and histogram metrics**: written, never read.
- **MCP library internals**: the JSON-RPC encoding and requests other than tool calls, which
  are messages without calls here. That a body broke off shows only in the decoding:
  no property says more of `client.go:290`. A panic in a goroutine
  other than the request's own, which the library or an errgroup may start, is
  beyond the recovery middleware and beyond the model.
- **The write timeout's effect**: `net/http` drops an answer that comes too late.
  `CallIsBounded` says how late it may come; the documentation promises no relation
  between the two.
- **Exit status**: `run` returns nil after a failure too (`main.go:245`), about
  which the repository says nothing.

## Plan

Done, in this order: the limiter with its refinement and windows, tool calls, the
pipeline, the lifecycle, queries, the Paperless-ngx client with its contract, calls
on a clock, the configuration, the pipeline's refinement, the tool call's refinement,
the pipeline with its limiter, with their proofs. Left, most important first:

1. The composition of `RequestPipeline` with `ServerLifecycle`, so that draining is about
   requests rather than connections.
2. The composition of `ToolCall` with `PaperlessClient`, so that a lookup's outcome is that
   of a request with its retries.

## Running it

    tlc -config MCRateLimiter.cfg MCRateLimiter.tla
    tlapm RateLimiterProofs.tla

`PROJECT.json` lists the module and configuration of each run. The longest,
`rate_limiter`, `request_pipeline` and `rate_limited_pipeline`, take about two
minutes each on two cores.
