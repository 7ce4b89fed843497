--------------------------- MODULE ServerLifecycle ---------------------------
(***************************************************************************)
(* The life of the process (main and run, cmd/server/main.go): it loads    *)
(* its configuration and sets up logging, and ends if it cannot; starts    *)
(* two HTTP servers, each in a goroutine that reports its failure on       *)
(* errCh; waits for a signal or a failure and then shuts the servers down, *)
(* one after the other, within one deadline.                               *)
(*                                                                         *)
(* Of a server only what Shutdown looks at is kept: the connections that   *)
(* are not idle.  How a request is served is RequestPipeline's subject.    *)
(***************************************************************************)
EXTENDS Configuration

CONSTANT MaxConns    \* bounds the connections that are not idle, per server

ASSUME MaxConnsAssumption == MaxConns \in Nat

VARIABLES
    env,         \* the environment the process was started in
    burst,       \* the bursts of the rate limiter, 0 before there is one
    pc,          \* where main and run are
    listener,    \* the goroutine of each server
    inShutdown,  \* servers whose Shutdown has been called
    conns,       \* connections that are not idle, per server
    errCh,       \* number of errors in errCh
    quit,        \* number of signals in quit
    expired      \* shutdownCtx is done

vars == <<env, burst, pc, listener, inShutdown, conns, errCh, quit, expired>>

-----------------------------------------------------------------------------
Server == {"main", "metrics"}

\* Mistake: one failure fills the channel.
ErrCapOne == 1

\* The capacity of errCh.
ErrCap == 2

\* The process is there.
Alive == pc \notin {"fatal", "exited", "killed"}

\* signal.Notify has not been called yet.
Unprotected == pc \in {"loading", "logging", "starting"}

Ended == ~Alive

Init ==
    /\ env \in Environment
    /\ burst = [global |-> 0, perClient |-> 0]
    /\ pc = "loading"
    /\ listener = [s \in Server |-> "none"]
    /\ inShutdown = [s \in Server |-> FALSE]
    /\ conns = [s \in Server |-> 0]
    /\ errCh = 0
    /\ quit = 0
    /\ expired = FALSE

-----------------------------------------------------------------------------
\* config.Load; main ends the process with an error if it fails.
LoadConfig ==
    /\ pc = "loading"
    /\ pc' = IF Loads(env) THEN "logging" ELSE "fatal"
    /\ UNCHANGED <<env, burst, listener, inShutdown, conns, errCh, quit, expired>>

\* setupLogging fails, and run with it.
LoggingFails ==
    /\ pc = "logging"
    /\ ~LoggingSetUp(env)
    /\ pc' = "fatal"
    /\ UNCHANGED <<env, burst, listener, inShutdown, conns, errCh, quit, expired>>

\* The handlers and the servers are built, and the goroutines of the servers
\* started.
Start ==
    /\ pc = "logging"
    /\ LoggingSetUp(env)
    /\ \E g \in Burst(env.globalRate), c \in Burst(env.perClientRate) :
           burst' = [global |-> g, perClient |-> c]
    /\ pc' = "starting"
    /\ listener' = [s \in Server |-> "new"]
    /\ UNCHANGED <<env, inShutdown, conns, errCh, quit, expired>>

-----------------------------------------------------------------------------
\* ListenAndServe binds the address.
Listen(s) ==
    /\ Alive
    /\ listener[s] = "new" /\ ~inShutdown[s]
    /\ listener' = [listener EXCEPT ![s] = "listening"]
    /\ UNCHANGED <<env, burst, pc, inShutdown, conns, errCh, quit, expired>>

\* It cannot, which is a failure also while Shutdown is on its way, if
\* ListenAndServe has looked for that before; or it stops accepting later on.
ListenerFails(s) ==
    /\ Alive
    /\ listener[s] = "new" \/ (listener[s] = "listening" /\ ~inShutdown[s])
    /\ listener' = [listener EXCEPT ![s] = "failed"]
    /\ UNCHANGED <<env, burst, pc, inShutdown, conns, errCh, quit, expired>>

\* Shutdown has been called: it returns ErrServerClosed, which is no failure,
\* even if it has yet to start.
ListenerCloses(s) ==
    /\ Alive
    /\ listener[s] \in {"new", "listening"} /\ inShutdown[s]
    /\ listener' = [listener EXCEPT ![s] = "returned"]
    /\ UNCHANGED <<env, burst, pc, inShutdown, conns, errCh, quit, expired>>

\* Mistake: only the main server's failure is reported.
ReportMainOnly(s) ==
    /\ Alive
    /\ listener[s] = "failed"
    /\ errCh < ErrCap
    /\ listener' = [listener EXCEPT ![s] = "returned"]
    /\ errCh' = IF s = "main" THEN errCh + 1 ELSE errCh
    /\ UNCHANGED <<env, burst, pc, inShutdown, conns, quit, expired>>

\* errCh <- err blocks while the channel is full.
Report(s) ==
    /\ Alive
    /\ listener[s] = "failed"
    /\ errCh < ErrCap
    /\ listener' = [listener EXCEPT ![s] = "returned"]
    /\ errCh' = errCh + 1
    /\ UNCHANGED <<env, burst, pc, inShutdown, conns, quit, expired>>

\* A connection is accepted, or becomes active again.
Accept(s) ==
    /\ Alive
    /\ listener[s] = "listening" /\ ~inShutdown[s]
    /\ conns[s] < MaxConns
    /\ conns' = [conns EXCEPT ![s] = @ + 1]
    /\ UNCHANGED <<env, burst, pc, listener, inShutdown, errCh, quit, expired>>

\* Its request is answered; it is idle or closed.
Idle(s) ==
    /\ Alive
    /\ conns[s] > 0
    /\ conns' = [conns EXCEPT ![s] = @ - 1]
    /\ UNCHANGED <<env, burst, pc, listener, inShutdown, errCh, quit, expired>>

-----------------------------------------------------------------------------
\* signal.Notify: from here on SIGTERM and SIGINT go to quit.
Notify ==
    /\ pc = "starting"
    /\ pc' = "serving"
    /\ UNCHANGED <<env, burst, listener, inShutdown, conns, errCh, quit, expired>>

\* Mistake: a channel with room for a second signal.
SignalTwice ==
    /\ Alive
    /\ IF Unprotected
       THEN pc' = "killed" /\ UNCHANGED quit
       ELSE quit' = (IF quit < 2 THEN quit + 1 ELSE quit) /\ UNCHANGED pc
    /\ UNCHANGED <<env, burst, listener, inShutdown, conns, errCh, expired>>

\* SIGTERM or SIGINT.  Before Notify it ends the process; a signal that finds
\* quit full is dropped.
Signal ==
    /\ Alive
    /\ IF Unprotected
       THEN pc' = "killed" /\ UNCHANGED quit
       ELSE quit' = 1 /\ UNCHANGED pc
    /\ UNCHANGED <<env, burst, listener, inShutdown, conns, errCh, expired>>

\* The select; with both channels ready, it takes either.
Receive ==
    /\ pc = "serving"
    /\ \/ quit > 0 /\ quit' = quit - 1 /\ UNCHANGED errCh
       \/ errCh > 0 /\ errCh' = errCh - 1 /\ UNCHANGED quit
    /\ pc' = "stopMain"
    /\ inShutdown' = [inShutdown EXCEPT !["main"] = TRUE]
    /\ UNCHANGED <<env, burst, listener, conns, expired>>

\* Mistakes: the server is closed without waiting; it waits without deadline.
MainCloses ==
    /\ pc = "stopMain"
    /\ pc' = "stopMetrics"
    /\ inShutdown' = [inShutdown EXCEPT !["metrics"] = TRUE]
    /\ UNCHANGED <<env, burst, listener, conns, errCh, quit, expired>>

MainStopsUnbounded ==
    /\ pc = "stopMain"
    /\ conns["main"] = 0
    /\ pc' = "stopMetrics"
    /\ inShutdown' = [inShutdown EXCEPT !["metrics"] = TRUE]
    /\ UNCHANGED <<env, burst, listener, conns, errCh, quit, expired>>

\* mainServer.Shutdown returns; metricsServer.Shutdown is called.
MainStops ==
    /\ pc = "stopMain"
    /\ conns["main"] = 0 \/ expired
    /\ pc' = "stopMetrics"
    /\ inShutdown' = [inShutdown EXCEPT !["metrics"] = TRUE]
    /\ UNCHANGED <<env, burst, listener, conns, errCh, quit, expired>>

\* It returns too, and so does run, with nil, and the process exits.
MetricsStops ==
    /\ pc = "stopMetrics"
    /\ conns["metrics"] = 0 \/ expired
    /\ pc' = "exited"
    /\ UNCHANGED <<env, burst, listener, inShutdown, conns, errCh, quit, expired>>

\* 30 seconds have passed since the select, for both servers together.
Expire ==
    /\ pc \in {"stopMain", "stopMetrics"}
    /\ ~expired
    /\ expired' = TRUE
    /\ UNCHANGED <<env, burst, pc, listener, inShutdown, conns, errCh, quit>>

RunStep ==
    \/ LoadConfig \/ LoggingFails \/ Start \/ Notify
    \/ Receive \/ MainStops \/ MetricsStops

ServerStep(s) ==
    \/ Listen(s) \/ ListenerFails(s) \/ ListenerCloses(s) \/ Report(s)
    \/ Accept(s) \/ Idle(s)

Next ==
    \/ RunStep
    \/ \E s \in Server : ServerStep(s)
    \/ Signal
    \/ Expire

Spec == Init /\ [][Next]_vars

\* The scheduler runs the goroutines that can run, and time passes.  Nothing is
\* assumed of requests: they may last longer than any deadline.
FairSpec ==
    /\ Spec
    /\ WF_vars(RunStep) /\ WF_vars(Expire)
    /\ \A s \in Server : WF_vars(Report(s))

-----------------------------------------------------------------------------
\* Every variable keeps its type.
TypeOK ==
    /\ env \in Environment
    /\ burst \in [global : Int, perClient : Int]
    /\ pc \in {"loading", "logging", "fatal", "starting", "serving",
               "stopMain", "stopMetrics", "exited", "killed"}
    /\ listener \in [Server -> {"none", "new", "listening", "failed", "returned"}]
    /\ inShutdown \in [Server -> BOOLEAN]
    /\ conns \in [Server -> 0 .. MaxConns]
    /\ errCh \in 0 .. 2
    /\ quit \in 0 .. 1
    /\ expired \in BOOLEAN

\* The metrics can be read while the main server drains, and the process exits
\* when both have drained, unless the deadline has passed (main.go:231-242).
DrainedInOrder ==
    ~expired =>
        /\ inShutdown["metrics"] => conns["main"] = 0
        /\ pc = "exited" => conns["metrics"] = 0

\* A failed server's goroutine is never stuck on errCh, even if both servers
\* fail before the main goroutine looks (main.go:206-207).
ReportNeverBlocks == \A s \in Server : listener[s] = "failed" => errCh < ErrCap

\* If either server fails, the process ends (main.go:226-231): it is never left
\* half alive.
FailureEnds == \A s \in Server : listener[s] = "failed" ~> Ended

\* A signal that is received ends the process, however long requests last
\* (main.go:231-242).
SignalEnds == quit > 0 ~> Ended

\* A process that serves admits requests as long as its rates are below a
\* quarter of what an int can tell apart, and none at all with a higher one:
\* the burst overflows, and so does the one that replaces it (config.go:41-50,
\* main.go:115-118, ratelimit.go:53-56, 83-86).  Nothing that is validated, and
\* no processor's way to convert a float64, yields a third case.
RunningServerAdmits ==
    pc \in {"starting", "serving"} =>
        /\ burst.global > 0 <=> 2 * env.globalRate < IntLimit
        /\ burst.perClient > 0 <=> 2 * env.perClientRate < IntLimit

\* The rest of an environment in which nothing else is wrong.
SoundBut(t) ==
    /\ env.url = "http" /\ env.globalRate = 100 /\ env.perClientRate = 10
    /\ env.timeout = t
    /\ env.logLevel = "unset"

\* README.md:140 and SPEC.md:53 give WRITE_TIMEOUT in seconds, with 300 for the
\* default: a process started with the documented value does not end for it.
DocumentedTimeoutLoads ==
    SoundBut([number |-> 300, unit |-> FALSE]) => pc # "fatal"
=============================================================================
