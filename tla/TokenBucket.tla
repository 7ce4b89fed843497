---------------------------- MODULE TokenBucket ----------------------------
(***************************************************************************)
(* The token bucket of golang.org/x/time/rate, as handlers/ratelimit.go    *)
(* uses it (NewLimiter and Allow).  The library is not part of this        *)
(* repository: the operators below model what the code relies on.          *)
(*                                                                         *)
(* Fractional tokens are counted in credits, so that all arithmetic stays  *)
(* in the integers: a request costs TicksPerSecond credits, and a bucket   *)
(* whose rate is r requests per second gains r credits at every tick of    *)
(* the clock.  The bucket is lazy, as in the library: it stores the        *)
(* credit it had at the instant of the last granted request and computes   *)
(* the present level on demand.                                            *)
(***************************************************************************)
EXTENDS Integers

CONSTANT TicksPerSecond  \* the resolution of the clock

ASSUME TicksAssumption == TicksPerSecond \in Nat \ {0}

Lesser(a, b) == IF a <= b THEN a ELSE b

\* A limiter of burst b never holds more than the credit of b requests.
Capacity(burst) == burst * TicksPerSecond

Bucket == [credit : Nat, last : Nat]

\* rate.NewLimiter: the bucket starts full.
NewLimiter(burst, t) == [credit |-> Capacity(burst), last |-> t]

\* The credit available at time t.
Level(b, rate, burst, t) ==
    Lesser(Capacity(burst), b.credit + (t - b.last) * rate)

\* limiter.Allow() returns true: there is a whole token.
CanTake(b, rate, burst, t) == Level(b, rate, burst, t) >= TicksPerSecond

\* The bucket after a granted request; a refused request changes nothing.
Take(b, rate, burst, t) ==
    [credit |-> Level(b, rate, burst, t) - TicksPerSecond, last |-> t]
=============================================================================
