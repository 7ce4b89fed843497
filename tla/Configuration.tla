---------------------------- MODULE Configuration ----------------------------
(***************************************************************************)
(* What the process makes of its environment before it serves              *)
(* (config/config.go, setupLogging in cmd/server/logging.go, and the       *)
(* arguments that buildHandlers gives to the rate limiter).                *)
(*                                                                         *)
(* Of a variable only what decides is kept: a URL is what is wrong with    *)
(* it, a rate the integer it denotes, a duration its number and whether it *)
(* has a unit.  An unset variable is one set to its default.  A rate that  *)
(* is no number is refused as one that does not fit an int.                *)
(***************************************************************************)
EXTENDS Integers

CONSTANTS
    IntLimit,     \* 2^(w-1), where an int has w bits: 64 in a usual build
    Environment   \* the environments considered

Url == {"missing", "malformed", "ftp", "without host", "http"}
Level == {"unset", "unknown", "known"}
File == {"unset", "denied", "writable"}

ASSUME ConfigurationAssumption ==
    /\ IntLimit \in Nat \ {0}
    /\ Environment \subseteq
           [url : Url, globalRate : Int, perClientRate : Int,
            timeout : [number : Int, unit : BOOLEAN],
            logLevel : Level, logFile : File]

-----------------------------------------------------------------------------
\* The integers an int holds; strconv refuses the others.
GoInt == -IntLimit .. IntLimit - 1

\* n * 2 in Go, for an int n.
Twice(n) ==
    CASE 2 * n >= IntLimit -> 2 * n - 2 * IntLimit
      [] 2 * n < -IntLimit -> 2 * n + 2 * IntLimit
      [] OTHER             -> 2 * n

\* Mistake: a rate of zero is accepted.
ValidRateOrZero(n) == n >= 0

\* validatePositiveInt
ValidRate(n) == n >= 1

\* time.ParseDuration takes no number without a unit, but for 0.
ParsesAsDuration(t) == t.unit \/ t.number = 0

\* envconfig.Process
Processed(env) ==
    /\ env.url # "missing"
    /\ env.globalRate \in GoInt /\ env.perClientRate \in GoInt
    /\ ParsesAsDuration(env.timeout)

\* validateURLScheme, validateURLHost, and the limits of the numbers.
Validated(env) ==
    /\ env.url = "http"
    /\ ValidRate(env.globalRate) /\ ValidRate(env.perClientRate)
    /\ env.timeout.number >= 0

Loads(env) == Processed(env) /\ Validated(env)

\* setupLogging: without LOG_LEVEL, logging is off and nothing is opened.
LoggingSetUp(env) ==
    \/ env.logLevel = "unset"
    \/ env.logLevel = "known" /\ env.logFile # "denied"

\* int(rate.Limit(n)), by way of a float64: n itself, or, where a float64 has no
\* room for every integer, one that may be rounded; for one too large for an
\* int, the largest or the smallest int, as the processor has it.
FromFloat(n) ==
    IF 2 * n < IntLimit THEN {n} ELSE {k \in GoInt : 2 * k >= IntLimit} \cup {-IntLimit}

\* The burst a limiter may get: buildHandlers asks for twice the rate, and the
\* limiter takes a burst that is not positive for one to be derived from it.
Burst(n) ==
    IF Twice(n) > 0 THEN {Twice(n)} ELSE {Twice(k) : k \in FromFloat(n)}
=============================================================================
