-------------------------- MODULE MCServerLifecycle --------------------------
EXTENDS ServerLifecycle

\* An int of four bits, with rates around each of its limits, around the least
\* valid one and around the one from which the burst overflows.
SmallIntLimit == 8

Sound == [url |-> "http", globalRate |-> 2, perClientRate |-> 1,
          timeout |-> [number |-> 300, unit |-> TRUE],
          logLevel |-> "unset", logFile |-> "unset"]

\* Every deviation of one variable, and of the two that depend on another.
Deviations ==
    {[Sound EXCEPT !.url = u] : u \in Url}
    \cup {[Sound EXCEPT !.globalRate = n] : n \in {-9, -8, 0, 1, 3, 4, 7, 8}}
    \cup {[Sound EXCEPT !.perClientRate = n] : n \in {0, 3, 4, 7, 8}}
    \cup {[Sound EXCEPT !.timeout = [number |-> n, unit |-> b]] :
              n \in {-1, 0, 300}, b \in BOOLEAN}
    \cup {[Sound EXCEPT !.logLevel = l, !.logFile = f] : l \in Level, f \in File}

\* The documented values, with the unit and, as documented, without.
Documented ==
    {[url |-> "http", globalRate |-> 100, perClientRate |-> 10,
      timeout |-> [number |-> 300, unit |-> b],
      logLevel |-> "unset", logFile |-> "unset"] : b \in BOOLEAN}
=============================================================================
