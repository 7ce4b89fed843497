-------------------------- MODULE MCRequestPipeline --------------------------
EXTENDS RequestPipeline

\* Of requests that differ only in place and user, one is enough: batches come
\* to one place and from one user, a proxy's ids to the other place and from
\* the other user, who sends them always.
BatchPlace == CHOOSE r \in Req : TRUE
BatchUser == CHOOSE t \in Token : TRUE

Selected ==
    \A r \in Req :
        /\ req[r].calls > 1 => r = BatchPlace /\ req[r].auth = BatchUser
        /\ req[r].id # NoId <=>
              r # BatchPlace /\ req[r].auth \in Token \ {BatchUser}
        /\ req[r].auth = LongToken => r = BatchPlace
=============================================================================
