------------------------ MODULE MCRateLimitedPipeline ------------------------
EXTENDS RateLimitedPipeline, TLC

\* Every definition treats places, and clients, alike.
Symmetry == Permutations(Req) \cup Permutations(Client)

\* The statuses sent and logged, and the gauge, are read by nothing that the load
\* on Paperless-ngx depends on.
View == <<stage, req, ctxId, ctxToken, running, outbound, sharedAuth, limiterVars>>
=============================================================================
