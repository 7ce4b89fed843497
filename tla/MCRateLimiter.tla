--------------------------- MODULE MCRateLimiter ---------------------------
(* The rate limiter, its refinement and its observer on a small instance.  *)
(* The specifications and the mapping treat clients, goroutines and cells  *)
(* alike, and every property checked is about states or single steps:      *)
(* symmetry is sound.                                                      *)
EXTENDS AdmissionWindow, TLC

Symmetry == Permutations(Client) \cup Permutations(Req) \cup Permutations(Cell)
=============================================================================
