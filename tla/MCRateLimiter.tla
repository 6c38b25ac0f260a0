--------------------------- MODULE MCRateLimiter ---------------------------
(* RateLimiter for TLC: addresses and threads are interchangeable.         *)
EXTENDS RateLimiter, TLC

Symmetry == Permutations(Keys) \cup Permutations(Threads)
=============================================================================
