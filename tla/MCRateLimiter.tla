--------------------------- MODULE MCRateLimiter ---------------------------
(* RateLimiter with a handful of requests.                                 *)
EXTENDS RateLimiter, TLC

CONSTANTS r1, r2, r3, r4, r5

FiveHits == {r1, r2, r3, r4, r5}
Symmetry == Permutations(FiveHits)
=============================================================================
