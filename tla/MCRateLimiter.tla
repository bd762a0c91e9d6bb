---------------------------- MODULE MCRateLimiter ----------------------------
(* RateLimiter on the small instance the configuration gives.                *)
EXTENDS RateLimiter, TLC

CONSTANTS c1, c2, c3

Symmetry == Permutations({c1, c2, c3})
=============================================================================
