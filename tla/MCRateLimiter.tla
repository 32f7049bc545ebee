---------------------------- MODULE MCRateLimiter ----------------------------
(* Requests are interchangeable, and so are keys.                             *)
EXTENDS RateLimiter, TLC

CONSTANTS r1, r2, r3, k1, k2

MCSymmetry == Permutations(Requests) \cup Permutations(Keys)

=============================================================================
