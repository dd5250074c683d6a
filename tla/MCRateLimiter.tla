--------------------------- MODULE MCRateLimiter ----------------------------
EXTENDS RateLimiter, TLC

Symmetry == Permutations(Key)
=============================================================================
