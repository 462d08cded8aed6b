---------------------------- MODULE MCRateLimits ----------------------------
EXTENDS RateLimits, TLC

\* The login limiter starts with a lockout shorter than its window; a day quota
\* with one as long as it.
Login == [limit |-> 2, window |-> 3, base |-> 2, cap |-> 6]
Quota == [limit |-> 2, window |-> 2, base |-> 2, cap |-> 2]
InUse == {Login, Quota}
Interchangeable == Permutations(Keys) \cup Permutations(Sessions) \cup Permutations(Consumers)
=============================================================================
