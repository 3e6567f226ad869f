-------------------------- MODULE MCHttp1SenderPool --------------------------
EXTENDS Http1SenderPool, TLC

Symmetry == Permutations(Requests) \cup Permutations(PoolKeys)
=============================================================================
