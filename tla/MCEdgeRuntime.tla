--------------------------- MODULE MCEdgeRuntime ---------------------------
(* EdgeRuntime with two requests.  A session matches both or none.        *)
EXTENDS EdgeRuntime, TLC

CONSTANTS r1, r2

MCRequests == {r1, r2}
MCMatchSets == {MCRequests, {}}
MCSymmetry == Permutations(MCRequests)
=============================================================================
