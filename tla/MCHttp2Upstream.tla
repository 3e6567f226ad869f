--------------------------- MODULE MCHttp2Upstream ---------------------------
(* Three requests race for one entry; what they do is symmetric. *)
EXTENDS Http2Upstream, TLC

Symmetry == Permutations(Requests)
=============================================================================
