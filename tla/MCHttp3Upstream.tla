--------------------------- MODULE MCHttp3Upstream ---------------------------
(* Requests of one key, all of which may fall back. *)
EXTENDS Http3Upstream, TLC

AllPreferred == [r \in Http3Requests |-> "Preferred"]

Symmetry == Permutations(Http3Requests)
=============================================================================
