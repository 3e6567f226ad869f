------------------------ MODULE MCDownstreamTransport ------------------------
(* Two TLS connections, whose clients send the same hello. *)
EXTENDS DownstreamTransport, TLC

HelloOnly == {<<Hello>>}

Symmetry == Permutations(Conns)
=============================================================================
