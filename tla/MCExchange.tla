----------------------------- MODULE MCExchange -----------------------------
(* Exchanges that try HTTP/1.1 only. *)
EXTENDS Exchange

Http1Only == {<<"h1">>}
=============================================================================
