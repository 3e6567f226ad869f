----------------------------- MODULE MCProxyPipe -----------------------------
(* The downstream request and an HTTP exchange. *)
EXTENDS ProxyPipe

KindOf == [s \in Streams |-> IF s = "d" THEN "http" ELSE "exchange"]
=============================================================================
