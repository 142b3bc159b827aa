---------------------------- MODULE MCProxyMode ----------------------------
(* A request of one piece and an answer of two, so that either can be cut off. *)
EXTENDS ProxyMode

MCMaxData == [client |-> 1, server |-> 2]
=============================================================================
