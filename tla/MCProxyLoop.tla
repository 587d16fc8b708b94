---------------------------- MODULE MCProxyLoop ----------------------------
(* Two pairs, so that one pair's events wait while the other's are handled; *)
(* a buffer of two bytes, of which one or two are read and written at once. *)
EXTENDS ProxyLoop

CONSTANTS p1, p2

MCPairs == {p1, p2}
=============================================================================
