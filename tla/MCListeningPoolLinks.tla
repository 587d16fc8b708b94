------------------------ MODULE MCListeningPoolLinks ------------------------
(* The instance of MCListeningPool, with the links as the list. *)
EXTENDS ListeningPoolLinks

CONSTANTS c1, c2, c3, w1, w2

MCConns   == {c1, c2, c3}
MCWorkers == {w1, w2}
=============================================================================
