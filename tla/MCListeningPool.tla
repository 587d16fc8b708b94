--------------------------- MODULE MCListeningPool ---------------------------
(* Three connection nodes, two workers: nodes are reused after a close, the *)
(* list holds up to three, and both workers and the master can contend.    *)
EXTENDS ListeningPool

CONSTANTS c1, c2, c3, w1, w2

MCConns   == {c1, c2, c3}
MCWorkers == {w1, w2}
=============================================================================
