--------------------------- MODULE MCProjectRepo ---------------------------
(* Model-checking instance of ProjectRepo: two concurrent handlers, a      *)
(* handful of names, and one leadership loss.                              *)
EXTENDS ProjectRepoStore

CONSTANTS c1, c2, n1, n2, d1, empty

MCClients == {c1, c2}
MCNames == {n1}
MCTwoNames == {n1, n2}
MCDescs == {d1}
=============================================================================
