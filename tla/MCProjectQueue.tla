--------------------------- MODULE MCProjectQueue ---------------------------
(* ProjectQueue with two workers that race for the first lock of a project *)
(* or work on different ones; one of them fails at will.                   *)
EXTENDS ProjectQueue

CONSTANTS w1, w2, p1, p2

=============================================================================
