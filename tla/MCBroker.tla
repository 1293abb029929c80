------------------------------ MODULE MCBroker ------------------------------
(* Broker with two jobs: clients of one that come, leave and come again,   *)
(* and a client of the other, so that a map entry is replaced, the map is  *)
(* written for one job and read for another, and tailers overlap.          *)
EXTENDS Broker

CONSTANTS j1, j2, c1, c2, c3

MCJobOf == [c \in Clients |-> IF c = c3 THEN j2 ELSE j1]

=============================================================================
