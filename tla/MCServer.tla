------------------------------ MODULE MCServer ------------------------------
(***************************************************************************)
(* Server with two workers and two jobs of one project and group: one that *)
(* several identical requests ask for, so that they coalesce, hit the      *)
(* cache and rebuild after a failure, and one that competes for the        *)
(* project's mutex and for the link, and is cloned from.                   *)
(***************************************************************************)
EXTENDS Server, TLC

CONSTANTS r1, r2, r3, q1, w1, w2, a, b, p, g

MCJob == [r \in Requests |-> IF r = q1 THEN b ELSE a]
MCProject == [i \in JobIDs |-> p]
MCGroup == [i \in JobIDs |-> g]

(* Identical requests and the workers are interchangeable. *)
MCSymmetry == Permutations({r1, r2, r3} \cap Requests) \cup Permutations(Workers)

=============================================================================
