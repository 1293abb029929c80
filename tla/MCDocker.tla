------------------------------ MODULE MCDocker ------------------------------
(* Docker with one project: two jobs that differ in their parameters only, *)
(* so that they can be exchanged, and a rebuild command that finds newer   *)
(* files than they did; both versions share the tag.                       *)
EXTENDS Docker, TLC

CONSTANTS a, b, p, old, new

MCProjectOf == [j \in Jobs |-> p]
MCVersionOf == [j \in Jobs |-> old]
JobSymmetry == Permutations(Jobs)
MCRebuildVersion == [q \in {p} |-> new]
AnyFault == {"image", "list", "rename", "create", "start", "logs", "copy",
             "inspect", "remove", "rebuild", "prune"}

=============================================================================
