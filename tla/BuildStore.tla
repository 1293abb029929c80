----------------------------- MODULE BuildStore -----------------------------
(***************************************************************************)
(* What the build directory of mistryd promises, without saying how: a     *)
(* store that holds at most one outcome per job ID.  An ID that failed may *)
(* be discarded and built again; one that succeeded is never built again   *)
(* and its result never goes away.  At most one build of an ID runs at a   *)
(* time, and a 'latest' link only ever leads to a success.                 *)
(*                                                                         *)
(* Module Server is shown to implement this specification.                 *)
(***************************************************************************)
CONSTANTS
    Ids,       \* job IDs
    Links,     \* paths of 'latest' links, one per project and group
    LinkOf,    \* the link a successful build of an ID is published under
    Nothing    \* a link that does not exist

(* What the constants are to be; module Server makes them so. *)
StoreConstants == LinkOf \in [Ids -> Links] /\ Nothing \notin Ids

VARIABLES
    store,     \* per ID: "absent", "failed" or "done"
    building,  \* the IDs a build is running for
    link       \* the ID each link leads to

storeVars == <<store, building, link>>

StoreInit ==
    /\ store = [i \in Ids |-> "absent"]
    /\ building = {}
    /\ link = [l \in Links |-> Nothing]

(* A build of an ID without a success begins, unless one is running. *)
Begin(i) ==
    /\ i \notin building
    /\ store[i] # "done"
    /\ building' = building \cup {i}
    /\ UNCHANGED <<store, link>>

(* The build makes room for itself by dropping the earlier failure. *)
Discard(i) ==
    /\ i \in building
    /\ store[i] = "failed"
    /\ store' = [store EXCEPT ![i] = "absent"]
    /\ UNCHANGED <<building, link>>

(* The build ends and leaves its outcome, which replaces nothing. *)
Publish(i) ==
    /\ i \in building
    /\ store[i] = "absent"
    /\ \E outcome \in {"failed", "done"} : store' = [store EXCEPT ![i] = outcome]
    /\ building' = building \ {i}
    /\ UNCHANGED link

(* The build ends without an outcome. *)
Abandon(i) ==
    /\ i \in building
    /\ building' = building \ {i}
    /\ UNCHANGED <<store, link>>

Unlink(l) ==
    /\ link[l] # Nothing
    /\ link' = [link EXCEPT ![l] = Nothing]
    /\ UNCHANGED <<store, building>>

PointTo(i) ==
    /\ store[i] = "done"
    /\ link[LinkOf[i]] = Nothing
    /\ link' = [link EXCEPT ![LinkOf[i]] = i]
    /\ UNCHANGED <<store, building>>

(* Whatever was building is forgotten, what was published stays. *)
LoseBuilds ==
    /\ building' = {}
    /\ UNCHANGED <<store, link>>

StoreNext ==
    \/ \E i \in Ids : Begin(i) \/ Discard(i) \/ Publish(i) \/ Abandon(i) \/ PointTo(i)
    \/ \E l \in Links : Unlink(l)
    \/ LoseBuilds

StoreSpec == StoreInit /\ [][StoreNext]_storeVars

-----------------------------------------------------------------------------
(* Every ID has one outcome or none: a directory under ready/ is never of  *)
(* a build whose container still runs (worker.go:137-147).                 *)
StoreTypeOK ==
    /\ store \in [Ids -> {"absent", "failed", "done"}]
    /\ building \subseteq Ids
    /\ link \in [Links -> Ids \cup {Nothing}]

(* A link leads to the success of a job that belongs under it, although    *)
(* results come and go while links are replaced (worker.go:149-173).       *)
LinksLeadToSuccess ==
    \A l \in Links : link[l] # Nothing => store[link[l]] = "done" /\ LinkOf[link[l]] = l

(* A success is never built again (worker.go:94-105): no build runs for an *)
(* ID whose result the cache would serve.                                  *)
DoneIsNotBuilt == \A i \in building : store[i] # "done"

=============================================================================
