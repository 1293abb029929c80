---------------------------- MODULE ProjectMutex ----------------------------
(***************************************************************************)
(* What ProjectQueue promises (cmd/mistryd/project_queue.go:5, "provides a *)
(* per-project mutex"): at most one goroutine holds a project's lock, and  *)
(* the locks of different projects have nothing to do with each other.     *)
(* Module Server uses the lock in this form.                               *)
(***************************************************************************)
CONSTANTS Projects, Workers, Nobody

VARIABLE owner   \* per project: the worker that holds its lock

FreeInit == owner = [p \in Projects |-> Nobody]

Acquire(w, p) ==
    /\ owner[p] = Nobody
    /\ owner' = [owner EXCEPT ![p] = w]

Release(w, p) ==
    /\ owner[p] = w
    /\ owner' = [owner EXCEPT ![p] = Nobody]

MutexNext == \E w \in Workers, p \in Projects : Acquire(w, p) \/ Release(w, p)

MutexSpec == FreeInit /\ [][MutexNext]_owner

=============================================================================
