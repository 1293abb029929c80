---------------------------- MODULE ProjectQueue ----------------------------
(***************************************************************************)
(* The map of per-project mutexes (cmd/mistryd/project_queue.go), filled   *)
(* on demand under a mutex of its own, and BootstrapProject                *)
(* (cmd/mistryd/worker.go), which makes a project's directories under the  *)
(* project's mutex with EnsureDirExists (pkg/utils/utils.go): a Stat       *)
(* followed by a Mkdir that fails if the directory has appeared.           *)
(*                                                                         *)
(* A sync.Mutex is named by the project and the worker it was made by.     *)
(***************************************************************************)
EXTENDS Naturals

CONSTANTS
    Workers,    \* goroutines that bootstrap projects
    Projects,   \* projects
    Unlucky,    \* the workers whose Stat or Mkdir may fail by itself (a full disk)
    Nobody      \* no worker, no mutex

ASSUME QueueConstants == Nobody \notin Workers /\ Unlucky \subseteq Workers

VARIABLES
    at,        \* where each worker is
    project,   \* the project of the job it works on
    last,      \* the last directory it has to make: groups/ only if grouped
    plock,     \* the maker of the mutex it found in the map
    step,      \* the directory it has come to
    mu,        \* who holds q.mu
    made,      \* q.p: per project the maker of its mutex, or Nobody
    held,      \* per mutex who holds it
    dirs,      \* per project the directories there are
    refused    \* the workers whose BootstrapProject returns an error

queueVars == <<at, project, last, plock, step, mu, made, held, dirs, refused>>

(* The directories in the order BootstrapProject makes them. *)
RootDir == 1
PendingDir == 2
ReadyDir == 3
GroupsDir == 4

Mutexes == Projects \X Workers
Mine(w) == <<project[w], plock[w]>>

QueueInit ==
    /\ at = [w \in Workers |-> "idle"]
    /\ project \in [Workers -> Projects]
    /\ last = [w \in Workers |-> ReadyDir]
    /\ plock = [w \in Workers |-> Nobody]
    /\ step = [w \in Workers |-> RootDir]
    /\ mu = Nobody
    /\ made = [p \in Projects |-> Nobody]
    /\ held = [m \in Mutexes |-> Nobody]
    /\ dirs = [p \in Projects |-> {}]
    /\ refused = {}

Goto(w, place) == at' = [at EXCEPT ![w] = place]

-----------------------------------------------------------------------------
(* A worker calls BootstrapProject for a job, in a group or not. *)
Call(w) ==
    /\ at[w] = "idle"
    /\ \E p \in Projects : project' = [project EXCEPT ![w] = p]
    /\ \E d \in {ReadyDir, GroupsDir} : last' = [last EXCEPT ![w] = d]
    /\ Goto(w, "lockMu")
    /\ UNCHANGED <<plock, step, mu, made, held, dirs, refused>>

(* Mutant of LockMu: the map is read without its mutex. *)
LockNothing(w) ==
    /\ at[w] = "lockMu"
    /\ Goto(w, "lookUp")
    /\ UNCHANGED <<project, last, plock, step, mu, made, held, dirs, refused>>

(* ProjectQueue.Lock: q.mu.Lock, *)
LockMu(w) ==
    /\ at[w] = "lockMu"
    /\ mu = Nobody
    /\ mu' = w
    /\ Goto(w, "lookUp")
    /\ UNCHANGED <<project, last, plock, step, made, held, dirs, refused>>

(* the lookup in the map, *)
LookUp(w) ==
    /\ at[w] = "lookUp"
    /\ plock' = [plock EXCEPT ![w] = made[project[w]]]
    /\ Goto(w, IF made[project[w]] = Nobody THEN "make" ELSE "unlockMu")
    /\ UNCHANGED <<project, last, step, mu, made, held, dirs, refused>>

(* a new mutex if there is none, *)
Make(w) ==
    /\ at[w] = "make"
    /\ made' = [made EXCEPT ![project[w]] = w]
    /\ plock' = [plock EXCEPT ![w] = w]
    /\ Goto(w, "unlockMu")
    /\ UNCHANGED <<project, last, step, mu, held, dirs, refused>>

(* Mutant of UnlockMu: q.mu is kept until the project's lock is had. *)
UnlockMuLate(w) ==
    /\ at[w] = "unlockMu"
    /\ held[Mine(w)] = Nobody
    /\ mu' = Nobody
    /\ Goto(w, "lock")
    /\ UNCHANGED <<project, last, plock, step, made, held, dirs, refused>>

(* q.mu.Unlock *)
UnlockMu(w) ==
    /\ at[w] = "unlockMu"
    /\ mu' = Nobody
    /\ Goto(w, "lock")
    /\ UNCHANGED <<project, last, plock, step, made, held, dirs, refused>>

(* and plock.Lock. *)
Lock(w) ==
    /\ at[w] = "lock"
    /\ held[Mine(w)] = Nobody
    /\ held' = [held EXCEPT ![Mine(w)] = w]
    /\ step' = [step EXCEPT ![w] = RootDir]
    /\ Goto(w, "stat")
    /\ UNCHANGED <<project, last, plock, mu, made, dirs, refused>>

(* EnsureDirExists: Stat.  When the last directory is there, the deferred  *)
(* Unlock follows, and after an error other than that of a directory that  *)
(* does not exist, which is returned.                                      *)
Stat(w) ==
    /\ at[w] = "stat"
    /\ \/ /\ step[w] \notin dirs[project[w]]
          /\ Goto(w, "mkdir") /\ UNCHANGED <<step, refused>>
       \/ /\ step[w] \in dirs[project[w]] /\ step[w] < last[w]
          /\ step' = [step EXCEPT ![w] = @ + 1] /\ UNCHANGED <<at, refused>>
       \/ /\ step[w] \in dirs[project[w]] /\ step[w] = last[w]
          /\ Goto(w, "relockMu") /\ UNCHANGED <<step, refused>>
       \/ /\ w \in Unlucky
          /\ refused' = refused \cup {w}
          /\ Goto(w, "relockMu") /\ UNCHANGED step
    /\ UNCHANGED <<project, last, plock, mu, made, held, dirs>>

CanMake(p, d) == d \notin dirs[p] /\ (d = RootDir \/ RootDir \in dirs[p])

(* EnsureDirExists: Mkdir, which fails when the directory exists or its    *)
(* parent does not; the error is returned and the deferred Unlock runs.    *)
Mkdir(w) ==
    LET p == project[w] IN
    /\ at[w] = "mkdir"
    /\ \/ /\ CanMake(p, step[w])
          /\ dirs' = [dirs EXCEPT ![p] = @ \cup {step[w]}]
          /\ Goto(w, "stat") /\ UNCHANGED refused
       \/ /\ w \in Unlucky \/ ~CanMake(p, step[w])
          /\ refused' = refused \cup {w}
          /\ Goto(w, "relockMu") /\ UNCHANGED dirs
    /\ UNCHANGED <<project, last, plock, step, mu, made, held>>

(* ProjectQueue.Unlock: q.mu.Lock, *)
RelockMu(w) ==
    /\ at[w] = "relockMu"
    /\ mu = Nobody
    /\ mu' = w
    /\ Goto(w, "unlock")
    /\ UNCHANGED <<project, last, plock, step, made, held, dirs, refused>>

(* the mutex found in the map again is unlocked, q.mu.Unlock; the local    *)
(* variables are gone.                                                     *)
Unlock(w) ==
    /\ at[w] = "unlock"
    /\ held' = [held EXCEPT ![<<project[w], made[project[w]]>>] = Nobody]
    /\ mu' = Nobody
    /\ plock' = [plock EXCEPT ![w] = Nobody]
    /\ step' = [step EXCEPT ![w] = RootDir]
    /\ last' = [last EXCEPT ![w] = ReadyDir]
    /\ refused' = refused \ {w}
    /\ Goto(w, "idle")
    /\ UNCHANGED <<project, made, dirs>>

Step(w) ==
    \/ LockMu(w) \/ LookUp(w) \/ Make(w) \/ UnlockMu(w) \/ Lock(w)
    \/ Stat(w) \/ Mkdir(w) \/ RelockMu(w) \/ Unlock(w)

QueueNext == \E w \in Workers : Call(w) \/ Step(w)

QueueSpec == QueueInit /\ [][QueueNext]_queueVars

(***************************************************************************)
(* Goroutines are scheduled, and a sync.Mutex does not starve a goroutine  *)
(* that waits for it (its starvation mode hands the lock over).            *)
(***************************************************************************)
QueueFairness ==
    \A w \in Workers :
        /\ WF_queueVars(LookUp(w) \/ Make(w) \/ UnlockMu(w) \/ Stat(w) \/ Mkdir(w) \/ Unlock(w))
        /\ SF_queueVars(LockMu(w) \/ Lock(w) \/ RelockMu(w))

FairQueueSpec == QueueSpec /\ QueueFairness

-----------------------------------------------------------------------------
Places == {"idle", "lockMu", "lookUp", "make", "unlockMu", "lock", "stat",
           "mkdir", "relockMu", "unlock"}

(* Every variable holds a value of its type. *)
QueueTypeOK ==
    /\ at \in [Workers -> Places]
    /\ project \in [Workers -> Projects]
    /\ last \in [Workers -> {ReadyDir, GroupsDir}]
    /\ plock \in [Workers -> Workers \cup {Nobody}]
    /\ step \in [Workers -> RootDir..GroupsDir]
    /\ mu \in Workers \cup {Nobody}
    /\ made \in [Projects -> Workers \cup {Nobody}]
    /\ held \in [Mutexes -> Workers \cup {Nobody}]
    /\ dirs \in [Projects -> SUBSET (RootDir..GroupsDir)]
    /\ refused \subseteq Workers

(* A worker between the return of Lock and the call of Unlock. *)
Holding(w) == at[w] \in {"stat", "mkdir", "relockMu", "unlock"}

(* Two workers never hold the lock of one project, although each looks up  *)
(* its mutex before it locks it and one of them makes it                   *)
(* (project_queue.go:17-26).                                               *)
OneHolder ==
    \A v, w \in Workers : Holding(v) /\ Holding(w) /\ project[v] = project[w] => v = w

(* No BootstrapProject fails because of another one, even of one that      *)
(* failed half way (worker.go:274-275,                                     *)
(* "BootstrapProject is idempotent"; server_test.go, TestBootstrapProject- *)
(* Race), and when one has returned its directories are there.             *)
BootstrapSucceeds ==
    /\ refused \subseteq Unlucky
    /\ \A w \in Workers \ refused : at[w] \in {"relockMu", "unlock"} =>
         RootDir..last[w] \subseteq dirs[project[w]]

(* The worker that holds the lock of a project. *)
Owner == [p \in Projects |->
            IF \E w \in Workers : Holding(w) /\ project[w] = p
            THEN CHOOSE w \in Workers : Holding(w) /\ project[w] = p
            ELSE Nobody]

Abstract == INSTANCE ProjectMutex WITH owner <- Owner

(* The map of mutexes is a mutex per project (project_queue.go:5). *)
ImplementsMutex == Abstract!MutexSpec

(* A worker that asks for the lock of its project gets it, and             *)
(* BootstrapProject returns: nobody waits for q.mu while holding what its  *)
(* holder waits for (project_queue.go:24-32).                              *)
BootstrapReturns == \A w \in Workers : at[w] # "idle" ~> at[w] = "idle"

=============================================================================
