------------------------- MODULE ProjectQueueProofs -------------------------
(***************************************************************************)
(* Proofs about ProjectQueue: types, mutual exclusion per project, and the *)
(* success of concurrent bootstraps, for every set of workers and projects *)
(* and whichever Mkdir fails by itself; and that the map of mutexes        *)
(* implements one mutex per project.                                       *)
(***************************************************************************)
EXTENDS ProjectQueue, TLAPS

LEMMA QueueTypeInit == QueueInit => QueueTypeOK
  BY DEF QueueInit, QueueTypeOK, Places, Mutexes, RootDir, ReadyDir, GroupsDir

(* A mutex is locked or unlocked; which one does not matter to the types. *)
LEMMA HeldUpdate ==
    ASSUME NEW M, NEW R, NEW h \in [M -> R], NEW m, NEW r \in R
    PROVE  [h EXCEPT ![m] = r] \in [M -> R]
  OBVIOUS

LEMMA QueueTypeStep == QueueTypeOK /\ [QueueNext]_queueVars => QueueTypeOK'
<1> SUFFICES ASSUME QueueTypeOK, [QueueNext]_queueVars PROVE QueueTypeOK'
  OBVIOUS
<1> USE DEF QueueTypeOK, Places, Goto, RootDir, ReadyDir, GroupsDir
<1>1. ASSUME NEW w \in Workers, Call(w) PROVE QueueTypeOK'
  BY <1>1 DEF Call
<1>2. ASSUME NEW w \in Workers, LockMu(w) PROVE QueueTypeOK'
  BY <1>2 DEF LockMu
<1>3. ASSUME NEW w \in Workers, LookUp(w) PROVE QueueTypeOK'
  BY <1>3 DEF LookUp
<1>4. ASSUME NEW w \in Workers, Make(w) PROVE QueueTypeOK'
  BY <1>4 DEF Make
<1>5. ASSUME NEW w \in Workers, UnlockMu(w) PROVE QueueTypeOK'
  BY <1>5 DEF UnlockMu
<1>6. ASSUME NEW w \in Workers, Lock(w) PROVE QueueTypeOK'
<2>1. held' \in [Mutexes -> Workers \cup {Nobody}]
  BY <1>6, HeldUpdate DEF Lock
<2> QED
  BY <1>6, <2>1 DEF Lock
<1>7. ASSUME NEW w \in Workers, Stat(w) PROVE QueueTypeOK'
  BY <1>7 DEF Stat
<1>8. ASSUME NEW w \in Workers, Mkdir(w) PROVE QueueTypeOK'
  BY <1>8 DEF Mkdir
<1>9. ASSUME NEW w \in Workers, RelockMu(w) PROVE QueueTypeOK'
  BY <1>9 DEF RelockMu
<1>10. ASSUME NEW w \in Workers, Unlock(w) PROVE QueueTypeOK'
<2>1. held' \in [Mutexes -> Workers \cup {Nobody}]
  BY <1>10, HeldUpdate DEF Unlock
<2> QED
  BY <1>10, <2>1 DEF Unlock
<1>11. CASE UNCHANGED queueVars
  BY <1>11 DEF queueVars
<1> QED
  BY <1>1, <1>2, <1>3, <1>4, <1>5, <1>6, <1>7, <1>8, <1>9, <1>10, <1>11
  DEF QueueNext, Step

-----------------------------------------------------------------------------
(* Why there is one holder: the map is only used by who holds q.mu, an     *)
(* entry is made once, and a worker that has found its mutex finds the     *)
(* same one when it unlocks.                                               *)
MapUnderMu ==
    \A w \in Workers : at[w] \in {"lookUp", "make", "unlockMu", "unlock"} <=> mu = w
MadeOnce ==
    \A w \in Workers : at[w] = "make" => made[project[w]] = Nobody
FoundInMap ==
    \A w \in Workers : at[w] \in {"unlockMu", "lock"} \/ Holding(w) =>
        plock[w] # Nobody /\ made[project[w]] = plock[w]
HoldsIt ==
    \A w \in Workers : Holding(w) => held[Mine(w)] = w

LockInv == QueueTypeOK /\ MapUnderMu /\ MadeOnce /\ FoundInMap /\ HoldsIt

LEMMA LockInvInit == QueueInit => LockInv
  BY QueueTypeInit, QueueConstants
  DEF QueueInit, LockInv, MapUnderMu, MadeOnce, FoundInMap, HoldsIt, Holding

LEMMA LockInvHolder == LockInv => OneHolder
<1> SUFFICES ASSUME LockInv, NEW v \in Workers, NEW w \in Workers,
                    Holding(v), Holding(w), project[v] = project[w]
             PROVE  v = w
  BY DEF OneHolder
<1>1. plock[v] = plock[w]
  BY DEF LockInv, FoundInMap
<1>2. Mine(v) = Mine(w)
  BY <1>1 DEF Mine
<1> QED
  BY <1>2 DEF LockInv, HoldsIt

LEMMA LockInvStep == LockInv /\ [QueueNext]_queueVars => LockInv'
<1> SUFFICES ASSUME LockInv, [QueueNext]_queueVars PROVE LockInv'
  OBVIOUS
<1>0. QueueTypeOK /\ QueueTypeOK'
  BY QueueTypeStep DEF LockInv
<1> USE <1>0, QueueConstants
    DEF LockInv, QueueTypeOK, MapUnderMu, MadeOnce, FoundInMap, HoldsIt, Holding, Mine, Goto,
        Mutexes
<1>1. ASSUME NEW w \in Workers, Call(w) PROVE LockInv'
  BY <1>1 DEF Call
<1>2. ASSUME NEW w \in Workers, LockMu(w) PROVE LockInv'
  BY <1>2 DEF LockMu
<1>3. ASSUME NEW w \in Workers, LookUp(w) PROVE LockInv'
  BY <1>3 DEF LookUp
<1>4. ASSUME NEW w \in Workers, Make(w) PROVE LockInv'
  BY <1>4 DEF Make
<1>5. ASSUME NEW w \in Workers, UnlockMu(w) PROVE LockInv'
  BY <1>5 DEF UnlockMu
<1>6. ASSUME NEW w \in Workers, Lock(w) PROVE LockInv'
  BY <1>6 DEF Lock
<1>7. ASSUME NEW w \in Workers, Stat(w) PROVE LockInv'
  BY <1>7 DEF Stat
<1>8. ASSUME NEW w \in Workers, Mkdir(w) PROVE LockInv'
  BY <1>8 DEF Mkdir
<1>9. ASSUME NEW w \in Workers, RelockMu(w) PROVE LockInv'
  BY <1>9 DEF RelockMu
<1>10. ASSUME NEW w \in Workers, Unlock(w) PROVE LockInv'
  BY <1>10 DEF Unlock
<1>11. CASE UNCHANGED queueVars
  BY <1>11 DEF queueVars
<1> QED
  BY <1>1, <1>2, <1>3, <1>4, <1>5, <1>6, <1>7, <1>8, <1>9, <1>10, <1>11
  DEF QueueNext, Step

-----------------------------------------------------------------------------
(* Why no Mkdir is refused: the directories of a project are only made by  *)
(* the holder of its lock, so what its Stat saw is still so, and those     *)
(* before the one it has come to are there.                                *)
MkdirIsPossible ==
    \A w \in Workers : at[w] = "mkdir" => CanMake(project[w], step[w])
MadeInOrder ==
    \A w \in Workers : at[w] \in {"stat", "mkdir"} =>
        /\ step[w] <= last[w]
        /\ \A d \in RootDir..GroupsDir : d < step[w] => d \in dirs[project[w]]

BootInv == LockInv /\ BootstrapSucceeds /\ MkdirIsPossible /\ MadeInOrder

LEMMA BootInvInit == QueueInit => BootInv
  BY LockInvInit
  DEF QueueInit, BootInv, BootstrapSucceeds, MkdirIsPossible, MadeInOrder

LEMMA BootInvStep == BootInv /\ [QueueNext]_queueVars => BootInv'
<1> SUFFICES ASSUME BootInv, [QueueNext]_queueVars PROVE BootInv'
  OBVIOUS
<1>0. LockInv /\ LockInv' /\ QueueTypeOK /\ OneHolder
  BY LockInvStep, LockInvHolder DEF BootInv, LockInv
<1> USE <1>0, QueueConstants
    DEF BootInv, BootstrapSucceeds, MkdirIsPossible, MadeInOrder, CanMake, QueueTypeOK,
        Goto, RootDir, ReadyDir, GroupsDir
<1>1. ASSUME NEW w \in Workers, Call(w) PROVE BootInv'
  BY <1>1 DEF Call
<1>2. ASSUME NEW w \in Workers, LockMu(w) PROVE BootInv'
  BY <1>2 DEF LockMu
<1>3. ASSUME NEW w \in Workers, LookUp(w) PROVE BootInv'
  BY <1>3 DEF LookUp
<1>4. ASSUME NEW w \in Workers, Make(w) PROVE BootInv'
  BY <1>4 DEF Make
<1>5. ASSUME NEW w \in Workers, UnlockMu(w) PROVE BootInv'
  BY <1>5 DEF UnlockMu
<1>6. ASSUME NEW w \in Workers, Lock(w) PROVE BootInv'
  BY <1>6 DEF Lock
<1>7. ASSUME NEW w \in Workers, Stat(w) PROVE BootInv'
  BY <1>7 DEF Stat
<1>8. ASSUME NEW w \in Workers, Mkdir(w) PROVE BootInv'
  BY <1>8 DEF Mkdir, OneHolder, Holding
<1>9. ASSUME NEW w \in Workers, RelockMu(w) PROVE BootInv'
  BY <1>9 DEF RelockMu
<1>10. ASSUME NEW w \in Workers, Unlock(w) PROVE BootInv'
  BY <1>10 DEF Unlock
<1>11. CASE UNCHANGED queueVars
  BY <1>11 DEF queueVars
<1> QED
  BY <1>1, <1>2, <1>3, <1>4, <1>5, <1>6, <1>7, <1>8, <1>9, <1>10, <1>11
  DEF QueueNext, Step

LEMMA BootInvariant == QueueSpec => []BootInv
  BY BootInvInit, BootInvStep, PTL DEF QueueSpec

-----------------------------------------------------------------------------
(* Every variable of the queue and of its callers keeps its type. *)
THEOREM QueueTypeCorrect == QueueSpec => []QueueTypeOK
  BY QueueTypeInit, QueueTypeStep, PTL DEF QueueSpec

(* Two workers never hold the lock of one project                          *)
(* (project_queue.go:17-26).                                               *)
THEOREM OneHolderPerProject == QueueSpec => []OneHolder
<1>1. BootInv => OneHolder
  BY LockInvHolder DEF BootInv
<1> QED
  BY <1>1, BootInvariant, PTL

(* Concurrent bootstraps of a project do not make each other fail          *)
(* (worker.go:274-303, utils.go:29-47).                                    *)
THEOREM BootstrapsSucceed == QueueSpec => []BootstrapSucceeds
<1>1. BootInv => BootstrapSucceeds
  BY DEF BootInv
<1> QED
  BY <1>1, BootInvariant, PTL

-----------------------------------------------------------------------------
(* The refinement: the owner of a project's lock is the worker that holds  *)
(* it, Lock acquires, Unlock releases, and no other step is seen.          *)
LEMMA OwnerIsHolder ==
    ASSUME OneHolder
    PROVE  /\ \A w \in Workers : Holding(w) /\ project[w] \in Projects => Owner[project[w]] = w
           /\ \A p \in Projects :
                (\A w \in Workers : ~(Holding(w) /\ project[w] = p)) => Owner[p] = Nobody
  BY DEF OneHolder, Owner

LEMMA OwnerIsFunction ==
    /\ Owner = [p \in Projects |-> Owner[p]]
    /\ Owner' = [p \in Projects |-> Owner'[p]]
  BY DEF Owner

LEMMA OwnerUnchanged ==
    ASSUME \A w \in Workers : /\ Holding(w)' <=> Holding(w)
                              /\ Holding(w) => project'[w] = project[w]
    PROVE  Owner' = Owner
<1>1. \A p \in Projects, w \in Workers :
        (Holding(w) /\ project[w] = p)' <=> (Holding(w) /\ project[w] = p)
  OBVIOUS
<1> QED
  BY <1>1 DEF Owner

LEMMA LockAcquires ==
    ASSUME LockInv, LockInv', NEW w \in Workers, Lock(w)
    PROVE  Abstract!Acquire(w, project[w])
<1>1. /\ OneHolder /\ QueueTypeOK
      /\ project[w] \in Projects /\ project' = project
  BY LockInvHolder DEF LockInv, Lock, QueueTypeOK
<1>2. ASSUME NEW v \in Workers, Holding(v), project[v] = project[w] PROVE FALSE
  <2>1. plock[v] = plock[w] /\ held[Mine(v)] = v
    BY <1>2 DEF LockInv, FoundInMap, HoldsIt, Lock
  <2>2. Mine(v) = Mine(w)
    BY <1>2, <2>1 DEF Mine
  <2> QED
    BY <2>1, <2>2, QueueConstants DEF Lock
<1>3. Owner[project[w]] = Nobody
  BY <1>1, <1>2, OwnerIsHolder
<1>4. \A v \in Workers : Holding(v)' <=> Holding(v) \/ v = w
  BY <1>1 DEF Lock, Goto, Holding, QueueTypeOK
<1>5. ASSUME NEW p \in Projects, p # project[w] PROVE Owner'[p] = Owner[p]
  <2>1. \A v \in Workers : Holding(v)' /\ project'[v] = p <=> Holding(v) /\ project[v] = p
    BY <1>1, <1>4, <1>5
  <2> QED
    BY <2>1 DEF Owner
<1>6. Owner'[project[w]] = w
  <2>1. Holding(w)'
    BY <1>4
  <2>2. \A v \in Workers : Holding(v)' /\ project'[v] = project[w] => v = w
    BY <1>1, <1>2, <1>4
  <2> QED
    BY <1>1, <2>1, <2>2 DEF Owner
<1>7. Owner' = [Owner EXCEPT ![project[w]] = w]
  BY <1>1, <1>5, <1>6, OwnerIsFunction
<1> QED
  BY <1>3, <1>7 DEF Abstract!Acquire

LEMMA UnlockReleases ==
    ASSUME LockInv, LockInv', NEW w \in Workers, Unlock(w)
    PROVE  Abstract!Release(w, project[w])
<1>1. /\ OneHolder /\ QueueTypeOK
      /\ project[w] \in Projects /\ project' = project /\ Holding(w)
  BY LockInvHolder DEF LockInv, Unlock, QueueTypeOK, Holding
<1>2. Owner[project[w]] = w
  BY <1>1, OwnerIsHolder
<1>3. \A v \in Workers : Holding(v)' <=> Holding(v) /\ v # w
  BY <1>1 DEF Unlock, Goto, Holding, QueueTypeOK
<1>4. ASSUME NEW p \in Projects, p # project[w] PROVE Owner'[p] = Owner[p]
  <2>1. \A v \in Workers : Holding(v)' /\ project'[v] = p <=> Holding(v) /\ project[v] = p
    BY <1>1, <1>3, <1>4
  <2> QED
    BY <2>1 DEF Owner
<1>5. Owner'[project[w]] = Nobody
  <2>1. \A v \in Workers : ~(Holding(v)' /\ project'[v] = project[w])
    BY <1>1, <1>3 DEF OneHolder
  <2> QED
    BY <1>1, <2>1 DEF Owner
<1>6. Owner' = [Owner EXCEPT ![project[w]] = Nobody]
  BY <1>1, <1>4, <1>5, OwnerIsFunction
<1> QED
  BY <1>2, <1>6 DEF Abstract!Release

LEMMA OtherStepsUnseen ==
    ASSUME QueueTypeOK, NEW w \in Workers,
           \/ Call(w) \/ LockMu(w) \/ LookUp(w) \/ Make(w) \/ UnlockMu(w)
           \/ Stat(w) \/ Mkdir(w) \/ RelockMu(w)
    PROVE  Owner' = Owner
<1>1. \A v \in Workers : /\ Holding(v)' <=> Holding(v)
                         /\ Holding(v) => project'[v] = project[v]
  <2> USE DEF Holding, Goto, QueueTypeOK
  <2>1. CASE Call(w)
    BY <2>1 DEF Call
  <2>2. CASE LockMu(w) \/ LookUp(w) \/ Make(w) \/ UnlockMu(w)
    BY <2>2 DEF LockMu, LookUp, Make, UnlockMu
  <2>3. CASE Stat(w) \/ Mkdir(w) \/ RelockMu(w)
    BY <2>3 DEF Stat, Mkdir, RelockMu
  <2> QED
    BY <2>1, <2>2, <2>3
<1> QED
  BY <1>1, OwnerUnchanged

(* ProjectQueue implements one mutex per project (project_queue.go:5):     *)
(* module Server may use it as such.                                       *)
THEOREM QueueImplementsMutex == QueueSpec => ImplementsMutex
<1>1. QueueInit => Abstract!FreeInit
  <2> SUFFICES ASSUME QueueInit PROVE Owner = [p \in Projects |-> Nobody]
    BY DEF Abstract!FreeInit
  <2>1. \A w \in Workers : ~Holding(w)
    BY DEF QueueInit, Holding
  <2> QED
    BY <2>1 DEF Owner
<1>2. BootInv /\ BootInv' /\ [QueueNext]_queueVars => [Abstract!MutexNext]_Owner
  <2> SUFFICES ASSUME BootInv, BootInv', [QueueNext]_queueVars
               PROVE  Abstract!MutexNext \/ Owner' = Owner
    OBVIOUS
  <2>0. LockInv /\ LockInv' /\ QueueTypeOK
    BY DEF BootInv, LockInv
  <2>1. ASSUME NEW w \in Workers, Lock(w) PROVE Abstract!MutexNext
    BY <2>0, <2>1, LockAcquires DEF Abstract!MutexNext, LockInv, QueueTypeOK
  <2>2. ASSUME NEW w \in Workers, Unlock(w) PROVE Abstract!MutexNext
    BY <2>0, <2>2, UnlockReleases DEF Abstract!MutexNext, LockInv, QueueTypeOK
  <2>3. CASE UNCHANGED queueVars
    BY <2>3, OwnerUnchanged DEF queueVars, Holding
  <2> QED
    BY <2>0, <2>1, <2>2, <2>3, OtherStepsUnseen DEF QueueNext, Step
<1> QED
  BY <1>1, <1>2, BootInvariant, PTL DEF QueueSpec, ImplementsMutex, Abstract!MutexSpec

=============================================================================
