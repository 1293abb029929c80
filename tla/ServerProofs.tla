---------------------------- MODULE ServerProofs ----------------------------
(***************************************************************************)
(* Proofs about WorkerPool and Server.  The pool: types, the single reply  *)
(* per item and the bound on accepted work, for every set of requests,     *)
(* number of workers and capacity of the queue.  The server: for every     *)
(* number of workers, requests and jobs, every choice of failing calls and *)
(* any number of faults and crashes.                                       *)
(***************************************************************************)
EXTENDS Server, SequenceTheorems, FiniteSetTheorems, TLAPS

-----------------------------------------------------------------------------
(* The worker pool. *)

USE DEF Statuses

(* What Take does to the queue: its items but the first stay, in order. *)
LEMMA TailItems ==
    ASSUME NEW S, NEW q \in Seq(S), q # <<>>
    PROVE  /\ Head(q) \in S /\ Head(q) = q[1]
           /\ Tail(q) \in Seq(S)
           /\ Len(Tail(q)) = Len(q) - 1 /\ Len(q) \in Nat \ {0}
           /\ \A i \in 1..Len(Tail(q)) : Tail(q)[i] = q[i + 1]
  OBVIOUS

(* What SendWork does to the queue: one item is added at the end. *)
LEMMA AppendItems ==
    ASSUME NEW S, NEW q \in Seq(S), NEW e \in S
    PROVE  /\ Append(q, e) \in Seq(S)
           /\ Len(Append(q, e)) = Len(q) + 1 /\ Len(q) \in Nat
           /\ Append(q, e)[Len(q) + 1] = e
           /\ \A i \in 1..Len(q) : Append(q, e)[i] = q[i]
  OBVIOUS

LEMMA PoolTypeInit == PoolInit => PoolTypeOK
  BY PoolConstants DEF PoolInit, PoolTypeOK

LEMMA PoolTypeStep == PoolTypeOK /\ [PoolNext]_poolVars => PoolTypeOK'
<1> SUFFICES ASSUME PoolTypeOK, [PoolNext]_poolVars PROVE PoolTypeOK'
  OBVIOUS
<1> USE PoolConstants DEF PoolTypeOK
<1>1. ASSUME NEW r \in Requests, Refuse(r) PROVE PoolTypeOK'
  BY <1>1 DEF Refuse
<1>2. ASSUME NEW r \in Requests, Accept(r) PROVE PoolTypeOK'
  BY <1>2, AppendItems DEF Accept
<1>3. ASSUME NEW r \in Requests, Overload(r) PROVE PoolTypeOK'
  BY <1>3 DEF Overload
<1>4. ASSUME NEW r \in Requests, SendOnClosed(r) PROVE PoolTypeOK'
  BY <1>4 DEF SendOnClosed
<1>5. ASSUME NEW r \in Requests, Wait(r) PROVE PoolTypeOK'
  BY <1>5 DEF Wait
<1>6. ASSUME NEW w \in Workers, Take(w) PROVE PoolTypeOK'
  BY <1>6, TailItems DEF Take
<1>7. ASSUME NEW w \in Workers, Exit(w) PROVE PoolTypeOK'
  BY <1>7 DEF Exit
<1>8. ASSUME NEW w \in Workers, NEW v \in Results, Reply(w, v) PROVE PoolTypeOK'
  BY <1>8 DEF Reply
<1>9. CASE Stop
  BY <1>9 DEF Stop
<1>10. CASE PoolCrash
  BY <1>10 DEF PoolCrash
<1>11. CASE NewWorkerPool
  BY <1>11 DEF NewWorkerPool
<1>12. CASE UNCHANGED poolVars
  BY <1>12 DEF poolVars
<1> QED
  BY <1>1, <1>2, <1>3, <1>4, <1>5, <1>6, <1>7, <1>8, <1>9, <1>10, <1>11, <1>12 DEF PoolNext

(* Every reachable state of the pool is well typed, and the queue never    *)
(* holds more than its capacity.                                           *)
THEOREM PoolTypeCorrect == PoolSpec => []PoolTypeOK
  BY PoolTypeInit, PoolTypeStep, PTL DEF PoolSpec

-----------------------------------------------------------------------------
(***************************************************************************)
(* OneReplyPerItem is not inductive: Accept must know that a request it    *)
(* sees for the first time is nowhere in the pool.                         *)
(***************************************************************************)
WorkIsAccepted ==
    /\ \A i \in 1..Len(queue) : status[queue[i]] \in {"waiting", "scheduled"}
    /\ \A w \in Workers :
         current[w] # NoRequest => status[current[w]] \in {"waiting", "scheduled"}
    /\ \A r \in closed : status[r] # "new"
    /\ \A r \in Requests : result[r] # NoResult => r \in closed

PoolInv == PoolTypeOK /\ OneReplyPerItem /\ WorkIsAccepted

LEMMA PoolInvInit == PoolInit => PoolInv
  BY PoolTypeInit, PoolConstants
  DEF PoolInit, PoolInv, OneReplyPerItem, WorkIsAccepted, NeverQueuedTwice, NeverTakenTwice, Item

(* A request that is turned away is nowhere in the pool. *)
LEMMA TurnedAway ==
    ASSUME PoolInv, NEW r \in Requests, status[r] = "new",
           NEW x \in {"refused", "overloaded", "lost"}, status' = [status EXCEPT ![r] = x],
           UNCHANGED <<queue, current, result, closed>>
    PROVE  (OneReplyPerItem /\ WorkIsAccepted)'
<1>1. status'[r] = x /\ \A s \in Requests \ {r} : status'[s] = status[s]
  BY DEF PoolInv, PoolTypeOK
<1>2. r \notin closed /\ closed \subseteq Requests
  BY DEF PoolInv, PoolTypeOK, WorkIsAccepted
<1>3. \A i \in 1..Len(queue) : queue[i] \in Requests \ {r}
  BY DEF PoolInv, PoolTypeOK, WorkIsAccepted
<1>4. \A w \in Workers : current[w] # NoRequest => current[w] \in Requests \ {r}
  BY DEF PoolInv, PoolTypeOK, WorkIsAccepted
<1>5. OneReplyPerItem'
  <2>1. (NeverQueuedTwice /\ NeverTakenTwice)' /\ Item(queue)' = Item(queue)
    BY DEF PoolInv, OneReplyPerItem, NeverQueuedTwice, NeverTakenTwice
  <2> QED
    BY <1>1, <2>1 DEF PoolInv, OneReplyPerItem
<1>6. WorkIsAccepted'
  BY <1>1, <1>2, <1>3, <1>4 DEF PoolInv, WorkIsAccepted
<1> QED
  BY <1>5, <1>6

LEMMA PoolInvStep == PoolInv /\ [PoolNext]_poolVars => PoolInv'
<1> SUFFICES ASSUME PoolInv, [PoolNext]_poolVars PROVE (OneReplyPerItem /\ WorkIsAccepted)'
  BY PoolTypeStep DEF PoolInv
<1> PoolTypeOK
  BY DEF PoolInv
<1> USE PoolConstants
    DEF PoolInv, PoolTypeOK, OneReplyPerItem, WorkIsAccepted, NeverQueuedTwice, NeverTakenTwice, Item
<1>1. ASSUME NEW r \in Requests, Refuse(r) PROVE (OneReplyPerItem /\ WorkIsAccepted)'
  BY <1>1, TurnedAway DEF Refuse
<1>2. ASSUME NEW r \in Requests, Accept(r) PROVE (OneReplyPerItem /\ WorkIsAccepted)'
  <2>1. /\ status[r] = "new" /\ UNCHANGED <<current, closed, result>>
        /\ Len(queue') = Len(queue) + 1 /\ Len(queue) \in Nat /\ queue'[Len(queue) + 1] = r
        /\ \A i \in 1..Len(queue) : queue'[i] = queue[i] /\ queue[i] \in Requests
    BY <1>2, AppendItems DEF Accept
  <2>2. /\ status'[r] \in {"waiting", "scheduled"}
        /\ \A x \in Requests \ {r} : status'[x] = status[x]
    BY <1>2 DEF Accept
  <2>3. r \notin Item(queue) /\ r \notin closed /\ \A w \in Workers : current[w] # r
    BY <2>1
  <2>4. Item(queue)' = Item(queue) \cup {r}
    BY <2>1
  <2>5. NeverQueuedTwice' /\ NeverTakenTwice'
    BY <2>1, <2>3
  <2>6. ASSUME NEW x \in Requests
        PROVE /\ status'[x] \in {"waiting", "scheduled"} =>
                    x \in Item(queue)' \cup closed \/ \E v \in Workers : current[v] = x
              /\ x \in Item(queue)' => x \notin closed /\ \A v \in Workers : current[v] # x
              /\ x \in closed => \A v \in Workers : current[v] # x
              /\ status'[x] = "waiting" /\ x \in closed => result[x] # NoResult
    <3> HIDE DEF Item
    <3> QED
      BY <2>2, <2>3, <2>4
  <2>7. WorkIsAccepted'
    BY <2>1, <2>2, <2>3
  <2> QED
    BY <2>1, <2>5, <2>6, <2>7
<1>3. ASSUME NEW r \in Requests, Overload(r) PROVE (OneReplyPerItem /\ WorkIsAccepted)'
  BY <1>3, TurnedAway DEF Overload
<1>4. ASSUME NEW r \in Requests, SendOnClosed(r) PROVE (OneReplyPerItem /\ WorkIsAccepted)'
  BY <1>4, TurnedAway DEF SendOnClosed
<1>5. ASSUME NEW r \in Requests, Wait(r) PROVE (OneReplyPerItem /\ WorkIsAccepted)'
  BY <1>5 DEF Wait
<1>6. ASSUME NEW w \in Workers, Take(w) PROVE (OneReplyPerItem /\ WorkIsAccepted)'
  <2>1. /\ queue[1] \in Requests /\ Len(queue') = Len(queue) - 1 /\ Len(queue) \in Nat \ {0}
        /\ \A i \in 1..Len(queue') : queue'[i] = queue[i + 1] /\ i + 1 \in 1..Len(queue)
        /\ current' = [current EXCEPT ![w] = queue[1]] /\ current[w] = NoRequest
        /\ UNCHANGED <<closed, status, result>>
    BY <1>6, TailItems DEF Take
  <2>2. NeverQueuedTwice' /\ NeverTakenTwice'
    <3>1. ASSUME NEW i \in 1..Len(queue'), NEW j \in 1..Len(queue'), queue'[i] = queue'[j]
          PROVE  i = j
      <4>1. queue[i + 1] = queue[j + 1] /\ i + 1 \in 1..Len(queue) /\ j + 1 \in 1..Len(queue)
        BY <2>1, <3>1
      <4>2. i + 1 = j + 1 /\ i \in Int /\ j \in Int
        BY <2>1, <4>1
      <4> QED
        BY <4>2
    <3>2. queue[1] \in Item(queue)
      BY <2>1
    <3>3. NeverTakenTwice'
      BY <2>1, <3>2
    <3> QED
      BY <3>1, <3>3
  <2>3. \A i \in 1..Len(queue') : queue'[i] # queue[1]
    BY <2>1
  <2>4. \A r \in Requests : r \in Item(queue) <=> r \in Item(queue') \/ r = queue[1]
    <3>1. \A i \in 1..Len(queue) : i = 1 \/ (i - 1 \in 1..Len(queue') /\ queue'[i - 1] = queue[i])
      BY <2>1
    <3>2. ASSUME NEW r \in Item(queue) PROVE r \in Item(queue') \/ r = queue[1]
      <4>1. PICK i \in 1..Len(queue) : r = queue[i]
        OBVIOUS
      <4>2. CASE i # 1
        <5>1. i - 1 \in 1..Len(queue') /\ queue'[i - 1] = r
          BY <3>1, <4>1, <4>2
        <5> QED
          BY <5>1 DEF Item
      <4> QED
        BY <4>1, <4>2
    <3>3. ASSUME NEW r \in Item(queue') PROVE r \in Item(queue)
      BY <2>1
    <3>4. queue[1] \in Item(queue)
      BY <2>1
    <3> HIDE DEF Item
    <3> QED
      BY <3>2, <3>3, <3>4
  <2>5. ASSUME NEW r \in Requests
        PROVE /\ status[r] \in {"waiting", "scheduled"} =>
                    r \in Item(queue)' \cup closed \/ \E v \in Workers : current'[v] = r
              /\ r \in Item(queue)' => r \notin closed /\ \A v \in Workers : current'[v] # r
              /\ r \in closed => \A v \in Workers : current'[v] # r
              /\ status[r] = "waiting" /\ r \in closed => result[r] # NoResult
    <3>1. queue[1] \in Item(queue)
      BY <2>1
    <3>2. /\ queue[1] \in Requests /\ current'[w] = queue[1]
          /\ current[w] = NoRequest /\ r # NoRequest
          /\ \A v \in Workers \ {w} : current'[v] = current[v]
      BY <2>1
    <3>3. queue[1] \notin Item(queue')
      BY <2>3
    <3> HIDE DEF Item
    <3> QED
      BY <2>4, <3>1, <3>2, <3>3
  <2>6. WorkIsAccepted'
    <3>1. ASSUME NEW i \in 1..Len(queue') PROVE status[queue'[i]] \in {"waiting", "scheduled"}
      <4>1. queue'[i] = queue[i + 1] /\ i + 1 \in 1..Len(queue)
        BY <2>1
      <4> QED
        BY <4>1
    <3>2. status[queue[1]] \in {"waiting", "scheduled"}
      BY <2>1
    <3>3. ASSUME NEW v \in Workers, current'[v] # NoRequest
          PROVE  status[current'[v]] \in {"waiting", "scheduled"}
      BY <2>1, <3>2, <3>3
    <3> QED
      BY <2>1, <3>1, <3>3
  <2> QED
    BY <2>1, <2>2, <2>5, <2>6
<1>7. ASSUME NEW w \in Workers, Exit(w) PROVE (OneReplyPerItem /\ WorkIsAccepted)'
  BY <1>7 DEF Exit
<1>8. ASSUME NEW w \in Workers, NEW v \in Results, Reply(w, v)
      PROVE (OneReplyPerItem /\ WorkIsAccepted)'
  <2> DEFINE r == current[w]
  <2>1. /\ r \in Requests /\ closed' = closed \cup {r} /\ UNCHANGED <<queue, status>>
        /\ result'[r] = v /\ v # NoResult
        /\ \A x \in Requests \ {r} : result'[x] = result[x]
    BY <1>8 DEF Reply
  <2>2. current'[w] = NoRequest /\ \A u \in Workers \ {w} : current'[u] = current[u]
    BY <1>8 DEF Reply
  <2>3. \A u \in Workers \ {w} : current[u] # r
    BY <2>1
  <2>4. Item(queue)' = Item(queue) /\ r \notin Item(queue) /\ NeverQueuedTwice'
    BY <2>1
  <2>5. NeverTakenTwice'
    BY <2>2
  <2>6. WorkIsAccepted'
    BY <2>1, <2>2
  <2>7. OneReplyPerItem'
    <3> HIDE DEF Item, r
    <3>1. ASSUME NEW x \in Requests
          PROVE /\ status[x] \in {"waiting", "scheduled"} =>
                     x \in Item(queue) \cup closed' \/ \E u \in Workers : current'[u] = x
                /\ x \in Item(queue) => x \notin closed' /\ \A u \in Workers : current'[u] # x
                /\ x \in closed' => \A u \in Workers : current'[u] # x
                /\ status[x] = "waiting" /\ x \in closed' => result'[x] # NoResult
      BY <2>1, <2>2, <2>3, <2>4 DEF r
    <3> QED
      BY <2>1, <2>4, <2>5, <3>1
  <2> QED
    BY <2>6, <2>7
<1>9. CASE Stop
  BY <1>9 DEF Stop
<1>10. CASE PoolCrash
  BY <1>10 DEF PoolCrash, InProgress
<1>11. CASE NewWorkerPool
  BY <1>11 DEF NewWorkerPool
<1>12. CASE UNCHANGED poolVars
  BY <1>12 DEF poolVars
<1> QED
  BY <1>1, <1>2, <1>3, <1>4, <1>5, <1>6, <1>7, <1>8, <1>9, <1>10, <1>11, <1>12 DEF PoolNext

(* Accepted work is in one place until it is answered once, and neither of *)
(* the panics of worker_pool.go can happen.                                *)
THEOREM EveryItemRepliedOnce == PoolSpec => []OneReplyPerItem
<1>1. PoolInv => OneReplyPerItem
  BY DEF PoolInv
<1> QED
  BY <1>1, PoolInvInit, PoolInvStep, PTL DEF PoolSpec

-----------------------------------------------------------------------------
(* The queue and the workers hold the work in progress, so it is bounded. *)
LEMMA BoundFromPlaces == PoolInv => BoundedWork
<1> SUFFICES ASSUME PoolInv PROVE BoundedWork
  OBVIOUS
<1> DEFINE Busy == {current[w] : w \in Workers}
<1>1. /\ IsFiniteSet(Item(queue))
      /\ Cardinality(Item(queue)) <= Len(queue) /\ Len(queue) \in Nat
  <2> DEFINE f == [i \in 1..Len(queue) |-> queue[i]]
  <2>1. f \in Surjection(1..Len(queue), Item(queue))
    <3>1. f \in [1..Len(queue) -> Item(queue)]
      BY DEF Item
    <3>2. \A r \in Item(queue) : \E i \in 1..Len(queue) : f[i] = r
      BY DEF Item
    <3> HIDE DEF f
    <3> QED
      BY <3>1, <3>2 DEF Surjection
  <2>2. Len(queue) \in Nat
    BY DEF PoolInv, PoolTypeOK
  <2>3. IsFiniteSet(1..Len(queue)) /\ Cardinality(1..Len(queue)) = Len(queue)
    <3>1. \A n \in Nat : IsFiniteSet(1..n) /\ Cardinality(1..n) = n
      BY FS_Interval
    <3> QED
      BY <2>2, <3>1
  <2> QED
    BY <2>1, <2>2, <2>3, FS_Surjection
<1>2. IsFiniteSet(Busy) /\ Cardinality(Busy) <= Cardinality(Workers)
  <2> DEFINE f == [w \in Workers |-> current[w]]
  <2>1. f \in Surjection(Workers, Busy)
    BY DEF Surjection
  <2> QED
    BY <2>1, FS_Surjection, PoolConstants
<1>3. InProgress \subseteq Item(queue) \cup Busy
  BY DEF InProgress, PoolInv, OneReplyPerItem
<1>4. /\ IsFiniteSet(Item(queue) \cup Busy)
      /\ Cardinality(Item(queue) \cup Busy) <= Cardinality(Item(queue)) + Cardinality(Busy)
  <2>1. IsFiniteSet(Item(queue) \cap Busy)
    BY <1>1, FS_Subset
  <2>2. /\ Cardinality(Item(queue) \cap Busy) \in Nat
        /\ Cardinality(Item(queue)) \in Nat /\ Cardinality(Busy) \in Nat
    BY <1>1, <1>2, <2>1, FS_CardinalityType
  <2>3. /\ IsFiniteSet(Item(queue) \cup Busy)
        /\ Cardinality(Item(queue) \cup Busy) =
             Cardinality(Item(queue)) + Cardinality(Busy) - Cardinality(Item(queue) \cap Busy)
    BY <1>1, <1>2, FS_Union
  <2> HIDE DEF Busy
  <2> QED
    BY <2>2, <2>3
<1>5. Cardinality(InProgress) <= Cardinality(Item(queue) \cup Busy)
  BY <1>3, <1>4, FS_Subset
<1>6. Len(queue) <= Backlog
  BY DEF PoolInv, PoolTypeOK
<1>7. /\ Cardinality(InProgress) \in Nat /\ Cardinality(Item(queue) \cup Busy) \in Nat
      /\ Cardinality(Item(queue)) \in Nat /\ Cardinality(Busy) \in Nat
      /\ Cardinality(Workers) \in Nat
  BY <1>1, <1>2, <1>3, <1>4, FS_Subset, FS_CardinalityType, PoolConstants
<1> HIDE DEF Busy
<1> QED
  BY <1>1, <1>2, <1>4, <1>5, <1>6, <1>7, PoolConstants DEF BoundedWork

(* Whatever clients send, the server never has more than the backlog and   *)
(* one item per worker to do.                                              *)
THEOREM WorkIsBounded == PoolSpec => []BoundedWork
  BY BoundFromPlaces, PoolInvInit, PoolInvStep, PTL DEF PoolSpec

-----------------------------------------------------------------------------
(* The server. *)

(* Every step of the server is a step of the pool or leaves the pool alone. *)
LEMMA PoolStep ==
    ASSUME TypeOK, [Next]_vars
    PROVE  [PoolNext]_poolVars
<1>1. ASSUME NEW r \in Requests, Handle(r) PROVE PoolNext
  BY <1>1 DEF Handle, PoolNext
<1>2. ASSUME NEW w \in Workers, WorkerStep(w) PROVE [PoolNext]_poolVars
  <2>1. CASE StartWork(w)
    BY <2>1 DEF StartWork, PoolNext
  <2>2. CASE FinishWork(w)
    <3> DEFINE v == IF res[w].err THEN [NewBuildInfo EXCEPT !.err = TRUE] ELSE res[w]
    <3>1. v \in Results
      BY ServerTypes, ServerConstants DEF TypeOK, NewBuildInfo, BuildInfo, ExitCodes
    <3>2. Reply(w, v)
      BY <2>2 DEF FinishWork
    <3> QED
      BY <3>1, <3>2 DEF PoolNext
  <2>3. CASE Work(w)
    <3>1. UNCHANGED poolVars
      BY <2>3 DEF Work, Add, Coalesce, ExitCode, LookUp, UnlinkFile, Remove, StatProject,
        BootstrapProject, CloneSrcPath, BootstrapBuildDir, PersistPending, WriteParams,
        BuildImage, StartContainer, ReadJobLogs, Close, PersistFinal, Rename, RemoveLink,
        Symlink, Delete
    <3> QED
      BY <3>1
  <2> QED
    BY <1>2, <2>1, <2>2, <2>3 DEF WorkerStep
<1>3. ASSUME NEW i \in JobIDs, Prune(i) PROVE UNCHANGED poolVars
  BY <1>3 DEF Prune
<1>4. CASE Crash
  BY <1>4 DEF Crash, PoolNext
<1>5. CASE StartServer
  BY <1>5 DEF StartServer, PoolNext
<1>6. CASE UNCHANGED vars
  BY <1>6 DEF vars
<1> QED
  BY <1>1, <1>2, <1>3, <1>4, <1>5, <1>6 DEF Next

-----------------------------------------------------------------------------
(* The directories the code makes are directories. *)
LEMMA DirTypes ==
    /\ EmptyDir \in Dir /\ NewBuildInfo \in BuildInfo
    /\ ContainerPendingExitCode \in ExitCodes /\ ContainerSuccessExitCode \in ExitCodes
    /\ \A d \in Dir, e \in ExitCodes, b \in BOOLEAN : WithInfo(d, e, b) \in Dir
    /\ \A d \in Dir : WithLog(d) \in Dir /\ WithoutLog(d) \in Dir /\ WithoutInfo(d) \in Dir
  BY DEF EmptyDir, NewBuildInfo, Dir, BuildInfo, ExitCodes, WithInfo, WithLog, WithoutLog, WithoutInfo

(* What the type invariant says of Work's own variables. *)
WorkTypeOK ==
    /\ pc \in [Workers -> Points]
    /\ res \in [Workers -> BuildInfo]
    /\ src \in [Workers -> JobIDs \cup {NoJob}]
    /\ jq \subseteq JobIDs
    /\ locked \subseteq Projects
    /\ pending \in [JobIDs -> Dir \cup {NoDir}]
    /\ ready \in [JobIDs -> Dir \cup {NoDir}]
    /\ latest \in [LatestPaths -> JobIDs \cup {NoJob}]
    /\ fresh \subseteq Workers
    /\ faults \in Nat
    /\ crashes \in Nat

LEMMA TypeSplit == TypeOK <=> PoolTypeOK /\ WorkTypeOK
  BY DEF TypeOK, WorkTypeOK

LEMMA TypeInit == Init => TypeOK
  BY PoolTypeInit, DirTypes DEF Init, TypeOK, Points, OwnerPoints, BuildPoints

-----------------------------------------------------------------------------
(***************************************************************************)
(* The inductive invariant.  None of the safety properties is inductive:   *)
(* that a success is permanent rests on an owner removing only a failed    *)
(* build, which rests on nobody else moving into ready/ meanwhile, which   *)
(* rests on the JobQueue; that links are good rests on what the owner      *)
(* wrote into pending/ before the move.  WorkerInv collects what each      *)
(* worker knows at its program point.                                      *)
(***************************************************************************)
Good(d) == d \in Dir /\ d.files = {"info", "log"} /\ d.exit = 0 /\ d.err = FALSE

(* The points at which an owner works in its pending directory. *)
WorkPoints == {"persist", "params", "image", "container", "logs", "close", "final", "rename"}

WorkerInv(w) ==
    /\ pc[w] = "idle" <=> current[w] = NoRequest
    /\ pc[w] \in OwnerPoints => Id(w) \in jq
    /\ pc[w] \in WorkPoints => pending[Id(w)] # NoDir
    /\ pc[w] = "remove" => ready[Id(w)] # NoDir /\ ~Succeeded(ready[Id(w)])
    /\ pc[w] \in BuildPoints \ {"remove"} => ready[Id(w)] = NoDir
    /\ pc[w] \in {"image", "container", "logs"} => "log" \in pending[Id(w)].files
    /\ pc[w] \in {"close", "final", "rename"} /\ ~res[w].err => "log" \in pending[Id(w)].files
    /\ pc[w] = "rename" /\ ~res[w].err =>
         pending[Id(w)] = [files |-> {"info", "log"}, exit |-> res[w].exit, err |-> FALSE]
    /\ pc[w] \in {"link", "symlink"} => Good(ready[Id(w)])
    /\ pc[w] \in {"delete", "reply"} /\ ~res[w].err /\ res[w].exit = 0 => Succeeded(ready[Id(w)])
    /\ pc[w] = "builddir" /\ src[w] # NoJob => Good(ready[src[w]])
    /\ pc[w] = "symlink" => /\ Project[Id(w)] \in locked
                            /\ latest[LatestBuildPath[Id(w)]] = NoJob

(* An ID in the JobQueue has an owner. *)
QueuedIsOwned == \A i \in jq : \E w \in Workers : Owns(w, i)

(* The project's mutex is held by one worker. *)
LockExclusion ==
    \A v, w \in Workers :
        pc[v] = "symlink" /\ pc[w] = "symlink" /\ Project[Id(v)] = Project[Id(w)] => v = w

LinksAreGood ==
    \A l \in LatestPaths : latest[l] # NoJob =>
        Good(ready[latest[l]]) /\ LatestBuildPath[latest[l]] = l

(* A result on its way to the client, or sent, that reports a success. *)
ReportedIsThere(v, r) ==
    v # NoResult /\ ~v.err /\ v.exit = 0 => Succeeded(ready[Job[r]])
ReportsHold ==
    \A r \in Requests : ReportedIsThere(result[r], r) /\ ReportedIsThere(answer[r], r)

(* Nobody works while there is no process. *)
DownIsIdle == server = "down" => \A w \in Workers : pc[w] = "idle"

Inv ==
    /\ PoolInv
    /\ WorkTypeOK
    /\ \A w \in Workers : WorkerInv(w)
    /\ BuildExclusion
    /\ QueuedIsOwned
    /\ SomeoneCanWork
    /\ LockExclusion
    /\ LinksAreGood
    /\ ReportsHold
    /\ DownIsIdle

LEMMA InvInit == Init => Inv
<1> SUFFICES ASSUME Init PROVE Inv
  OBVIOUS
<1>1. PoolInv
  BY PoolInvInit DEF Init
<1>2. WorkTypeOK
  BY TypeInit, TypeSplit
<1>3. \A w \in Workers : WorkerInv(w)
  BY DEF Init, PoolInit, WorkerInv, OwnerPoints, BuildPoints, WorkPoints
<1>4. BuildExclusion /\ QueuedIsOwned /\ SomeoneCanWork /\ LockExclusion
  BY PoolConstants
  DEF Init, BuildExclusion, QueuedIsOwned, SomeoneCanWork, LockExclusion, OwnerPoints, BuildPoints
<1>5. LinksAreGood /\ ReportsHold /\ DownIsIdle
  BY DEF Init, PoolInit, LinksAreGood, ReportsHold, ReportedIsThere, DownIsIdle
<1> QED
  BY <1>1, <1>2, <1>3, <1>4, <1>5 DEF Inv

(* A busy worker's request has a job. *)
LEMMA IdType ==
    ASSUME Inv, NEW w \in Workers, pc[w] # "idle"
    PROVE  current[w] \in Requests /\ Id(w) \in JobIDs /\ LatestBuildPath[Id(w)] \in LatestPaths
           /\ Project[Id(w)] \in Projects /\ LatestBuildPath[Id(w)] = <<Project[Id(w)], Group[Id(w)]>>
<1>1. current[w] # NoRequest
  BY DEF Inv, WorkerInv
<1>2. current[w] \in Requests
  BY <1>1 DEF Inv, PoolInv, PoolTypeOK
<1> QED
  BY <1>2, ServerConstants DEF Id, LatestBuildPath, LatestPaths

-----------------------------------------------------------------------------
(***************************************************************************)
(* What every step of Work leaves alone: the other workers, the            *)
(* directories of other IDs, and any success.  Only an owner touches       *)
(* directories, only at two points the links and the mutex.                *)
(***************************************************************************)
WorkFrame(w) ==
    /\ UNCHANGED poolVars
    /\ pc[w] # "idle"
    /\ \A v \in Workers \ {w} : pc'[v] = pc[v] /\ res'[v] = res[v] /\ src'[v] = src[v]
    /\ \A i \in JobIDs : i # Id(w) \/ pc[w] \notin OwnerPoints =>
         pending'[i] = pending[i] /\ ready'[i] = ready[i]
    /\ \A i \in JobIDs : Succeeded(ready[i]) => ready'[i] = ready[i]
    /\ \A i \in JobIDs : Good(ready[i]) => ready'[i] = ready[i]
    /\ \A i \in JobIDs : i # Id(w) => (i \in jq' <=> i \in jq)
    /\ pc[w] # "delete" => jq \subseteq jq'
    /\ pc[w] \notin {"link", "symlink"} => locked' = locked /\ latest' = latest
    /\ pc[w] = "link" /\ Project[Id(w)] \in locked => locked' = locked /\ latest' = latest
    /\ \A p \in Projects : p # Project[Id(w)] => (p \in locked' <=> p \in locked)
    /\ \A l \in LatestPaths : l # LatestBuildPath[Id(w)] => latest'[l] = latest[l]

LEMMA GoodSucceeded == \A d : Good(d) => Succeeded(d) /\ HasInfoAndLog(d) /\ d # NoDir /\ ~d.err
  BY ServerTypes DEF Good, Succeeded, HasInfo, HasInfoAndLog, ContainerSuccessExitCode

LEMMA FrameStep ==
    ASSUME Inv, NEW w \in Workers, Work(w)
    PROVE  WorkFrame(w)
<1> WorkTypeOK /\ WorkerInv(w)
  BY DEF Inv
<1>0. pc[w] # "idle" => Id(w) \in JobIDs
  BY IdType
<1> USE GoodSucceeded, <1>0 DEF WorkFrame, WorkTypeOK, OwnerPoints, BuildPoints, Goto, Error, disk
<1>1. CASE Add(w)
  BY <1>1 DEF Add
<1>2. CASE Coalesce(w)
  BY <1>2 DEF Coalesce
<1>3. CASE ExitCode(w)
  BY <1>3 DEF ExitCode
<1>4. CASE LookUp(w)
  BY <1>4 DEF LookUp
<1>5. CASE UnlinkFile(w)
  BY <1>5 DEF UnlinkFile, SetReady, WorkerInv
<1>6. CASE Remove(w)
  BY <1>6 DEF Remove, SetReady, WorkerInv
<1>7. CASE StatProject(w)
  BY <1>7 DEF StatProject
<1>8. CASE BootstrapProject(w)
  BY <1>8 DEF BootstrapProject
<1>9. CASE CloneSrcPath(w)
  BY <1>9 DEF CloneSrcPath
<1>10. CASE BootstrapBuildDir(w)
  BY <1>10 DEF BootstrapBuildDir, SetPending
<1>11. CASE PersistPending(w)
  BY <1>11 DEF PersistPending, Persist, SetPending
<1>12. CASE WriteParams(w)
  BY <1>12 DEF WriteParams, SetPending
<1>13. CASE BuildImage(w)
  BY <1>13 DEF BuildImage
<1>14. CASE StartContainer(w)
  BY <1>14 DEF StartContainer
<1>15. CASE ReadJobLogs(w)
  BY <1>15 DEF ReadJobLogs
<1>16. CASE Close(w)
  BY <1>16 DEF Close
<1>17. CASE PersistFinal(w)
  BY <1>17 DEF PersistFinal, Persist, SetPending
<1>18. CASE Rename(w)
  BY <1>18 DEF Rename, SetPending, SetReady, Succeeded, HasInfo
<1>19. CASE RemoveLink(w)
  BY <1>19 DEF RemoveLink
<1>20. CASE Symlink(w)
  BY <1>20 DEF Symlink
<1>21. CASE Delete(w)
  BY <1>21 DEF Delete
<1> QED
  BY <1>1, <1>2, <1>3, <1>4, <1>5, <1>6, <1>7, <1>8, <1>9, <1>10, <1>11, <1>12, <1>13, <1>14,
     <1>15, <1>16, <1>17, <1>18, <1>19, <1>20, <1>21 DEF Work

(* Assignments to a field of BuildInfo keep its type. *)
LEMMA ResTypes ==
    ASSUME res \in [Workers -> BuildInfo], NEW w \in Workers
    PROVE  [res EXCEPT ![w].err = TRUE] \in [Workers -> BuildInfo]
  BY DEF BuildInfo

LEMMA ResFields ==
    ASSUME res \in [Workers -> BuildInfo], NEW w \in Workers
    PROVE  res[w].exit \in ExitCodes /\ res[w].err \in BOOLEAN
  BY DEF BuildInfo

LEMMA PointNames ==
    {"idle", "add", "coalesce", "exitcode", "reply", "cache", "remove", "project", "bootstrap",
     "latest", "builddir", "persist", "params", "image", "container", "logs", "close", "final",
     "rename", "link", "symlink", "delete"} \subseteq Points
  BY DEF Points, OwnerPoints, BuildPoints

(* What the steps of Work are made of keeps the types. *)
LEMMA GotoTypes ==
    ASSUME WorkTypeOK, NEW w \in Workers, NEW l \in Points, Goto(w, l) \/ Error(w, l)
    PROVE  pc' \in [Workers -> Points] /\ res' \in [Workers -> BuildInfo]
<1>1. [res EXCEPT ![w].err = TRUE] \in [Workers -> BuildInfo]
  BY ResTypes DEF WorkTypeOK
<1>2. pc' = [pc EXCEPT ![w] = l] /\ res' \in [Workers -> BuildInfo]
  BY <1>1 DEF Goto, Error, WorkTypeOK
<1> QED
  BY <1>2 DEF WorkTypeOK

LEMMA AnswerTypes ==
    ASSUME WorkTypeOK, NEW w \in Workers, NEW e \in ExitCodes, NEW k \in {"cached", "coalesced"}
    PROVE  [res EXCEPT ![w].exit = e, ![w].kind = k] \in [Workers -> BuildInfo]
<1>1. res \in [Workers -> BuildInfo] /\ res[w] \in BuildInfo
  BY DEF WorkTypeOK
<1>2. [res[w] EXCEPT !.exit = e, !.kind = k] \in BuildInfo
  BY <1>1 DEF BuildInfo
<1> QED
  BY <1>1, <1>2

LEMMA ExitTypes ==
    ASSUME WorkTypeOK, NEW w \in Workers, NEW e \in ExitCodes,
           \/ res' = [res EXCEPT ![w].exit = e]
           \/ res' = [res EXCEPT ![w].exit = e, ![w].err = TRUE]
    PROVE  res' \in [Workers -> BuildInfo]
<1>1. res \in [Workers -> BuildInfo] /\ res[w] \in BuildInfo
  BY DEF WorkTypeOK
<1>2. /\ [res[w] EXCEPT !.exit = e] \in BuildInfo
      /\ [res[w] EXCEPT !.exit = e, !.err = TRUE] \in BuildInfo
  BY <1>1 DEF BuildInfo
<1> QED
  BY <1>1, <1>2

LEMMA SetTypes ==
    ASSUME WorkTypeOK, NEW w \in Workers, Id(w) \in JobIDs, NEW d \in Dir \cup {NoDir}
    PROVE  /\ SetPending(w, d) => pending' \in [JobIDs -> Dir \cup {NoDir}]
           /\ SetReady(w, d) => ready' \in [JobIDs -> Dir \cup {NoDir}]
  BY DEF SetPending, SetReady, WorkTypeOK

LEMMA FaultTypes ==
    ASSUME WorkTypeOK
    PROVE  /\ Works => faults' \in Nat
           /\ \A op \in FaultPoints : Fails(op) => faults' \in Nat
  BY DEF Works, Fails, WorkTypeOK

(* The variables of Work keep their types. *)
LEMMA WorkTypeStep ==
    ASSUME Inv, NEW w \in Workers, Work(w)
    PROVE  WorkTypeOK'
<1> WorkTypeOK /\ WorkerInv(w)
  BY DEF Inv
<1>0. pc[w] # "idle" => Id(w) \in JobIDs /\ LatestBuildPath[Id(w)] \in LatestPaths /\ Project[Id(w)] \in Projects
  BY IdType
<1> USE PointNames, GotoTypes, SetTypes, FaultTypes, <1>0 DEF WorkTypeOK, disk, FaultPoints
<1>1. CASE Add(w)
  BY <1>1 DEF Add
<1>2. CASE Coalesce(w)
  BY <1>2 DEF Coalesce
<1>3. CASE ExitCode(w)
  <2>1. HasInfo(ready[Id(w)]) => ready[Id(w)].exit \in ExitCodes
    BY <1>3 DEF ExitCode, HasInfo, Dir
  <2>2. res' \in [Workers -> BuildInfo] /\ pc' \in [Workers -> Points]
    <3>1. CASE \E e \in ExitCodes : res' = [res EXCEPT ![w].exit = e, ![w].kind = "coalesced"]
      <4>0. PICK e \in ExitCodes : res' = [res EXCEPT ![w].exit = e, ![w].kind = "coalesced"]
        BY <3>1
      <4>1. res' \in [Workers -> BuildInfo]
        BY <4>0, AnswerTypes
      <4> QED
        BY <1>3, <4>1 DEF ExitCode
    <3>2. CASE \E l \in Points : Goto(w, l) \/ Error(w, l)
      BY <3>2
    <3> QED
      BY <1>3, <2>1, <3>1, <3>2 DEF ExitCode
  <2> QED
    BY <1>3, <2>2 DEF ExitCode
<1>4. CASE LookUp(w)
  <2>1. HasInfoAndLog(ready[Id(w)]) => ready[Id(w)].exit \in ExitCodes
    BY <1>4 DEF LookUp, HasInfoAndLog, Dir
  <2>2. res' \in [Workers -> BuildInfo] /\ pc' \in [Workers -> Points]
    <3>1. CASE \E e \in ExitCodes : res' = [res EXCEPT ![w].exit = e, ![w].kind = "cached"]
      <4>0. PICK e \in ExitCodes : res' = [res EXCEPT ![w].exit = e, ![w].kind = "cached"]
        BY <3>1
      <4>1. res' \in [Workers -> BuildInfo]
        BY <4>0, AnswerTypes
      <4> QED
        BY <1>4, <4>1 DEF LookUp
    <3>2. CASE \E l \in Points : Goto(w, l) \/ Error(w, l)
      BY <3>2
    <3> QED
      BY <1>4, <2>1, <3>1, <3>2 DEF LookUp
  <2> QED
    BY <1>4, <2>2 DEF LookUp
<1>5. CASE UnlinkFile(w)
  <2>1. ready[Id(w)] \in Dir
    BY <1>5 DEF UnlinkFile, WorkerInv
  <2>2. WithoutInfo(ready[Id(w)]) \in Dir /\ WithoutLog(ready[Id(w)]) \in Dir
    BY <2>1, DirTypes
  <2> QED
    BY <1>5, <2>2 DEF UnlinkFile
<1>6. CASE Remove(w)
  BY <1>6 DEF Remove
<1>7. CASE StatProject(w)
  BY <1>7 DEF StatProject
<1>8. CASE BootstrapProject(w)
  BY <1>8 DEF BootstrapProject
<1>9. CASE CloneSrcPath(w)
  BY <1>9 DEF CloneSrcPath
<1>10. CASE BootstrapBuildDir(w)
  <2>1. Base(w) \in Dir /\ EmptyDir \in Dir
    BY <1>10, DirTypes DEF BootstrapBuildDir, Base, WorkerInv, Good
  <2>2. pending' \in [JobIDs -> Dir \cup {NoDir}]
    BY <1>10, <2>1 DEF BootstrapBuildDir
  <2>3. pc' \in [Workers -> Points] /\ res' \in [Workers -> BuildInfo]
    BY <1>10 DEF BootstrapBuildDir
  <2> QED
    BY <1>10, <2>2, <2>3 DEF BootstrapBuildDir
<1>11. CASE PersistPending(w)
  <2>1. pending[Id(w)] \in Dir /\ res[w].exit \in ExitCodes /\ res[w].err \in BOOLEAN
    BY <1>11, ResFields DEF PersistPending, WorkerInv, WorkPoints
  <2>2. /\ WithInfo(pending[Id(w)], res[w].exit, res[w].err) \in Dir
        /\ WithoutInfo(pending[Id(w)]) \in Dir
    BY <2>1, DirTypes
  <2>3. pending' \in [JobIDs -> Dir \cup {NoDir}]
    BY <1>11, <2>2 DEF PersistPending, Persist
  <2>4. pc' \in [Workers -> Points] /\ res' \in [Workers -> BuildInfo] /\ faults' \in Nat
    BY <1>11 DEF PersistPending, Persist
  <2> QED
    BY <1>11, <2>3, <2>4 DEF PersistPending
<1>12. CASE WriteParams(w)
  <2>1. WithLog(pending[Id(w)]) \in Dir
    BY <1>12, DirTypes DEF WriteParams, WorkerInv, WorkPoints
  <2> QED
    BY <1>12, <2>1 DEF WriteParams
<1>13. CASE BuildImage(w)
  BY <1>13 DEF BuildImage
<1>14. CASE StartContainer(w)
  <2>1. ContainerExits \subseteq ExitCodes /\ 0 \in ExitCodes
    BY DEF ExitCodes, ContainerSuccessExitCode
  <2>2. res' \in [Workers -> BuildInfo] /\ pc' \in [Workers -> Points]
    <3>1. PICK e \in ExitCodes : \/ res' = [res EXCEPT ![w].exit = e]
                                 \/ res' = [res EXCEPT ![w].exit = e, ![w].err = TRUE]
      BY <1>14, <2>1 DEF StartContainer
    <3>2. res' \in [Workers -> BuildInfo]
      BY <3>1, ExitTypes
    <3> QED
      BY <1>14, <3>2 DEF StartContainer
  <2> QED
    BY <1>14, <2>2 DEF StartContainer
<1>15. CASE ReadJobLogs(w)
  BY <1>15 DEF ReadJobLogs
<1>16. CASE Close(w)
  BY <1>16 DEF Close
<1>17. CASE PersistFinal(w)
  <2>1. pending[Id(w)] \in Dir /\ res[w].exit \in ExitCodes /\ res[w].err \in BOOLEAN
    BY <1>17, ResFields DEF PersistFinal, WorkerInv, WorkPoints
  <2>2. /\ WithInfo(pending[Id(w)], res[w].exit, res[w].err) \in Dir
        /\ WithoutInfo(pending[Id(w)]) \in Dir
    BY <2>1, DirTypes
  <2>3. pending' \in [JobIDs -> Dir \cup {NoDir}]
    BY <1>17, <2>2 DEF PersistFinal, Persist
  <2>4. pc' \in [Workers -> Points] /\ res' \in [Workers -> BuildInfo] /\ faults' \in Nat
    BY <1>17 DEF PersistFinal, Persist
  <2> QED
    BY <1>17, <2>3, <2>4 DEF PersistFinal
<1>18. CASE Rename(w)
  <2>1. pending' \in [JobIDs -> Dir \cup {NoDir}] /\ ready' \in [JobIDs -> Dir \cup {NoDir}]
    BY <1>18 DEF Rename
  <2>2. fresh' \subseteq Workers
    BY <1>18 DEF Rename, Waiting
  <2>3. pc' \in [Workers -> Points] /\ res' \in [Workers -> BuildInfo]
    BY <1>18 DEF Rename
  <2> QED
    BY <1>18, <2>1, <2>2, <2>3 DEF Rename
<1>19. CASE RemoveLink(w)
  BY <1>19 DEF RemoveLink
<1>20. CASE Symlink(w)
  BY <1>20 DEF Symlink
<1>21. CASE Delete(w)
  BY <1>21 DEF Delete
<1> QED
  BY <1>1, <1>2, <1>3, <1>4, <1>5, <1>6, <1>7, <1>8, <1>9, <1>10, <1>11, <1>12, <1>13, <1>14,
     <1>15, <1>16, <1>17, <1>18, <1>19, <1>20, <1>21 DEF Work

(* The workers that do not move still know what they knew. *)
LEMMA OthersKept ==
    ASSUME Inv, NEW w \in Workers, WorkFrame(w), NEW v \in Workers \ {w}
    PROVE  WorkerInv(v)'
<1> WorkerInv(v) /\ WorkerInv(w) /\ WorkTypeOK /\ BuildExclusion /\ LockExclusion
  BY DEF Inv
<1>1. /\ pc'[v] = pc[v] /\ res'[v] = res[v] /\ src'[v] = src[v]
      /\ current'[v] = current[v] /\ Id(v)' = Id(v)
  BY DEF WorkFrame, poolVars, Id
<1>2. pc[v] # "idle" => Id(v) \in JobIDs /\ LatestBuildPath[Id(v)] \in LatestPaths
                        /\ Project[Id(v)] \in Projects
  BY IdType
<1>3. pc[v] \in OwnerPoints =>
        /\ pending'[Id(v)] = pending[Id(v)] /\ ready'[Id(v)] = ready[Id(v)]
        /\ Id(v) \in jq'
  <2>1. ASSUME pc[v] \in OwnerPoints PROVE Id(v) # Id(w) \/ pc[w] \notin OwnerPoints
    BY <2>1 DEF BuildExclusion
  <2>2. ASSUME pc[v] \in OwnerPoints, pc[w] \notin OwnerPoints, Id(v) = Id(w)
        PROVE  Id(v) \in jq'
    BY <2>2, <1>2 DEF WorkFrame, WorkerInv, OwnerPoints, BuildPoints
  <2> QED
    BY <1>2, <2>1, <2>2 DEF WorkFrame, WorkerInv, OwnerPoints, BuildPoints
<1>4. pc[v] \in {"delete", "reply"} /\ Succeeded(ready[Id(v)]) => ready'[Id(v)] = ready[Id(v)]
  BY <1>2 DEF WorkFrame
<1>5. pc[v] = "builddir" /\ src[v] # NoJob => ready'[src[v]] = ready[src[v]]
  BY DEF WorkFrame, WorkerInv, WorkTypeOK
<1>6. pc[v] = "symlink" => /\ Project[Id(v)] \in locked'
                          /\ latest'[LatestBuildPath[Id(v)]] = NoJob
  <2> SUFFICES ASSUME pc[v] = "symlink"
               PROVE  Project[Id(v)] \in locked' /\ latest'[LatestBuildPath[Id(v)]] = NoJob
    OBVIOUS
  <2>1. Project[Id(v)] \in locked /\ latest[LatestBuildPath[Id(v)]] = NoJob
    BY DEF WorkerInv
  <2>2. CASE pc[w] \notin {"link", "symlink"}
    BY <2>1, <2>2 DEF WorkFrame
  <2>3. CASE Project[Id(w)] # Project[Id(v)]
    <3>1. LatestBuildPath[Id(w)] # LatestBuildPath[Id(v)]
      BY <2>3, IdType DEF WorkFrame
    <3> QED
      BY <2>1, <2>3, <3>1, <1>2 DEF WorkFrame
  <2>4. CASE pc[w] = "symlink" /\ Project[Id(w)] = Project[Id(v)]
    BY <2>4 DEF LockExclusion
  <2>5. CASE pc[w] = "link" /\ Project[Id(w)] = Project[Id(v)]
    BY <2>1, <2>5 DEF WorkFrame
  <2> QED
    BY <2>2, <2>3, <2>4, <2>5
<1> QED
  BY <1>1, <1>3, <1>4, <1>5, <1>6
  DEF WorkerInv, OwnerPoints, BuildPoints, WorkPoints, Good, Succeeded, HasInfo

(* Where a step leaves the worker that takes it. *)
LEMMA MoveTo ==
    ASSUME WorkTypeOK, NEW w \in Workers, NEW l \in Points
    PROVE  /\ Goto(w, l) => pc'[w] = l /\ res'[w] = res[w]
           /\ Error(w, l) => pc'[w] = l /\ res'[w].err
  BY DEF Goto, Error, WorkTypeOK, BuildInfo

LEMMA SetDirs ==
    ASSUME WorkTypeOK, NEW w \in Workers, Id(w) \in JobIDs, NEW d
    PROVE  /\ SetPending(w, d) => pending'[Id(w)] = d
           /\ SetReady(w, d) => ready'[Id(w)] = d
  BY DEF SetPending, SetReady, WorkTypeOK

(* The worker that moves knows what it should at its new program point. *)
LEMMA MoverKept ==
    ASSUME Inv, NEW w \in Workers, Work(w)
    PROVE  WorkerInv(w)'
<1> WorkTypeOK /\ WorkTypeOK' /\ WorkerInv(w) /\ LinksAreGood
  BY WorkTypeStep DEF Inv
<1> pc[w] # "idle" /\ current'[w] = current[w] /\ Id(w)' = Id(w)
  BY FrameStep DEF WorkFrame, poolVars, Id
<1> Id(w) \in JobIDs /\ LatestBuildPath[Id(w)] \in LatestPaths /\ Project[Id(w)] \in Projects
  BY IdType
<1> USE GoodSucceeded, MoveTo, SetDirs, PointNames
    DEF WorkTypeOK, WorkerInv, OwnerPoints, BuildPoints, WorkPoints, disk
<1>1. CASE Add(w)
  BY <1>1 DEF Add
<1>2. CASE Coalesce(w)
  BY <1>2 DEF Coalesce
<1>3. CASE ExitCode(w)
  <2>1. CASE HasInfo(ready[Id(w)]) /\ pc'[w] = "reply" /\ res'[w].exit = ready[Id(w)].exit
    BY <1>3, <2>1 DEF ExitCode, Succeeded, ContainerSuccessExitCode
  <2>2. CASE pc'[w] = "reply" /\ res'[w].err
    BY <1>3, <2>2 DEF ExitCode
  <2> QED
    BY <1>3, <2>1, <2>2 DEF ExitCode, BuildInfo
<1>4. CASE LookUp(w)
  BY <1>4 DEF LookUp, HasInfoAndLog, HasInfo, Succeeded, ContainerSuccessExitCode
<1>5. CASE UnlinkFile(w)
  <2>1. ready[Id(w)] \in Dir /\ ~Succeeded(ready[Id(w)])
    BY <1>5 DEF UnlinkFile
  <2>2. WithoutInfo(ready[Id(w)]) \in Dir /\ WithoutLog(ready[Id(w)]) \in Dir
    BY <2>1, DirTypes
  <2>3. /\ ~Succeeded(WithoutInfo(ready[Id(w)]))
        /\ ~Succeeded(WithoutLog(ready[Id(w)]))
    BY <2>1, ServerTypes DEF Succeeded, HasInfo, WithoutInfo, WithoutLog, Dir, EmptyDir
  <2>4. ready'[Id(w)] # NoDir /\ ~Succeeded(ready'[Id(w)])
    BY <1>5, <2>2, <2>3, ServerTypes DEF UnlinkFile
  <2> QED
    BY <1>5, <2>4 DEF UnlinkFile
<1>6. CASE Remove(w)
  BY <1>6 DEF Remove
<1>7. CASE StatProject(w)
  BY <1>7 DEF StatProject
<1>8. CASE BootstrapProject(w)
  BY <1>8 DEF BootstrapProject
<1>9. CASE CloneSrcPath(w)
  BY <1>9 DEF CloneSrcPath, LinksAreGood
<1>10. CASE BootstrapBuildDir(w)
  <2>1. Base(w) \in Dir
    BY <1>10, DirTypes DEF BootstrapBuildDir, Base, Good
  <2>2. CASE pc'[w] = "persist" /\ pending'[Id(w)] # NoDir
    BY <1>10, <2>2 DEF BootstrapBuildDir
  <2>3. CASE pc'[w] = "delete" /\ res'[w].err
    BY <1>10, <2>3 DEF BootstrapBuildDir
  <2> QED
    BY <1>10, <2>1, <2>2, <2>3, ServerTypes DEF BootstrapBuildDir
<1>11. CASE PersistPending(w)
  <2>1. pending[Id(w)] \in Dir /\ res[w].exit \in ExitCodes /\ res[w].err \in BOOLEAN
    <3>1. pending[Id(w)] \in Dir
      BY <1>11 DEF PersistPending
    <3> QED
      BY <3>1, ResFields
  <2>2. WithInfo(pending[Id(w)], res[w].exit, res[w].err) \in Dir
    BY <2>1, DirTypes
  <2>3. CASE pc'[w] = "params" /\ pending'[Id(w)] # NoDir
    BY <1>11, <2>3 DEF PersistPending
  <2>4. CASE pc'[w] = "delete" /\ res'[w].err
    BY <1>11, <2>4 DEF PersistPending
  <2> QED
    BY <1>11, <2>2, <2>3, <2>4, ServerTypes DEF PersistPending, Persist
<1>12. CASE WriteParams(w)
  <2>1. pending[Id(w)] \in Dir
    BY <1>12 DEF WriteParams
  <2>2. WithLog(pending[Id(w)]) \in Dir /\ "log" \in WithLog(pending[Id(w)]).files
    BY <2>1, DirTypes DEF WithLog, Dir
  <2>3. CASE pc'[w] = "image" /\ pending'[Id(w)] = WithLog(pending[Id(w)])
    BY <1>12, <2>2, <2>3, ServerTypes DEF WriteParams
  <2>4. CASE pc'[w] = "final" /\ res'[w].err /\ pending' = pending
    BY <1>12, <2>4 DEF WriteParams
  <2> QED
    BY <1>12, <2>3, <2>4 DEF WriteParams
<1>13. CASE BuildImage(w)
  BY <1>13 DEF BuildImage
<1>14. CASE StartContainer(w)
  BY <1>14 DEF StartContainer
<1>15. CASE ReadJobLogs(w)
  BY <1>15 DEF ReadJobLogs
<1>16. CASE Close(w)
  BY <1>16 DEF Close
<1>17. CASE PersistFinal(w)
  <2>1. pending[Id(w)] \in Dir /\ res[w].exit \in ExitCodes /\ res[w].err \in BOOLEAN
    <3>1. pending[Id(w)] \in Dir
      BY <1>17 DEF PersistFinal
    <3> QED
      BY <3>1, ResFields
  <2> DEFINE d == WithInfo(pending[Id(w)], res[w].exit, res[w].err)
  <2>2. d \in Dir /\ WithoutInfo(pending[Id(w)]) \in Dir
    BY <2>1, DirTypes
  <2>3. ~res[w].err => d = [files |-> {"info", "log"}, exit |-> res[w].exit, err |-> FALSE]
    <3>1. ~res[w].err => "log" \in pending[Id(w)].files /\ res[w].err = FALSE
      BY <1>17, <2>1 DEF PersistFinal
    <3>2. pending[Id(w)].files \subseteq {"info", "log"}
      BY <2>1 DEF Dir
    <3>3. ~res[w].err => pending[Id(w)].files \cup {"info"} = {"info", "log"}
      BY <3>1, <3>2
    <3> QED
      BY <3>1, <3>3 DEF WithInfo
  <2>4. CASE pc'[w] = "rename" /\ res'[w] = res[w] /\ pending'[Id(w)] = d
    <3>1. "log" \in {"info", "log"}
      OBVIOUS
    <3> HIDE DEF d
    <3> QED
      BY <1>17, <2>2, <2>3, <2>4, <3>1, ServerTypes DEF PersistFinal
  <2>5. CASE pc'[w] = "rename" /\ res'[w].err /\ pending'[Id(w)] # NoDir
    BY <1>17, <2>5 DEF PersistFinal
  <2> QED
    BY <1>17, <2>2, <2>4, <2>5, ServerTypes DEF PersistFinal, Persist
<1>18. CASE Rename(w)
  <2>1. pending[Id(w)] \in Dir
    BY <1>18 DEF Rename
  <2>2. CASE /\ ready'[Id(w)] = pending[Id(w)] /\ res'[w] = res[w]
             /\ pc'[w] = "link" /\ ~res[w].err /\ res[w].exit = 0
    <3>1. Good(ready'[Id(w)])
      BY <1>18, <2>1, <2>2 DEF Rename, Good
    <3> QED
      BY <1>18, <2>2, <3>1 DEF Rename
  <2>3. CASE pc'[w] = "delete" /\ res'[w] = res[w] /\ ~(~res[w].err /\ res[w].exit = 0)
    BY <1>18, <2>3 DEF Rename
  <2>4. CASE pc'[w] = "delete" /\ res'[w].err
    BY <1>18, <2>4 DEF Rename
  <2> QED
    BY <1>18, <2>2, <2>3, <2>4 DEF Rename, ContainerSuccessExitCode
<1>19. CASE RemoveLink(w)
  BY <1>19 DEF RemoveLink
<1>20. CASE Symlink(w)
  BY <1>20 DEF Symlink
<1>21. CASE Delete(w)
  BY <1>21 DEF Delete
<1> QED
  BY <1>1, <1>2, <1>3, <1>4, <1>5, <1>6, <1>7, <1>8, <1>9, <1>10, <1>11, <1>12, <1>13, <1>14,
     <1>15, <1>16, <1>17, <1>18, <1>19, <1>20, <1>21 DEF Work

(***************************************************************************)
(* How a worker becomes and ceases to be an owner, a waiter, the holder of *)
(* the mutex, and what it does to its link.                                *)
(***************************************************************************)
MoverFacts(w) ==
    /\ pc'[w] \in OwnerPoints => pc[w] \in OwnerPoints \/ Id(w) \notin jq
    /\ pc'[w] \notin OwnerPoints /\ Id(w) \in jq' => pc[w] \notin OwnerPoints /\ Id(w) \in jq
    /\ pc'[w] = "coalesce" => Id(w) \in jq /\ pc[w] \notin OwnerPoints
    /\ pc'[w] = "symlink" => pc[w] = "link" /\ Project[Id(w)] \notin locked
    /\ \/ latest' = latest
       \/ latest' = [latest EXCEPT ![LatestBuildPath[Id(w)]] = NoJob]
       \/ pc[w] = "symlink" /\ latest' = [latest EXCEPT ![LatestBuildPath[Id(w)]] = Id(w)]

LEMMA MoverStep ==
    ASSUME Inv, NEW w \in Workers, Work(w)
    PROVE  MoverFacts(w)
<1> WorkTypeOK /\ WorkerInv(w)
  BY DEF Inv
<1> USE MoveTo, PointNames DEF MoverFacts, WorkTypeOK, OwnerPoints, BuildPoints, disk
<1>1. CASE Add(w)
  BY <1>1 DEF Add
<1>2. CASE Coalesce(w)
  BY <1>2 DEF Coalesce
<1>3. CASE ExitCode(w)
  BY <1>3 DEF ExitCode
<1>4. CASE LookUp(w)
  BY <1>4 DEF LookUp
<1>5. CASE UnlinkFile(w)
  BY <1>5 DEF UnlinkFile, WorkerInv
<1>6. CASE Remove(w)
  BY <1>6 DEF Remove
<1>7. CASE StatProject(w)
  BY <1>7 DEF StatProject
<1>8. CASE BootstrapProject(w)
  BY <1>8 DEF BootstrapProject
<1>9. CASE CloneSrcPath(w)
  BY <1>9 DEF CloneSrcPath
<1>10. CASE BootstrapBuildDir(w)
  BY <1>10 DEF BootstrapBuildDir
<1>11. CASE PersistPending(w)
  BY <1>11 DEF PersistPending, Persist
<1>12. CASE WriteParams(w)
  BY <1>12 DEF WriteParams
<1>13. CASE BuildImage(w)
  BY <1>13 DEF BuildImage
<1>14. CASE StartContainer(w)
  BY <1>14 DEF StartContainer
<1>15. CASE ReadJobLogs(w)
  BY <1>15 DEF ReadJobLogs
<1>16. CASE Close(w)
  BY <1>16 DEF Close
<1>17. CASE PersistFinal(w)
  BY <1>17 DEF PersistFinal, Persist
<1>18. CASE Rename(w)
  BY <1>18 DEF Rename
<1>19. CASE RemoveLink(w)
  BY <1>19 DEF RemoveLink
<1>20. CASE Symlink(w)
  BY <1>20 DEF Symlink
<1>21. CASE Delete(w)
  BY <1>21 DEF Delete
<1> QED
  BY <1>1, <1>2, <1>3, <1>4, <1>5, <1>6, <1>7, <1>8, <1>9, <1>10, <1>11, <1>12, <1>13, <1>14,
     <1>15, <1>16, <1>17, <1>18, <1>19, <1>20, <1>21 DEF Work

LEMMA WorkStep ==
    ASSUME Inv, NEW w \in Workers, Work(w)
    PROVE  Inv'
<1> USE DEF Inv
<1>1. WorkFrame(w) /\ MoverFacts(w)
  BY FrameStep, MoverStep
<1>2. /\ pc[w] # "idle" /\ Id(w) \in JobIDs /\ Project[Id(w)] \in Projects
      /\ LatestBuildPath[Id(w)] \in LatestPaths
  BY <1>1, IdType DEF WorkFrame
<1>3. \A v \in Workers : Id(v)' = Id(v)
  BY <1>1 DEF WorkFrame, poolVars, Id
<1>4. \A v \in Workers \ {w} : pc'[v] = pc[v]
  BY <1>1 DEF WorkFrame
<1>5. PoolInv'
  BY <1>1, PoolInvStep DEF WorkFrame
<1>6. WorkTypeOK'
  BY WorkTypeStep
<1>7. \A v \in Workers : WorkerInv(v)'
  BY <1>1, OthersKept, MoverKept
<1>8. BuildExclusion'
  <2> SUFFICES ASSUME NEW v \in Workers \ {w}, pc'[v] \in OwnerPoints, pc'[w] \in OwnerPoints,
                      Id(v) = Id(w)
               PROVE  FALSE
    BY <1>3, <1>4 DEF BuildExclusion
  <2>1. pc[v] \in OwnerPoints /\ Id(v) \in jq
    BY <1>4 DEF WorkerInv
  <2> QED
    BY <1>1, <2>1 DEF BuildExclusion, MoverFacts
<1>9. QueuedIsOwned'
  <2> SUFFICES ASSUME NEW i \in jq' PROVE \E v \in Workers : pc'[v] \in OwnerPoints /\ Id(v) = i
    BY <1>3 DEF QueuedIsOwned, Owns
  <2>1. CASE i # Id(w)
    <3>1. i \in jq
      BY <1>1, <1>6, <2>1 DEF WorkFrame, WorkTypeOK
    <3> QED
      BY <1>4, <2>1, <3>1 DEF QueuedIsOwned, Owns
  <2>2. CASE i = Id(w) /\ pc'[w] \in OwnerPoints
    BY <2>2
  <2>3. CASE i = Id(w) /\ pc'[w] \notin OwnerPoints
    BY <1>1, <1>4, <2>3 DEF MoverFacts, QueuedIsOwned, Owns
  <2> QED
    BY <2>1, <2>2, <2>3
<1>10. SomeoneCanWork'
  <2>1. CASE pc'[w] = "coalesce"
    <3>1. PICK v \in Workers : pc[v] \in OwnerPoints /\ Id(v) = Id(w)
      BY <1>1, <2>1 DEF MoverFacts, QueuedIsOwned, Owns
    <3>2. v # w /\ pc'[v] = pc[v] /\ pc[v] # "coalesce"
      BY <1>1, <1>4, <2>1, <3>1 DEF MoverFacts, OwnerPoints, BuildPoints
    <3> QED
      BY <3>2 DEF SomeoneCanWork
  <2> QED
    BY <2>1 DEF SomeoneCanWork
<1>11. LockExclusion'
  <2> SUFFICES ASSUME NEW v \in Workers \ {w}, pc'[v] = "symlink", pc'[w] = "symlink",
                      Project[Id(v)] = Project[Id(w)]
               PROVE  FALSE
    BY <1>3, <1>4 DEF LockExclusion
  <2> QED
    BY <1>1, <1>4 DEF WorkerInv, MoverFacts
<1>12. LinksAreGood'
  <2> SUFFICES ASSUME NEW l \in LatestPaths, latest'[l] # NoJob
               PROVE  Good(ready'[latest'[l]]) /\ LatestBuildPath[latest'[l]] = l
    BY DEF LinksAreGood, Good
  <2>1. latest'[l] = latest[l] \/ (pc[w] = "symlink" /\ l = LatestBuildPath[Id(w)] /\ latest'[l] = Id(w))
    BY <1>1, <1>2 DEF MoverFacts, WorkTypeOK
  <2>2. CASE latest'[l] = latest[l]
    BY <1>1, <2>2 DEF LinksAreGood, WorkFrame, WorkTypeOK
  <2>3. CASE pc[w] = "symlink" /\ l = LatestBuildPath[Id(w)] /\ latest'[l] = Id(w)
    <3>1. Good(ready[Id(w)])
      BY <2>3 DEF WorkerInv
    <3>2. ready'[Id(w)] = ready[Id(w)]
      BY <1>1, <1>2, <3>1 DEF WorkFrame
    <3> QED
      BY <2>3, <3>1, <3>2
  <2> QED
    BY <2>1, <2>2, <2>3
<1>13. ReportsHold'
  <2>1. \A r \in Requests : Job[r] \in JobIDs
    BY ServerConstants
  <2>2. \A r \in Requests : Succeeded(ready[Job[r]]) => Succeeded(ready'[Job[r]])
    BY <1>1, <2>1 DEF WorkFrame
  <2>3. UNCHANGED <<result, answer>>
    BY <1>1 DEF WorkFrame, poolVars
  <2> QED
    BY <2>2, <2>3 DEF ReportsHold, ReportedIsThere, Succeeded, HasInfo
<1>14. DownIsIdle'
  BY <1>1, <1>2 DEF WorkFrame, poolVars, DownIsIdle
<1> QED
  BY <1>5, <1>6, <1>7, <1>8, <1>9, <1>10, <1>11, <1>12, <1>13, <1>14

-----------------------------------------------------------------------------
(* The steps outside Work. *)

(* Handlers do not touch what Work works on. *)
LEMMA HandleStep ==
    ASSUME Inv, NEW r \in Requests, Handle(r), PoolInv'
    PROVE  Inv'
<1> USE DEF Inv
<1>1. /\ UNCHANGED <<pc, res, src, jq, locked, pending, ready, latest, fresh, faults, crashes>>
      /\ UNCHANGED <<current, server>>
  BY DEF Handle, disk, Refuse, Accept, Overload, Wait
<1>2. WorkTypeOK'
  BY <1>1 DEF WorkTypeOK
<1>3. \A w \in Workers : WorkerInv(w)'
  BY <1>1 DEF WorkerInv, Id, Succeeded, HasInfo, Good
<1>4. BuildExclusion' /\ QueuedIsOwned' /\ SomeoneCanWork' /\ LockExclusion' /\ LinksAreGood'
  BY <1>1 DEF BuildExclusion, QueuedIsOwned, Owns, SomeoneCanWork, LockExclusion, LinksAreGood,
              Id, Good
<1>5. ReportsHold'
  <2>1. \A q \in Requests : /\ result'[q] = result[q] \/ result'[q] = NoResult
                            /\ answer'[q] = answer[q] \/ answer'[q] = result[q]
    BY DEF Handle, Refuse, Accept, Overload, Wait, PoolInv, PoolTypeOK
  <2> QED
    BY <1>1, <2>1 DEF ReportsHold, ReportedIsThere, Succeeded, HasInfo
<1>6. DownIsIdle'
  BY <1>1 DEF DownIsIdle
<1> QED
  BY <1>2, <1>3, <1>4, <1>5, <1>6

(* A worker that receives a request is at the start of Work. *)
LEMMA StartWorkStep ==
    ASSUME Inv, NEW w \in Workers, StartWork(w), PoolInv'
    PROVE  Inv'
<1> USE DEF Inv
<1>1. /\ UNCHANGED <<src, jq, locked, pending, ready, latest, fresh, faults, crashes>>
      /\ UNCHANGED <<result, answer>>
      /\ pc[w] = "idle" /\ pc' = [pc EXCEPT ![w] = "add"]
      /\ res' = [res EXCEPT ![w] = NewBuildInfo]
      /\ current' = [current EXCEPT ![w] = Head(queue)] /\ Head(queue) \in Requests
  BY TailItems DEF StartWork, disk, Take, PoolInv, PoolTypeOK
<1>2. WorkTypeOK'
  BY <1>1, PointNames, DirTypes DEF WorkTypeOK
<1>3. /\ pc \in [Workers -> Points] /\ res \in [Workers -> BuildInfo]
      /\ current \in [Workers -> Requests \cup {NoRequest}]
  BY DEF WorkTypeOK, PoolInv, PoolTypeOK
<1>4. pc'[w] = "add" /\ current'[w] # NoRequest
  BY <1>1, <1>3, PoolConstants
<1>5. \A v \in Workers \ {w} : /\ pc'[v] = pc[v] /\ res'[v] = res[v] /\ current'[v] = current[v]
                               /\ Id(v)' = Id(v)
  BY <1>1, <1>3 DEF Id
<1>6. WorkerInv(w)'
  BY <1>4 DEF WorkerInv, OwnerPoints, BuildPoints, WorkPoints
<1>7. ASSUME NEW v \in Workers \ {w} PROVE WorkerInv(v)'
  BY <1>1, <1>5 DEF WorkerInv, Succeeded, HasInfo, Good
<1>8. BuildExclusion' /\ LockExclusion' /\ SomeoneCanWork'
  BY <1>4, <1>5 DEF BuildExclusion, LockExclusion, SomeoneCanWork, OwnerPoints, BuildPoints
<1>9. QueuedIsOwned'
  BY <1>1, <1>5 DEF QueuedIsOwned, Owns, OwnerPoints, BuildPoints
<1>10. LinksAreGood' /\ ReportsHold'
  BY <1>1 DEF LinksAreGood, Good, ReportsHold, ReportedIsThere, Succeeded, HasInfo
<1>11. DownIsIdle'
  BY DEF StartWork, Take, DownIsIdle
<1> QED
  BY <1>2, <1>6, <1>7, <1>8, <1>9, <1>10, <1>11

(* A worker that replies hands over what it knows of the result. *)
LEMMA FinishWorkStep ==
    ASSUME Inv, NEW w \in Workers, FinishWork(w), PoolInv'
    PROVE  Inv'
<1> USE DEF Inv
<1> DEFINE v0 == IF res[w].err THEN [NewBuildInfo EXCEPT !.err = TRUE] ELSE res[w]
<1>1. /\ UNCHANGED <<jq, locked, pending, ready, latest, faults, crashes, answer>>
      /\ fresh' = fresh \ {w}
      /\ pc[w] = "reply" /\ pc' = [pc EXCEPT ![w] = "idle"]
      /\ res' = [res EXCEPT ![w] = NewBuildInfo]
      /\ src' = [src EXCEPT ![w] = NoJob]
      /\ current' = [current EXCEPT ![w] = NoRequest]
      /\ result' = [result EXCEPT ![current[w]] = v0]
  BY DEF FinishWork, disk, Reply
<1>2. WorkTypeOK'
  BY <1>1, PointNames, DirTypes DEF WorkTypeOK
<1>3. /\ pc \in [Workers -> Points] /\ res \in [Workers -> BuildInfo]
      /\ src \in [Workers -> JobIDs \cup {NoJob}]
      /\ current \in [Workers -> Requests \cup {NoRequest}]
  BY DEF WorkTypeOK, PoolInv, PoolTypeOK
<1>4. pc'[w] = "idle" /\ current'[w] = NoRequest
  BY <1>1, <1>3
<1>5. \A v \in Workers \ {w} : /\ pc'[v] = pc[v] /\ res'[v] = res[v] /\ src'[v] = src[v]
                               /\ current'[v] = current[v] /\ Id(v)' = Id(v)
  BY <1>1, <1>3 DEF Id
<1>6. WorkerInv(w)'
  BY <1>4 DEF WorkerInv, OwnerPoints, BuildPoints, WorkPoints
<1>7. ASSUME NEW v \in Workers \ {w} PROVE WorkerInv(v)'
  BY <1>1, <1>5 DEF WorkerInv, Succeeded, HasInfo, Good
<1>8. BuildExclusion' /\ LockExclusion' /\ SomeoneCanWork'
  BY <1>4, <1>5 DEF BuildExclusion, LockExclusion, SomeoneCanWork, OwnerPoints, BuildPoints
<1>9. QueuedIsOwned'
  BY <1>1, <1>5 DEF QueuedIsOwned, Owns, OwnerPoints, BuildPoints
<1>10. LinksAreGood'
  BY <1>1 DEF LinksAreGood, Good
<1>11. ReportsHold'
  <2>1. current[w] \in Requests
    BY <1>1, IdType
  <2>2. ReportedIsThere(v0, current[w])
    <3>1. CASE res[w].err
      BY <3>1 DEF ReportedIsThere, NewBuildInfo
    <3>2. CASE ~res[w].err
      BY <1>1, <3>2 DEF ReportedIsThere, WorkerInv, Id
    <3> QED
      BY <3>1, <3>2
  <2>3. \A r \in Requests : result'[r] = result[r] \/ (r = current[w] /\ result'[r] = v0)
    BY <1>1, <2>1 DEF PoolInv, PoolTypeOK
  <2> HIDE DEF v0
  <2> QED
    BY <1>1, <2>2, <2>3 DEF ReportsHold, ReportedIsThere, Succeeded, HasInfo
<1>12. DownIsIdle'
  BY <1>4, <1>5 DEF FinishWork, Reply, DownIsIdle
<1> QED
  BY <1>2, <1>6, <1>7, <1>8, <1>9, <1>10, <1>11, <1>12

(* The death of the process leaves nobody with anything to know. *)
LEMMA CrashStep ==
    ASSUME Inv, Crash, PoolInv'
    PROVE  Inv'
<1> USE DEF Inv
<1>1. /\ UNCHANGED <<pending, ready, latest, faults, answer>>
      /\ crashes' = crashes + 1
      /\ pc' = [w \in Workers |-> "idle"] /\ res' = [w \in Workers |-> NewBuildInfo]
      /\ src' = [w \in Workers |-> NoJob] /\ jq' = {} /\ locked' = {} /\ fresh' = {}
      /\ current' = [w \in Workers |-> NoRequest]
      /\ result' = [r \in Requests |-> NoResult]
  BY DEF Crash, PoolCrash, disk
<1>2. WorkTypeOK'
  BY <1>1, PointNames, DirTypes DEF WorkTypeOK
<1>3. \A w \in Workers : WorkerInv(w)'
  BY <1>1 DEF WorkerInv, OwnerPoints, BuildPoints, WorkPoints
<1>4. BuildExclusion' /\ QueuedIsOwned' /\ SomeoneCanWork' /\ LockExclusion'
  BY <1>1, PoolConstants
  DEF BuildExclusion, QueuedIsOwned, SomeoneCanWork, LockExclusion, OwnerPoints, BuildPoints
<1>5. LinksAreGood' /\ ReportsHold'
  BY <1>1 DEF LinksAreGood, Good, ReportsHold, ReportedIsThere, Succeeded, HasInfo
<1>6. DownIsIdle'
  BY <1>1 DEF DownIsIdle
<1> QED
  BY <1>2, <1>3, <1>4, <1>5, <1>6

(* PruneZombieBuilds finds no worker in the directories it removes. *)
LEMMA PruneStep ==
    ASSUME Inv, NEW i \in JobIDs, Prune(i), PoolInv'
    PROVE  Inv'
<1> USE DEF Inv
<1>1. /\ UNCHANGED <<poolVars, pc, res, src, jq, locked, ready, latest, fresh, faults, crashes>>
      /\ pending' = [pending EXCEPT ![i] = NoDir]
      /\ \A w \in Workers : pc[w] = "idle"
  BY DEF Prune, DownIsIdle
<1>2. WorkTypeOK'
  BY <1>1 DEF WorkTypeOK
<1>3. \A w \in Workers : WorkerInv(w)'
  BY <1>1 DEF WorkerInv, OwnerPoints, BuildPoints, WorkPoints, poolVars
<1>4. BuildExclusion' /\ QueuedIsOwned' /\ SomeoneCanWork' /\ LockExclusion' /\ DownIsIdle'
  BY <1>1
  DEF BuildExclusion, QueuedIsOwned, Owns, Id, SomeoneCanWork, LockExclusion, DownIsIdle, poolVars
<1>5. LinksAreGood' /\ ReportsHold'
  BY <1>1 DEF LinksAreGood, Good, ReportsHold, ReportedIsThere, Succeeded, HasInfo, poolVars
<1> QED
  BY <1>2, <1>3, <1>4, <1>5

(* Nothing changes: a stutter, or the start of the server but for its state. *)
LEMMA QuietStep ==
    ASSUME Inv, PoolInv', faults' \in Nat,
           UNCHANGED <<pc, res, src, jq, locked, pending, ready, latest, fresh, crashes,
                       current, result, answer>>,
           server' = server \/ server' = "up"
    PROVE  Inv'
<1> USE DEF Inv
<1>2. WorkTypeOK'
  BY DEF WorkTypeOK
<1>3. \A w \in Workers : WorkerInv(w)'
  BY DEF WorkerInv, Id, Succeeded, HasInfo, Good
<1>4. BuildExclusion' /\ QueuedIsOwned' /\ SomeoneCanWork' /\ LockExclusion' /\ DownIsIdle'
  BY DEF BuildExclusion, QueuedIsOwned, Owns, Id, SomeoneCanWork, LockExclusion, DownIsIdle
<1>5. LinksAreGood' /\ ReportsHold'
  BY DEF LinksAreGood, Good, ReportsHold, ReportedIsThere, Succeeded, HasInfo
<1> QED
  BY <1>2, <1>3, <1>4, <1>5

LEMMA InvTypes == Inv => TypeOK
  BY TypeSplit DEF Inv, PoolInv

LEMMA InvStep == Inv /\ [Next]_vars => Inv'
<1> SUFFICES ASSUME Inv, [Next]_vars PROVE Inv'
  OBVIOUS
<1>0. PoolInv'
  BY InvTypes, PoolStep, PoolInvStep DEF Inv
<1>1. ASSUME NEW r \in Requests, Handle(r) PROVE Inv'
  BY <1>0, <1>1, HandleStep
<1>2. ASSUME NEW w \in Workers, WorkerStep(w) PROVE Inv'
  BY <1>0, <1>2, StartWorkStep, WorkStep, FinishWorkStep DEF WorkerStep
<1>3. ASSUME NEW i \in JobIDs, Prune(i) PROVE Inv'
  BY <1>0, <1>3, PruneStep
<1>4. CASE Crash
  BY <1>0, <1>4, CrashStep
<1>5. CASE StartServer
  <2>1. faults' \in Nat
    BY <1>5, FaultTypes DEF StartServer, FaultPoints, Inv
  <2> QED
    BY <1>0, <1>5, <2>1, QuietStep DEF StartServer, NewWorkerPool, disk
<1>6. CASE UNCHANGED vars
  <2>1. faults' \in Nat
    BY <1>6 DEF vars, Inv, WorkTypeOK
  <2> QED
    BY <1>0, <1>6, <2>1, QuietStep DEF vars, poolVars, disk
<1> QED
  BY <1>1, <1>2, <1>3, <1>4, <1>5, <1>6 DEF Next

LEMMA InvAlways == Spec => []Inv
  BY InvInit, InvStep, PTL DEF Spec

-----------------------------------------------------------------------------
(* Work and the pool keep every variable in its type, whatever fails: in   *)
(* particular no step reads a directory that is not there.                 *)
THEOREM TypeCorrect == Spec => []TypeOK
  BY InvAlways, InvTypes, PTL

(* At most one worker builds a job ID at a time (worker.go:41-43). *)
THEOREM OneBuilderPerJob == Spec => []BuildExclusion
<1>1. Inv => BuildExclusion
  BY DEF Inv
<1> QED
  BY <1>1, InvAlways, PTL

(* The waiters of build coalescing never take up the whole pool. *)
THEOREM PoolIsNeverSeized == Spec => []SomeoneCanWork
<1>1. Inv => SomeoneCanWork
  BY DEF Inv
<1> QED
  BY <1>1, InvAlways, PTL

(* A 'latest' link leads to a complete success (worker.go:88). *)
THEOREM LinksNeverDangle == Spec => []LatestIsSuccessful
<1>1. Inv => LatestIsSuccessful
  BY GoodSucceeded DEF Inv, LinksAreGood, LatestIsSuccessful
<1> QED
  BY <1>1, InvAlways, PTL

(* Whoever was told of a success finds its artifacts (server.go:151). *)
THEOREM ReportedArtifactsExist == Spec => []AnswerHasArtifacts
<1>1. Inv => AnswerHasArtifacts
  BY DEF Inv, ReportsHold, ReportedIsThere, AnswerHasArtifacts, ContainerSuccessExitCode
<1> QED
  BY <1>1, InvAlways, PTL

(* What an incremental build copies is complete (job.go:361-366). *)
THEOREM CloneSourcesAreComplete == Spec => []CloneSourceIntact
<1>1. Inv => CloneSourceIntact
  BY GoodSucceeded DEF Inv, WorkerInv, BuildPoints, CloneSourceIntact
<1> QED
  BY <1>1, InvAlways, PTL

(* os.Rename and os.Symlink find their targets free (worker.go:138, 169). *)
THEOREM TargetsAreFree == Spec => []MovesNeverCollide
<1>1. Inv => MovesNeverCollide
  BY DEF Inv, WorkerInv, BuildPoints, WorkPoints, MovesNeverCollide
<1> QED
  BY <1>1, InvAlways, PTL

(* No step, failure, crash or restart takes a success away or changes it   *)
(* (worker.go:94).                                                         *)
THEOREM SuccessNeverLost == Spec => SuccessIsPermanent
<1>1. ASSUME Inv, [Next]_vars, NEW i \in JobIDs, Succeeded(ready[i])
      PROVE  ready'[i] = ready[i]
  <2>1. ASSUME NEW w \in Workers, WorkerStep(w) PROVE ready'[i] = ready[i]
    BY <1>1, <2>1, FrameStep DEF WorkerStep, WorkFrame, StartWork, FinishWork, disk
  <2> QED
    BY <1>1, <2>1 DEF Next, Handle, Prune, Crash, StartServer, vars, disk
<1>2. Inv /\ [Next]_vars => [\A i \in JobIDs : Succeeded(ready[i]) => ready'[i] = ready[i]]_vars
  BY <1>1
<1> QED
  BY <1>2, InvAlways, PTL DEF Spec, SuccessIsPermanent

-----------------------------------------------------------------------------
(***************************************************************************)
(* What holds as long as no call fails.  Inv lets any call fail and says   *)
(* nothing of what is left in pending/ or of links that are missing.  To   *)
(* know that nothing is left behind one has to know that no error is under *)
(* way (ErrFree), that each pending directory has its builder, that each   *)
(* published success has its link or a worker about to make it, and that   *)
(* only a worker in os.RemoveAll leaves a ready directory incomplete.      *)
(***************************************************************************)
ErrFree == \A w \in Workers : pc[w] \notin {"delete", "reply"} => ~res[w].err

PendingHasBuilder ==
    server # "down" => \A i \in JobIDs : pending[i] # NoDir =>
        \E w \in Workers : pc[w] \in WorkPoints /\ Id(w) = i

SuccessIsLinked ==
    \A i \in JobIDs : Succeeded(ready[i]) =>
        \/ \E w \in Workers : pc[w] = "link" /\ Id(w) = i
        \/ latest[LatestBuildPath[i]] # NoJob
        \/ \E w \in Workers : pc[w] = "symlink" /\ LatestBuildPath[Id(w)] = LatestBuildPath[i]

ReadyIsComplete ==
    \A i \in JobIDs :
        \/ ready[i] = NoDir \/ HasInfoAndLog(ready[i])
        \/ \E w \in Workers : pc[w] = "remove" /\ Id(w) = i

FaultFreeInv ==
    /\ faults = 0 => ErrFree /\ PendingHasBuilder
    /\ faults = 0 /\ crashes = 0 => SuccessIsLinked /\ ReadyIsComplete

LEMMA FaultFreeInit == Init => FaultFreeInv
  BY DEF Init, FaultFreeInv, ErrFree, NewBuildInfo, PendingHasBuilder, SuccessIsLinked, Succeeded,
         HasInfo, ReadyIsComplete

(***************************************************************************)
(* What the step of a worker does when nothing has failed.                 *)
(***************************************************************************)
CleanStep(w) ==
    /\ pc'[w] \notin {"delete", "reply"} => ~res'[w].err
    /\ \/ pending'[Id(w)] = NoDir \/ pc'[w] \in WorkPoints
       \/ pending'[Id(w)] = pending[Id(w)] /\ pc[w] \notin WorkPoints
    /\ \/ ready'[Id(w)] = ready[Id(w)] /\ pc[w] # "remove"
       \/ ready'[Id(w)] = NoDir \/ HasInfoAndLog(ready'[Id(w)]) \/ pc'[w] = "remove"
    /\ Succeeded(ready'[Id(w)]) => ready'[Id(w)] = ready[Id(w)] \/ pc'[w] = "link"
    /\ pc[w] = "link" => pc'[w] = "symlink"
    /\ pc[w] = "symlink" => latest'[LatestBuildPath[Id(w)]] # NoJob

(* No call fails in a step after which none has failed. *)
LEMMA NothingFails ==
    ASSUME WorkTypeOK, faults' = 0
    PROVE  \A op : ~Fails(op)
  BY DEF Fails, WorkTypeOK

LEMMA CleanWork ==
    ASSUME Inv, FaultFreeInv, NEW w \in Workers, Work(w), faults' = 0, faults = 0
    PROVE  CleanStep(w)
<1> WorkTypeOK /\ WorkerInv(w)
  BY DEF Inv
<1> pc[w] # "idle" /\ ~(pc[w] \in {"delete", "reply"}) => ~res[w].err
  BY DEF FaultFreeInv, ErrFree
<1>0. /\ pc[w] # "idle" /\ Id(w) \in JobIDs /\ LatestBuildPath[Id(w)] \in LatestPaths
      /\ \A op : ~Fails(op)
  BY FrameStep, IdType, NothingFails DEF WorkFrame
<1> USE MoveTo, SetDirs, PointNames, <1>0 DEF CleanStep, disk, WorkPoints
<1>1. CASE Add(w)
  BY <1>1 DEF Add
<1>2. CASE Coalesce(w)
  BY <1>2 DEF Coalesce
<1>3. CASE ExitCode(w)
  BY <1>3 DEF ExitCode, WorkTypeOK
<1>4. CASE LookUp(w)
  BY <1>4 DEF LookUp, WorkTypeOK
<1>5. CASE UnlinkFile(w)
  <2>1. ~Succeeded(ready'[Id(w)]) /\ pc'[w] = "remove" /\ res' = res /\ pending' = pending
    <3>1. WorkerInv(w)' /\ Id(w)' = Id(w)
      BY MoverKept, FrameStep DEF WorkFrame, poolVars, Id
    <3>2. ~Succeeded(ready[Id(w)])'
      BY <1>5, <3>1 DEF UnlinkFile, WorkerInv
    <3> QED
      BY <1>5, <3>1, <3>2 DEF UnlinkFile, Succeeded, HasInfo
  <2> QED
    BY <1>5, <2>1 DEF UnlinkFile
<1>6. CASE Remove(w)
  BY <1>6 DEF Remove, Succeeded, HasInfo
<1>7. CASE StatProject(w)
  BY <1>7 DEF StatProject
<1>8. CASE BootstrapProject(w)
  BY <1>8 DEF BootstrapProject
<1>9. CASE CloneSrcPath(w)
  BY <1>9 DEF CloneSrcPath
<1>10. CASE BootstrapBuildDir(w)
  <2>1. pending[Id(w)] = NoDir
    <3>1. server # "down"
      BY <1>0 DEF Inv, DownIsIdle
    <3>2. ASSUME pending[Id(w)] # NoDir PROVE FALSE
      <4>1. PICK v \in Workers : pc[v] \in WorkPoints /\ Id(v) = Id(w)
        BY <1>0, <3>1, <3>2 DEF FaultFreeInv, PendingHasBuilder
      <4> QED
        BY <1>10, <4>1 DEF BootstrapBuildDir, Inv, BuildExclusion, OwnerPoints, BuildPoints
    <3> QED
      BY <3>2
  <2> QED
    BY <1>10, <2>1 DEF BootstrapBuildDir
<1>11. CASE PersistPending(w)
  BY <1>11 DEF PersistPending, Persist
<1>12. CASE WriteParams(w)
  BY <1>12 DEF WriteParams
<1>13. CASE BuildImage(w)
  BY <1>13 DEF BuildImage
<1>14. CASE StartContainer(w)
  <2>1. PICK e : res' = [res EXCEPT ![w].exit = e] /\ pc' = [pc EXCEPT ![w] = "logs"]
    BY <1>14 DEF StartContainer
  <2>2. res'[w].err = res[w].err
    BY <2>1 DEF WorkTypeOK, BuildInfo
  <2>3. pc'[w] = "logs"
    BY <2>1 DEF WorkTypeOK
  <2> QED
    BY <1>14, <2>2, <2>3 DEF StartContainer
<1>15. CASE ReadJobLogs(w)
  BY <1>15 DEF ReadJobLogs
<1>16. CASE Close(w)
  BY <1>16 DEF Close
<1>17. CASE PersistFinal(w)
  BY <1>17 DEF PersistFinal, Persist
<1>18. CASE Rename(w)
  <2>1. /\ ready[Id(w)] = NoDir /\ pc[w] = "rename" /\ ~res[w].err /\ pending[Id(w)] # NoDir
        /\ pending[Id(w)] = [files |-> {"info", "log"}, exit |-> res[w].exit, err |-> FALSE]
    BY <1>18 DEF Rename, WorkerInv, BuildPoints
  <2>2. /\ pending'[Id(w)] = NoDir /\ ready'[Id(w)] = pending[Id(w)]
        /\ pc'[w] = IF res[w].exit = 0 THEN "link" ELSE "delete"
        /\ res'[w] = res[w]
    BY <1>18, <2>1 DEF Rename, ContainerSuccessExitCode
  <2>3. HasInfoAndLog(ready'[Id(w)]) /\ (Succeeded(ready'[Id(w)]) => res[w].exit = 0)
    BY <2>1, <2>2 DEF HasInfoAndLog, Succeeded, ContainerSuccessExitCode
  <2> QED
    BY <2>1, <2>2, <2>3
<1>19. CASE RemoveLink(w)
  BY <1>19 DEF RemoveLink
<1>20. CASE Symlink(w)
  BY <1>20, ServerConstants DEF Symlink, WorkerInv, WorkTypeOK
<1>21. CASE Delete(w)
  BY <1>21 DEF Delete
<1> QED
  BY <1>1, <1>2, <1>3, <1>4, <1>5, <1>6, <1>7, <1>8, <1>9, <1>10, <1>11, <1>12, <1>13, <1>14,
     <1>15, <1>16, <1>17, <1>18, <1>19, <1>20, <1>21 DEF Work

(* A step never takes back a failure or a death. *)
LEMMA CountsGrow ==
    ASSUME WorkTypeOK, [Next]_vars
    PROVE  /\ faults' = 0 => faults = 0
           /\ crashes' = 0 => crashes = 0
           /\ \A w \in Workers : Work(w) => crashes' = crashes
<1>1. ASSUME NEW w \in Workers, Work(w) PROVE crashes' = crashes /\ (faults' = 0 => faults = 0)
  <2>1. crashes' = crashes
    BY <1>1 DEF Work, Add, Coalesce, ExitCode, LookUp, UnlinkFile, Remove, StatProject,
      BootstrapProject, CloneSrcPath, BootstrapBuildDir, PersistPending, WriteParams,
      BuildImage, StartContainer, ReadJobLogs, Close, PersistFinal, Rename, RemoveLink,
      Symlink, Delete
  <2>2. Works \/ (\E op \in FaultPoints : Fails(op)) \/ faults' = faults
    BY <1>1 DEF Work, Add, Coalesce, ExitCode, LookUp, UnlinkFile, Remove, StatProject,
      BootstrapProject, CloneSrcPath, BootstrapBuildDir, PersistPending, WriteParams,
      BuildImage, StartContainer, ReadJobLogs, Close, PersistFinal, Persist, Rename, RemoveLink,
      Symlink, Delete, FaultPoints
  <2> QED
    BY <2>1, <2>2 DEF Works, Fails, WorkTypeOK
<1>2. ASSUME NEW w \in Workers, WorkerStep(w)
      PROVE  (faults' = 0 => faults = 0) /\ (crashes' = 0 => crashes = 0)
  BY <1>1, <1>2 DEF WorkerStep, StartWork, FinishWork
<1>3. CASE Crash
  BY <1>1, <1>3 DEF Crash, WorkTypeOK
<1>4. CASE StartServer
  BY <1>1, <1>4 DEF StartServer, Works, Fails, WorkTypeOK
<1> QED
  BY <1>1, <1>2, <1>3, <1>4 DEF Next, Handle, Prune, vars

LEMMA CleanWorkStep ==
    ASSUME Inv, FaultFreeInv, NEW w \in Workers, Work(w), [Next]_vars
    PROVE  FaultFreeInv'
<1> SUFFICES ASSUME faults' = 0
             PROVE  ErrFree' /\ PendingHasBuilder' /\ (crashes' = 0 => SuccessIsLinked' /\ ReadyIsComplete')
  BY DEF FaultFreeInv
<1>1. faults = 0 /\ crashes' = crashes /\ WorkTypeOK
  BY CountsGrow DEF Inv
<1>2. WorkFrame(w) /\ CleanStep(w)
  BY <1>1, FrameStep, CleanWork
<1>3. /\ \A v \in Workers : Id(v)' = Id(v)
      /\ server' = server /\ server # "down" /\ pc[w] # "idle"
  BY <1>2 DEF WorkFrame, poolVars, Id, Inv, DownIsIdle
<1>4. \A v \in Workers \ {w} : pc'[v] = pc[v] /\ res'[v] = res[v]
  BY <1>2 DEF WorkFrame
<1>5. Id(w) \in JobIDs /\ LatestBuildPath[Id(w)] \in LatestPaths
  BY <1>3, IdType
<1>6. \A i \in JobIDs \ {Id(w)} : pending'[i] = pending[i] /\ ready'[i] = ready[i]
  BY <1>2 DEF WorkFrame
<1>7. ErrFree'
  BY <1>1, <1>2, <1>4 DEF FaultFreeInv, ErrFree, CleanStep
<1>8. PendingHasBuilder'
  <2> SUFFICES ASSUME NEW i \in JobIDs, pending'[i] # NoDir
               PROVE  \E v \in Workers : pc'[v] \in WorkPoints /\ Id(v) = i
    BY <1>3 DEF PendingHasBuilder
  <2>1. CASE pending[i] # NoDir /\ (i # Id(w) \/ pc[w] \notin WorkPoints)
    <3>1. PICK v \in Workers : pc[v] \in WorkPoints /\ Id(v) = i
      BY <1>1, <1>3, <2>1 DEF FaultFreeInv, PendingHasBuilder
    <3> QED
      BY <1>4, <2>1, <3>1
  <2>2. CASE i = Id(w) /\ pc'[w] \in WorkPoints
    BY <2>2
  <2> QED
    BY <1>2, <1>6, <2>1, <2>2 DEF CleanStep
<1>9. ASSUME crashes' = 0 PROVE SuccessIsLinked'
  <2> SUFFICES ASSUME NEW i \in JobIDs, Succeeded(ready'[i])
               PROVE  \/ \E v \in Workers : pc'[v] = "link" /\ Id(v) = i
                      \/ latest'[LatestBuildPath[i]] # NoJob
                      \/ \E v \in Workers : /\ pc'[v] = "symlink"
                                            /\ LatestBuildPath[Id(v)] = LatestBuildPath[i]
    BY <1>3 DEF SuccessIsLinked, Succeeded, HasInfo
  <2> LatestBuildPath[i] \in LatestPaths
    BY ServerConstants DEF LatestBuildPath, LatestPaths
  <2>1. CASE ready'[i] # ready[i]
    BY <1>2, <1>6, <2>1 DEF CleanStep
  <2>2. CASE ready'[i] = ready[i]
    <3>1. \/ \E v \in Workers : pc[v] = "link" /\ Id(v) = i
          \/ latest[LatestBuildPath[i]] # NoJob
          \/ \E v \in Workers : pc[v] = "symlink" /\ LatestBuildPath[Id(v)] = LatestBuildPath[i]
      BY <1>1, <1>9, <2>2 DEF FaultFreeInv, SuccessIsLinked
    <3>2. CASE \E v \in Workers : pc[v] = "link" /\ Id(v) = i
      BY <1>2, <1>4, <3>2 DEF CleanStep
    <3>3. CASE \E v \in Workers : pc[v] = "symlink" /\ LatestBuildPath[Id(v)] = LatestBuildPath[i]
      BY <1>2, <1>4, <3>3 DEF CleanStep
    <3>4. CASE latest[LatestBuildPath[i]] # NoJob
      <4>1. CASE pc[w] \notin {"link", "symlink"} \/ LatestBuildPath[i] # LatestBuildPath[Id(w)]
        BY <1>2, <3>4, <4>1 DEF WorkFrame
      <4>2. CASE pc[w] \in {"link", "symlink"} /\ LatestBuildPath[i] = LatestBuildPath[Id(w)]
        BY <1>2, <4>2 DEF CleanStep
      <4> QED
        BY <4>1, <4>2
    <3> QED
      BY <3>1, <3>2, <3>3, <3>4
  <2> QED
    BY <2>1, <2>2
<1>10. ASSUME crashes' = 0 PROVE ReadyIsComplete'
  <2> SUFFICES ASSUME NEW i \in JobIDs
               PROVE  \/ ready'[i] = NoDir \/ HasInfoAndLog(ready'[i])
                      \/ \E v \in Workers : pc'[v] = "remove" /\ Id(v) = i
    BY <1>3 DEF ReadyIsComplete, HasInfoAndLog
  <2>1. \/ ready[i] = NoDir \/ HasInfoAndLog(ready[i])
        \/ \E v \in Workers : pc[v] = "remove" /\ Id(v) = i
    BY <1>1, <1>10 DEF FaultFreeInv, ReadyIsComplete
  <2>2. CASE i # Id(w)
    BY <1>4, <1>6, <2>1, <2>2
  <2>3. CASE i = Id(w)
    BY <1>2, <1>4, <2>1, <2>3 DEF CleanStep
  <2> QED
    BY <2>2, <2>3
<1> QED
  BY <1>7, <1>8, <1>9, <1>10

LEMMA FaultFreeStep == Inv /\ FaultFreeInv /\ [Next]_vars => FaultFreeInv'
<1> SUFFICES ASSUME Inv, FaultFreeInv, [Next]_vars PROVE FaultFreeInv'
  OBVIOUS
<1> WorkTypeOK /\ PoolTypeOK /\ DownIsIdle
  BY DEF Inv, PoolInv
<1>0. (faults' = 0 => faults = 0) /\ (crashes' = 0 => crashes = 0)
  BY CountsGrow
(* Steps that move no worker but between the start and the end of Work. *)
<1>1. ASSUME UNCHANGED <<pending, ready, latest>>,
             server' = server \/ (server' = "up" /\ \A i \in JobIDs : pending[i] = NoDir) \/ faults' # 0,
             \A w \in Workers : \/ pc'[w] = pc[w] /\ res'[w] = res[w] /\ current'[w] = current[w]
                                \/ /\ pc[w] \in {"idle", "reply"} /\ pc'[w] \in {"idle", "add"}
                                   /\ ~res'[w].err
      PROVE  FaultFreeInv'
  <2> USE <1>1 DEF FaultFreeInv
  <2>1. ASSUME faults' = 0 PROVE ErrFree'
    BY <1>0, <2>1 DEF ErrFree
  <2>2. ASSUME faults' = 0 PROVE PendingHasBuilder'
    BY <1>0, <2>2 DEF PendingHasBuilder, Id, WorkPoints
  <2>3. ASSUME faults' = 0, crashes' = 0 PROVE SuccessIsLinked'
    BY <1>0, <2>3 DEF SuccessIsLinked, Succeeded, HasInfo, Id
  <2>4. ASSUME faults' = 0, crashes' = 0 PROVE ReadyIsComplete'
    BY <1>0, <2>4 DEF ReadyIsComplete, HasInfoAndLog, Id
  <2> QED
    BY <2>1, <2>2, <2>3, <2>4
<1>2. ASSUME NEW r \in Requests, Handle(r) PROVE FaultFreeInv'
  BY <1>1, <1>2 DEF Handle, Refuse, Accept, Overload, Wait, disk
<1>3. ASSUME NEW w \in Workers, StartWork(w) PROVE FaultFreeInv'
  BY <1>1, <1>3 DEF StartWork, Take, disk, NewBuildInfo, WorkTypeOK, PoolTypeOK
<1>4. ASSUME NEW w \in Workers, FinishWork(w) PROVE FaultFreeInv'
  BY <1>1, <1>4 DEF FinishWork, Reply, disk, NewBuildInfo, WorkTypeOK, PoolTypeOK
<1>5. ASSUME NEW w \in Workers, Work(w) PROVE FaultFreeInv'
  BY <1>5, CleanWorkStep
<1>6. ASSUME NEW i \in JobIDs, Prune(i) PROVE FaultFreeInv'
  BY <1>6 DEF Prune, poolVars, FaultFreeInv, ErrFree, PendingHasBuilder, SuccessIsLinked,
              ReadyIsComplete, Id, Succeeded, HasInfo, HasInfoAndLog
<1>7. CASE Crash
  <2>1. crashes' # 0 /\ server' = "down" /\ \A w \in Workers : ~res'[w].err
    BY <1>7 DEF Crash, PoolCrash, NewBuildInfo, WorkTypeOK
  <2> QED
    BY <2>1 DEF FaultFreeInv, ErrFree, PendingHasBuilder
<1>8. CASE StartServer
  <2>1. (\A i \in JobIDs : pending[i] = NoDir) \/ faults' # 0
    BY <1>8, NothingFails DEF StartServer
  <2> QED
    BY <1>1, <1>8, <2>1 DEF StartServer, NewWorkerPool, disk
<1>9. CASE UNCHANGED vars
  BY <1>1, <1>9 DEF vars, poolVars, disk
<1> QED
  BY <1>2, <1>3, <1>4, <1>5, <1>6, <1>7, <1>8, <1>9 DEF Next, WorkerStep

LEMMA FaultFreeAlways == Spec => [](Inv /\ FaultFreeInv)
  BY InvInit, InvStep, FaultFreeInit, FaultFreeStep, PTL DEF Spec

(* Deaths of the process included, a pending directory has a running build *)
(* as long as no call fails (server.go:500-514, worker.go:134-147).        *)
THEOREM NothingLeftPending == Spec => []PendingIsOwned
<1>1. Inv /\ FaultFreeInv => PendingIsOwned
  BY DEF Inv, WorkerInv, FaultFreeInv, PendingHasBuilder, PendingIsOwned, OwnerPoints, BuildPoints,
         WorkPoints
<1> QED
  BY <1>1, FaultFreeAlways, PTL

(* A published success has its link, or a worker that is replacing it      *)
(* (worker.go:150-172): two jobs that swap one link cannot lose it.        *)
THEOREM SuccessKeepsItsLink == Spec => []LinkIsKept
<1>1. ASSUME Inv, FaultFreeInv PROVE LinkIsKept
  <2>1. ASSUME NEW w \in Workers, pc[w] = "link" PROVE Id(w) \in jq
    BY <1>1, <2>1 DEF Inv, WorkerInv, OwnerPoints
  <2> QED
    BY <1>1, <2>1 DEF FaultFreeInv, SuccessIsLinked, LinkIsKept
<1> QED
  BY <1>1, FaultFreeAlways, PTL

(* The lookup always finds something it can serve, remove or build         *)
(* (worker.go:80-105), though builds are published and removed by others.  *)
THEOREM LookUpNeverFails == Spec => FailedBuildIsRestarted
<1>1. ASSUME Inv, FaultFreeInv, [Next]_vars, NEW w \in Workers, pc[w] = "cache",
             faults' = 0, crashes' = 0
      PROVE  ~res'[w].err
  <2>1. faults = 0 /\ crashes = 0 /\ WorkTypeOK
    BY <1>1, CountsGrow DEF Inv
  <2>2. ~res[w].err
    BY <1>1, <2>1 DEF FaultFreeInv, ErrFree
  <2>3. ASSUME NEW v \in Workers, Work(v), v # w PROVE res'[w] = res[w]
    BY <1>1, <2>3, FrameStep DEF WorkFrame
  <2>4. CASE Work(w)
    <3>1. \A op : ~Fails(op)
      BY <1>1, <2>1, NothingFails
    <3>2. Id(w) \in JobIDs
      BY <1>1, IdType
    <3>3. ready[Id(w)] = NoDir \/ HasInfoAndLog(ready[Id(w)])
      <4>1. \A v \in Workers : pc[v] = "remove" => Id(v) # Id(w)
        BY <1>1 DEF Inv, BuildExclusion, OwnerPoints, BuildPoints
      <4> QED
        BY <1>1, <2>1, <3>2, <4>1 DEF FaultFreeInv, ReadyIsComplete
    <3>4. LookUp(w)
      BY <1>1, <2>4 DEF Work, Add, Coalesce, ExitCode, LookUp, UnlinkFile, Remove, StatProject,
        BootstrapProject, CloneSrcPath, BootstrapBuildDir, PersistPending, WriteParams,
        BuildImage, StartContainer, ReadJobLogs, Close, PersistFinal, Rename, RemoveLink,
        Symlink, Delete
    <3>5. res'[w].err = res[w].err
      <4>1. \/ res' = res
            \/ \E e : res' = [res EXCEPT ![w].exit = e, ![w].kind = "cached"]
        BY <3>1, <3>3, <3>4 DEF LookUp, Goto
      <4> QED
        BY <2>1, <4>1 DEF WorkTypeOK, BuildInfo
    <3> QED
      BY <2>2, <3>5
  <2>5. ASSUME NEW v \in Workers, StartWork(v) \/ FinishWork(v) PROVE res'[w] = res[w]
    BY <1>1, <2>1, <2>5 DEF StartWork, FinishWork, WorkTypeOK
  <2>6. CASE Crash
    BY <2>6, <1>1, <2>1 DEF Crash
  <2> QED
    BY <1>1, <2>2, <2>3, <2>4, <2>5, <2>6 DEF Next, WorkerStep, Handle, Prune, StartServer, vars
<1>2. Inv /\ FaultFreeInv /\ [Next]_vars =>
        [\A w \in Workers : pc[w] = "cache" /\ faults' = 0 /\ crashes' = 0 => ~res'[w].err]_vars
  BY <1>1
<1> QED
  BY <1>2, FaultFreeAlways, PTL DEF Spec, FailedBuildIsRestarted

-----------------------------------------------------------------------------
(***************************************************************************)
(* The server implements BuildStore: every step of every worker, and every *)
(* crash and restart, is a step of the abstract store or changes nothing   *)
(* that the store can see.                                                 *)
(***************************************************************************)

(* The refinement mapping, by name. *)
StoreMap == [i \in JobIDs |-> StoreState(ready[i])]
BuildingMap == {i \in JobIDs : \E w \in Workers : pc[w] \in BuildPoints /\ Id(w) = i}

LEMMA StoreStates ==
    /\ StoreState(NoDir) = "absent"
    /\ \A d \in Dir : StoreState(d) \in {"failed", "done"}
    /\ \A d \in Dir : StoreState(d) = "done" <=> Succeeded(d)
    /\ \A d : Good(d) => StoreState(d) = "done"
    /\ \A d : StoreState(d) = "done" => Succeeded(d)
<1>1. \A d \in Dir : d # NoDir
  BY ServerTypes
<1>2. ~Succeeded(NoDir)
  BY DEF Succeeded, HasInfo
<1> QED
  BY <1>1, <1>2, GoodSucceeded DEF StoreState

(* How the set of running builds follows the program point of one worker. *)
LEMMA BuildingStep ==
    ASSUME Inv, NEW w \in Workers, WorkFrame(w)
    PROVE  /\ (pc[w] \in BuildPoints <=> pc'[w] \in BuildPoints) => BuildingMap' = BuildingMap
           /\ pc[w] \in OwnerPoints \ BuildPoints /\ pc'[w] \in BuildPoints =>
                BuildingMap' = BuildingMap \cup {Id(w)} /\ Id(w) \notin BuildingMap
           /\ pc[w] \in BuildPoints /\ pc'[w] \notin BuildPoints =>
                BuildingMap' = BuildingMap \ {Id(w)}
           /\ pc[w] \in BuildPoints => Id(w) \in BuildingMap
<1>1. /\ \A v \in Workers : Id(v)' = Id(v)
      /\ \A v \in Workers \ {w} : pc'[v] = pc[v]
      /\ Id(w) \in JobIDs
  BY IdType DEF WorkFrame, poolVars, Id
<1>2. BuildPoints \subseteq OwnerPoints
  BY DEF OwnerPoints
<1>3. \A v \in Workers \ {w} :
        pc[w] \in OwnerPoints /\ pc[v] \in BuildPoints => Id(v) # Id(w)
  BY <1>2 DEF Inv, BuildExclusion
<1>4. ASSUME pc[w] \in BuildPoints <=> pc'[w] \in BuildPoints
      PROVE  BuildingMap' = BuildingMap
  BY <1>1, <1>4 DEF BuildingMap
<1>5. ASSUME pc[w] \in OwnerPoints \ BuildPoints, pc'[w] \in BuildPoints
      PROVE  BuildingMap' = BuildingMap \cup {Id(w)} /\ Id(w) \notin BuildingMap
  BY <1>1, <1>3, <1>5 DEF BuildingMap
<1>6. ASSUME pc[w] \in BuildPoints, pc'[w] \notin BuildPoints
      PROVE  BuildingMap' = BuildingMap \ {Id(w)}
  BY <1>1, <1>2, <1>3, <1>6 DEF BuildingMap
<1>7. pc[w] \in BuildPoints => Id(w) \in BuildingMap
  BY <1>1 DEF BuildingMap
<1> QED
  BY <1>4, <1>5, <1>6, <1>7

(* How the outcomes follow a change of one ready directory. *)
LEMMA OutcomeStep ==
    ASSUME WorkTypeOK, NEW i \in JobIDs, NEW d
    PROVE  /\ ready' = ready => StoreMap' = StoreMap
           /\ ready' = [ready EXCEPT ![i] = d] =>
                StoreMap' = [StoreMap EXCEPT ![i] = StoreState(d)]
<1>1. ASSUME ready' = ready PROVE StoreMap' = StoreMap
  BY <1>1 DEF StoreMap, StoreState, Succeeded, HasInfo
<1>2. ASSUME ready' = [ready EXCEPT ![i] = d]
      PROVE  StoreMap' = [StoreMap EXCEPT ![i] = StoreState(d)]
  <2>1. \A j \in JobIDs : StoreMap'[j] = IF j = i THEN StoreState(d) ELSE StoreState(ready[j])
    BY <1>2 DEF StoreMap, StoreState, Succeeded, HasInfo, WorkTypeOK
  <2> QED
    BY <2>1 DEF StoreMap
<1> QED
  BY <1>1, <1>2

-----------------------------------------------------------------------------
(* The actions of the store, in terms of the mapping. *)
LEMMA AbstractSteps ==
    ASSUME NEW i \in JobIDs
    PROVE  /\ StoreMap' = StoreMap /\ BuildingMap' = BuildingMap /\ latest' = latest =>
                UNCHANGED Store!storeVars
           /\ /\ i \notin BuildingMap /\ StoreMap[i] # "done"
              /\ BuildingMap' = BuildingMap \cup {i} /\ StoreMap' = StoreMap /\ latest' = latest
              => Store!Begin(i)
           /\ /\ i \in BuildingMap /\ StoreMap[i] = "failed"
              /\ StoreMap' = [StoreMap EXCEPT ![i] = "absent"]
              /\ BuildingMap' = BuildingMap /\ latest' = latest
              => Store!Discard(i)
           /\ /\ i \in BuildingMap /\ StoreMap[i] = "absent"
              /\ \E o \in {"failed", "done"} : StoreMap' = [StoreMap EXCEPT ![i] = o]
              /\ BuildingMap' = BuildingMap \ {i} /\ latest' = latest
              => Store!Publish(i)
           /\ /\ i \in BuildingMap /\ BuildingMap' = BuildingMap \ {i}
              /\ StoreMap' = StoreMap /\ latest' = latest
              => Store!Abandon(i)
           /\ /\ StoreMap[i] = "done" /\ latest[LatestBuildPath[i]] = NoJob
              /\ latest' = [latest EXCEPT ![LatestBuildPath[i]] = i]
              /\ StoreMap' = StoreMap /\ BuildingMap' = BuildingMap
              => Store!PointTo(i)
  BY DEF StoreMap, BuildingMap, Store!storeVars, Store!Begin, Store!Discard, Store!Publish,
         Store!Abandon, Store!PointTo

LEMMA AbstractUnlink ==
    ASSUME NEW l, latest[l] # NoJob, latest' = [latest EXCEPT ![l] = NoJob],
           StoreMap' = StoreMap, BuildingMap' = BuildingMap
    PROVE  Store!Unlink(l)
  BY DEF StoreMap, BuildingMap, Store!Unlink

LEMMA AbstractLose ==
    ASSUME BuildingMap' = {}, StoreMap' = StoreMap, latest' = latest
    PROVE  Store!LoseBuilds
  BY DEF StoreMap, BuildingMap, Store!LoseBuilds

StoreStep == [Store!StoreNext]_(Store!storeVars)

(* Every action of the store is a step of it. *)
LEMMA StepOfStore ==
    ASSUME NEW i \in JobIDs, NEW l \in LatestPaths,
           \/ Store!Begin(i) \/ Store!Discard(i) \/ Store!Publish(i) \/ Store!Abandon(i)
           \/ Store!PointTo(i) \/ Store!Unlink(l) \/ Store!LoseBuilds
           \/ UNCHANGED Store!storeVars
    PROVE  StoreStep
<1>1. ASSUME Store!Begin(i) \/ Store!Discard(i) \/ Store!Publish(i) \/ Store!Abandon(i)
             \/ Store!PointTo(i)
      PROVE  Store!StoreNext
  BY <1>1 DEF Store!StoreNext
<1>2. ASSUME Store!Unlink(l) PROVE Store!StoreNext
  BY <1>2 DEF Store!StoreNext
<1>3. ASSUME Store!LoseBuilds PROVE Store!StoreNext
  BY <1>3 DEF Store!StoreNext
<1> QED
  BY <1>1, <1>2, <1>3 DEF StoreStep

(* A step of Work is a step of the store. *)
LEMMA WorkStoreStep ==
    ASSUME Inv, NEW w \in Workers, Work(w)
    PROVE  StoreStep
<1>1. WorkFrame(w) /\ WorkTypeOK /\ WorkerInv(w)
  BY FrameStep DEF Inv
<1>0. PICK i \in JobIDs : i = Id(w)
  BY <1>1, IdType DEF WorkFrame
<1>2. LatestBuildPath[i] \in LatestPaths
  BY <1>0, <1>1, IdType DEF WorkFrame
<1>3. StoreMap[i] = StoreState(ready[i])
  BY DEF StoreMap
<1> USE <1>0, <1>1, <1>2, <1>3
<1>4. ASSUME Store!Begin(i) \/ Store!Discard(i) \/ Store!Publish(i) \/ Store!Abandon(i)
             \/ Store!PointTo(i) \/ Store!Unlink(LatestBuildPath[i]) \/ UNCHANGED Store!storeVars
      PROVE  StoreStep
  BY <1>4, StepOfStore
(* Steps that only move the worker about within the build, or outside it. *)
<1>5. ASSUME ready' = ready, latest' = latest, pc[w] \in BuildPoints <=> pc'[w] \in BuildPoints
      PROVE  StoreStep
  BY <1>4, <1>5, BuildingStep, OutcomeStep, AbstractSteps
(* Steps that give the build up. *)
<1>6. ASSUME ready' = ready, latest' = latest, pc[w] \in BuildPoints, pc'[w] \notin BuildPoints
      PROVE  StoreStep
  BY <1>4, <1>6, BuildingStep, OutcomeStep, AbstractSteps
<1> USE MoveTo, PointNames
<1>7. CASE Add(w)
  BY <1>5, <1>7 DEF Add, disk, BuildPoints
<1>8. CASE Coalesce(w)
  BY <1>5, <1>8 DEF Coalesce, disk, BuildPoints
<1>9. CASE ExitCode(w)
  BY <1>5, <1>9 DEF ExitCode, disk, BuildPoints, WorkTypeOK
<1>10. CASE LookUp(w)
  <2>1. ready' = ready /\ latest' = latest /\ pc[w] = "cache" /\ pc'[w] \in {"project", "remove", "delete"}
    BY <1>10 DEF LookUp, disk, WorkTypeOK
  <2>2. CASE pc'[w] \in {"project", "remove"}
    <3>1. StoreMap[i] # "done"
      BY <1>10, <2>2, StoreStates DEF LookUp, StoreState, Succeeded, WorkTypeOK
    <3>2. pc[w] \in OwnerPoints \ BuildPoints /\ pc'[w] \in BuildPoints
      BY <2>1, <2>2 DEF OwnerPoints, BuildPoints
    <3> QED
      BY <1>4, <2>1, <3>1, <3>2, BuildingStep, OutcomeStep, AbstractSteps
  <2>3. CASE pc'[w] = "delete"
    BY <1>5, <2>1, <2>3 DEF BuildPoints
  <2> QED
    BY <2>1, <2>2, <2>3
<1>11. CASE UnlinkFile(w)
  <2>1. PICK d : ready' = [ready EXCEPT ![i] = d] /\ d \in {WithoutInfo(ready[i]), WithoutLog(ready[i])}
    BY <1>11 DEF UnlinkFile, SetReady
  <2>2. ready[i] \in Dir /\ ~Succeeded(ready[i]) /\ ready'[i] = d
    BY <1>11, <2>1 DEF UnlinkFile, WorkerInv, WorkTypeOK
  <2>3. WorkerInv(w)' /\ WorkTypeOK' /\ pc' = pc /\ latest' = latest /\ pc[w] = "remove"
    BY <1>11, MoverKept, WorkTypeStep DEF UnlinkFile
  <2>4. Id(w)' = i
    BY DEF WorkFrame, poolVars, Id
  <2>5. ~Succeeded(d) /\ d \in Dir
    <3>1. ready'[i] # NoDir /\ ready'[i] \in Dir \cup {NoDir}
      BY <2>3, <2>4 DEF WorkerInv, WorkTypeOK
    <3>2. ~Succeeded(ready[Id(w)])'
      BY <2>3 DEF WorkerInv
    <3>3. Succeeded(ready[Id(w)])' <=> Succeeded(d)
      BY <2>2, <2>4 DEF Succeeded, HasInfo
    <3> QED
      BY <2>2, <3>1, <3>2, <3>3
  <2>6. StoreState(d) = "failed" /\ StoreMap[i] = "failed"
    BY <2>2, <2>5, StoreStates
  <2>7. StoreMap' = StoreMap
    BY <2>1, <2>6, OutcomeStep DEF StoreMap
  <2> QED
    BY <1>4, <2>3, <2>7, BuildingStep, AbstractSteps
<1>12. CASE Remove(w)
  <2>1. CASE ready' = [ready EXCEPT ![i] = NoDir] /\ pc'[w] = "project" /\ latest' = latest
    <3>1. ready[i] \in Dir /\ ~Succeeded(ready[i]) /\ pc[w] = "remove"
      BY <1>12 DEF Remove, WorkerInv, WorkTypeOK
    <3>2. StoreMap[i] = "failed" /\ StoreMap' = [StoreMap EXCEPT ![i] = "absent"]
      <4>1. StoreMap' = [StoreMap EXCEPT ![i] = StoreState(NoDir)]
        BY ONLY <1>0, <1>1, <2>1, OutcomeStep
      <4> QED
        BY <3>1, <4>1, StoreStates
    <3>3. i \in BuildingMap /\ BuildingMap' = BuildingMap
      BY <2>1, <3>1, BuildingStep DEF BuildPoints
    <3> QED
      BY <1>4, <2>1, <3>2, <3>3, AbstractSteps
  <2>2. CASE ready' = ready /\ pc'[w] = "delete" /\ latest' = latest
    BY <1>6, <1>12, <2>2 DEF Remove, BuildPoints
  <2> QED
    BY <1>12, <2>1, <2>2 DEF Remove, SetReady
<1>13. CASE StatProject(w)
  BY <1>5, <1>6, <1>13 DEF StatProject, disk, BuildPoints
<1>14. CASE BootstrapProject(w)
  BY <1>5, <1>6, <1>14 DEF BootstrapProject, disk, BuildPoints
<1>15. CASE CloneSrcPath(w)
  BY <1>5, <1>15 DEF CloneSrcPath, disk, BuildPoints
<1>16. CASE BootstrapBuildDir(w)
  BY <1>5, <1>6, <1>16 DEF BootstrapBuildDir, BuildPoints
<1>17. CASE PersistPending(w)
  BY <1>5, <1>6, <1>17 DEF PersistPending, Persist, BuildPoints
<1>18. CASE WriteParams(w)
  BY <1>5, <1>18 DEF WriteParams, BuildPoints
<1>19. CASE BuildImage(w)
  BY <1>5, <1>19 DEF BuildImage, disk, BuildPoints
<1>20. CASE StartContainer(w)
  BY <1>5, <1>20 DEF StartContainer, disk, BuildPoints, WorkTypeOK
<1>21. CASE ReadJobLogs(w)
  BY <1>5, <1>21 DEF ReadJobLogs, disk, BuildPoints
<1>22. CASE Close(w)
  BY <1>5, <1>22 DEF Close, disk, BuildPoints
<1>23. CASE PersistFinal(w)
  BY <1>5, <1>23 DEF PersistFinal, Persist, BuildPoints
<1>24. CASE Rename(w)
  <2>1. pc[w] = "rename" /\ ready[i] = NoDir /\ pending[i] \in Dir /\ latest' = latest
    BY <1>24 DEF Rename, WorkerInv, WorkTypeOK, BuildPoints, WorkPoints
  <2>2. CASE ready' = [ready EXCEPT ![i] = pending[i]] /\ pc'[w] \in {"link", "delete"}
    <3>1. /\ StoreMap[i] = "absent"
          /\ \E o \in {"failed", "done"} : StoreMap' = [StoreMap EXCEPT ![i] = o]
      <4>1. StoreMap' = [StoreMap EXCEPT ![i] = StoreState(pending[i])]
        <5> DEFINE d == pending[i]
        <5>1. ready' = [ready EXCEPT ![i] = d]
          BY <2>2
        <5> HIDE DEF d
        <5>2. StoreMap' = [StoreMap EXCEPT ![i] = StoreState(d)]
          BY ONLY <1>0, <1>1, <5>1, OutcomeStep
        <5> QED
          BY <5>2 DEF d
      <4>2. StoreState(pending[i]) \in {"failed", "done"}
        BY <2>1, StoreStates
      <4> QED
        BY <2>1, <4>1, <4>2, StoreStates
    <3>2. i \in BuildingMap /\ BuildingMap' = BuildingMap \ {i}
      BY <2>1, <2>2, BuildingStep DEF BuildPoints
    <3> QED
      BY <1>4, <2>1, <3>1, <3>2, AbstractSteps
  <2>3. CASE ready' = ready /\ pc'[w] = "delete"
    BY <1>6, <2>1, <2>3 DEF BuildPoints
  <2> QED
    BY <1>24, <2>2, <2>3 DEF Rename, SetReady
<1>25. CASE RemoveLink(w)
  <2>1. /\ ready' = ready /\ pc[w] = "link" /\ pc'[w] \in {"symlink", "delete"}
        /\ latest' = latest \/ latest' = [latest EXCEPT ![LatestBuildPath[i]] = NoJob]
    BY <1>25 DEF RemoveLink
  <2>2. StoreMap' = StoreMap /\ BuildingMap' = BuildingMap
    BY <2>1, OutcomeStep, BuildingStep DEF BuildPoints
  <2>3. CASE latest[LatestBuildPath[i]] = NoJob
    <3>1. latest' = latest
      BY <2>1, <2>3 DEF WorkTypeOK
    <3> QED
      BY <1>4, <2>2, <3>1, AbstractSteps
  <2>4. CASE latest' = latest
    BY <1>4, <2>2, <2>4, AbstractSteps
  <2>5. CASE /\ latest[LatestBuildPath[i]] # NoJob
             /\ latest' = [latest EXCEPT ![LatestBuildPath[i]] = NoJob]
    BY <1>4, <2>2, <2>5, AbstractUnlink
  <2> QED
    BY <2>1, <2>3, <2>4, <2>5
<1>26. CASE Symlink(w)
  <2>1. /\ ready' = ready /\ pc[w] = "symlink" /\ pc'[w] = "delete"
        /\ latest[LatestBuildPath[i]] = NoJob
        /\ latest' = latest \/ latest' = [latest EXCEPT ![LatestBuildPath[i]] = i]
    BY <1>26 DEF Symlink, WorkerInv
  <2>2. StoreMap' = StoreMap /\ BuildingMap' = BuildingMap
    BY <2>1, OutcomeStep, BuildingStep DEF BuildPoints
  <2>3. StoreMap[i] = "done"
    BY <2>1, StoreStates DEF WorkerInv
  <2> QED
    BY <1>4, <2>1, <2>2, <2>3, AbstractSteps
<1>27. CASE Delete(w)
  BY <1>5, <1>27 DEF Delete, disk, BuildPoints
<1> QED
  BY <1>7, <1>8, <1>9, <1>10, <1>11, <1>12, <1>13, <1>14, <1>15, <1>16, <1>17, <1>18, <1>19,
     <1>20, <1>21, <1>22, <1>23, <1>24, <1>25, <1>26, <1>27 DEF Work

-----------------------------------------------------------------------------
(* A step that leaves the outcomes, the links and every worker in a build  *)
(* where it is, is no step of the store.                                   *)
NoBuildStep ==
    /\ ready' = ready /\ latest' = latest
    /\ \A w \in Workers : \/ pc'[w] = pc[w] /\ current'[w] = current[w]
                          \/ pc[w] \notin BuildPoints /\ pc'[w] \notin BuildPoints

LEMMA StoreStutter == NoBuildStep => StoreStep
<1> SUFFICES ASSUME NoBuildStep PROVE StoreStep
  OBVIOUS
<1> USE DEF NoBuildStep
<1>1. StoreMap' = StoreMap
  BY DEF StoreMap, StoreState, Succeeded, HasInfo
<1>2. BuildingMap' = BuildingMap
  BY DEF BuildingMap, Id
<1> QED
  BY <1>1, <1>2 DEF StoreStep, StoreMap, BuildingMap, Store!storeVars

(* The death of the process loses the running builds, and nothing else. *)
LEMMA CrashStoreStep ==
    ASSUME Crash
    PROVE  StoreStep
<1>1. StoreMap' = StoreMap /\ latest' = latest
  BY DEF Crash, disk, StoreMap, StoreState, Succeeded, HasInfo
<1>2. BuildingMap' = {}
  BY DEF Crash, BuildingMap, BuildPoints
<1> QED
  BY <1>1, <1>2, AbstractLose DEF StoreStep, Store!StoreNext

LEMMA NextStoreStep ==
    ASSUME Inv, [Next]_vars
    PROVE  StoreStep
<1>1. ASSUME NEW r \in Requests, Handle(r) PROVE NoBuildStep
  BY <1>1 DEF NoBuildStep, Handle, Refuse, Accept, Overload, Wait, disk
<1>2. ASSUME NEW w \in Workers, StartWork(w) PROVE NoBuildStep
  BY <1>2 DEF NoBuildStep, StartWork, Take, disk, BuildPoints, Inv, PoolInv, PoolTypeOK, WorkTypeOK
<1>3. ASSUME NEW w \in Workers, FinishWork(w) PROVE NoBuildStep
  BY <1>3 DEF NoBuildStep, FinishWork, Reply, disk, BuildPoints, Inv, PoolInv, PoolTypeOK, WorkTypeOK
<1>4. ASSUME NEW w \in Workers, Work(w) PROVE StoreStep
  BY <1>4, WorkStoreStep
<1>5. ASSUME NEW i \in JobIDs, Prune(i) PROVE NoBuildStep
  BY <1>5 DEF NoBuildStep, Prune, poolVars
<1>6. ASSUME StartServer PROVE NoBuildStep
  BY <1>6 DEF NoBuildStep, StartServer, NewWorkerPool, disk
<1>7. ASSUME UNCHANGED vars PROVE NoBuildStep
  BY <1>7 DEF NoBuildStep, vars, poolVars, disk
<1> QED
  BY <1>1, <1>2, <1>3, <1>4, <1>5, <1>6, <1>7, StoreStutter, CrashStoreStep DEF Next, WorkerStep

LEMMA InitStore ==
    ASSUME Init
    PROVE  Store!StoreInit
  BY DEF Init, Store!StoreInit, StoreState, BuildPoints

(***************************************************************************)
(* The workers, whatever fails and whenever the process dies, implement    *)
(* the abstract store of build results (worker.go:23-272): one build of a  *)
(* job at a time, a failure replaced only by its own rebuild, a success    *)
(* never, and links that are only ever set to a success.                   *)
(***************************************************************************)
THEOREM ServerImplementsStore == Spec => ImplementsStore
<1>1. Inv /\ [Next]_vars => [Store!StoreNext]_(Store!storeVars)
  BY NextStoreStep DEF StoreStep
<1>2. Init => Store!StoreInit
  BY InitStore
<1> QED
  BY <1>1, <1>2, InvAlways, PTL DEF Spec, ImplementsStore, Store!StoreSpec

(* No build runs for a job whose success the cache would serve: between    *)
(* the lookup and the move the ready path holds no success                 *)
(* (worker.go:94-105).                                                     *)
THEOREM NothingIsRebuilt == Spec => []SuccessIsNotRebuilt
<1>1. ASSUME Inv PROVE SuccessIsNotRebuilt
  <2>1. ASSUME NEW w \in Workers, pc[w] \in BuildPoints
        PROVE  Id(w) \in JobIDs => StoreState(ready[Id(w)]) # "done"
    <3>1. WorkerInv(w)
      BY <1>1 DEF Inv
    <3>2. pc[w] = "remove" \/ pc[w] \in BuildPoints \ {"remove"}
      BY <2>1
    <3> QED
      BY <3>1, <3>2 DEF WorkerInv, StoreState
  <2> QED
    BY <2>1 DEF SuccessIsNotRebuilt, Store!DoneIsNotBuilt
<1> QED
  BY <1>1, InvAlways, PTL

=============================================================================
