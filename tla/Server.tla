------------------------------- MODULE Server -------------------------------
(***************************************************************************)
(* Server.Work of mistryd (cmd/mistryd/worker.go) as the workers of the    *)
(* pool run it concurrently on one build directory: build coalescing       *)
(* through the JobQueue, the cache of results under ready/, the build in   *)
(* pending/, the move of pending to ready, the 'latest' links, and what a  *)
(* failing call or the death of the process leaves behind.                 *)
(*                                                                         *)
(* Each action is the code between two points where another worker can     *)
(* interfere.  Directories are reduced to what the code reads back from    *)
(* them: which of build_info.json and out.log are readable, and the exit   *)
(* code and error build_info.json records.                                 *)
(***************************************************************************)
EXTENDS WorkerPool, Integers

CONSTANTS
    JobIDs,         \* job IDs (NewJob)
    Job,            \* the ID of each request's job
    Projects,       \* project names
    Project,        \* the project of each job ID
    Groups,         \* group names
    Group,          \* the group of each job ID, NoGroup if it has none
    NoGroup, NoJob, NoDir,
    ContainerExits, \* the exit codes a container's command can end with
    Faults,         \* the steps at which a system call may fail
    MaxFaults,      \* how many calls fail, at most
    MaxCrashes      \* how often the process dies, at most

(* The steps at which the code checks for an error. *)
FaultPoints ==
    {"coalesce", "cache", "remove", "project", "bootstrap", "latest", "builddir",
     "persist", "params", "image", "container", "logs", "close", "final",
     "rename", "unlink", "symlink", "prune"}

ASSUME ServerConstants ==
    /\ Job \in [Requests -> JobIDs]
    /\ Project \in [JobIDs -> Projects]
    /\ Group \in [JobIDs -> Groups \cup {NoGroup}]
    /\ NoJob \notin JobIDs
    /\ ContainerExits \subseteq 0..255
    /\ Faults \subseteq FaultPoints
    /\ MaxFaults \in Nat
    /\ MaxCrashes \in Nat

ContainerPendingExitCode == -999
ContainerSuccessExitCode == 0

ExitCodes == ContainerExits \cup {ContainerPendingExitCode, ContainerSuccessExitCode}

(***************************************************************************)
(* BuildInfo together with the error Work returns: the exit code, whether  *)
(* there is an error, and where the result came from (the Cached and       *)
(* Coalesced flags).                                                       *)
(***************************************************************************)
BuildInfo == [exit : ExitCodes, err : BOOLEAN, kind : {"built", "cached", "coalesced"}]

NewBuildInfo ==
    [exit |-> ContainerPendingExitCode, err |-> FALSE, kind |-> "built"]

(* A build directory as ReadJobBuildInfo finds it. *)
Dir == [files : SUBSET {"info", "log"}, exit : ExitCodes, err : BOOLEAN]

ASSUME ServerTypes == Results = BuildInfo /\ NoDir \notin Dir

(* ReadJobBuildInfo without and with the log. *)
HasInfo(d) == d # NoDir /\ "info" \in d.files
HasInfoAndLog(d) == d # NoDir /\ d.files = {"info", "log"}

EmptyDir == [files |-> {}, exit |-> ContainerPendingExitCode, err |-> FALSE]

WithInfo(d, exit, err) == [files |-> d.files \cup {"info"}, exit |-> exit, err |-> err]
WithLog(d) == [d EXCEPT !.files = @ \cup {"log"}]
WithoutLog(d) == [d EXCEPT !.files = @ \ {"log"}]

(* The content of an unreadable build_info.json is of no interest. *)
WithoutInfo(d) == [EmptyDir EXCEPT !.files = d.files \ {"info"}]

(* LatestBuildPath: the link of the job's group, or of its project. *)
LatestBuildPath == [i \in JobIDs |-> <<Project[i], Group[i]>>]
LatestPaths == Projects \X (Groups \cup {NoGroup})

VARIABLES
    pc,        \* where each worker is in Work
    res,       \* j.BuildInfo and err of each worker
    src,       \* cloneSrc of each worker
    jq,        \* the JobQueue: IDs a worker is building
    locked,    \* the projects whose ProjectQueue mutex is held
    pending,   \* the directories under pending/
    ready,     \* the directories under ready/
    latest,    \* the 'latest' links
    fresh,     \* history: waiters whose owner's build has ended
    faults,    \* how many calls have failed
    crashes    \* how often the process has died

disk == <<pending, ready, latest>>
vars == <<poolVars, pc, res, src, jq, locked, disk, fresh, faults, crashes>>

Init ==
    /\ PoolInit
    /\ pc = [w \in Workers |-> "idle"]
    /\ res = [w \in Workers |-> NewBuildInfo]
    /\ src = [w \in Workers |-> NoJob]
    /\ jq = {}
    /\ locked = {}
    /\ pending = [i \in JobIDs |-> NoDir]
    /\ ready = [i \in JobIDs |-> NoDir]
    /\ latest = [l \in LatestPaths |-> NoJob]
    /\ fresh = {}
    /\ faults = 0
    /\ crashes = 0

Id(w) == Job[current[w]]

(* A call that returns an error, and one that does not. *)
Fails(op) == op \in Faults /\ faults < MaxFaults /\ faults' = faults + 1
Works == faults' = faults

(* Work goes on at l; Work gives up with an error and goes on at l. *)
Goto(w, l) == pc' = [pc EXCEPT ![w] = l] /\ res' = res
Error(w, l) == pc' = [pc EXCEPT ![w] = l] /\ res' = [res EXCEPT ![w].err = TRUE]

SetPending(w, d) == pending' = [pending EXCEPT ![Id(w)] = d]
SetReady(w, d) == ready' = [ready EXCEPT ![Id(w)] = d]

-----------------------------------------------------------------------------
(* The job API and the hand-over between handlers and workers. *)

Handle(r) ==
    /\ Refuse(r) \/ Accept(r) \/ Overload(r) \/ Wait(r)
    /\ UNCHANGED <<pc, res, src, jq, locked, disk, fresh, faults, crashes>>

(* A worker receives an item; Work begins with a new BuildInfo. *)
StartWork(w) ==
    /\ Take(w)
    /\ pc[w] = "idle"
    /\ pc' = [pc EXCEPT ![w] = "add"]
    /\ res' = [res EXCEPT ![w] = NewBuildInfo]
    /\ UNCHANGED <<src, jq, locked, disk, fresh, faults, crashes>>

(* Work has returned; of a result with an error the client sees only that. *)
FinishWork(w) ==
    /\ pc[w] = "reply"
    /\ Reply(w, IF res[w].err THEN [NewBuildInfo EXCEPT !.err = TRUE] ELSE res[w])
    /\ pc' = [pc EXCEPT ![w] = "idle"]
    /\ res' = [res EXCEPT ![w] = NewBuildInfo]
    /\ src' = [src EXCEPT ![w] = NoJob]
    /\ fresh' = fresh \ {w}
    /\ UNCHANGED <<jq, locked, disk, faults, crashes>>

-----------------------------------------------------------------------------
(* Build coalescing. *)

(* Where the owner of an ID is done with its directories. *)
AfterMove == {"link", "symlink", "delete"}

(* Mutant of Add: the JobQueue does not tell that the ID is taken. *)
AddAlways(w) ==
    /\ pc[w] = "add"
    /\ jq' = jq \cup {Id(w)}
    /\ Goto(w, "cache")
    /\ UNCHANGED <<poolVars, src, locked, disk, fresh, faults, crashes>>

(* JobQueue.Add: the first worker of an ID owns it, the others wait. *)
Add(w) ==
    /\ pc[w] = "add"
    /\ jq' = jq \cup {Id(w)}
    /\ Goto(w, IF Id(w) \in jq THEN "coalesce" ELSE "cache")
    /\ fresh' = IF \E v \in Workers : pc[v] \in AfterMove /\ Id(v) = Id(w)
                THEN fresh \cup {w} ELSE fresh
    /\ UNCHANGED <<poolVars, src, locked, disk, faults, crashes>>

(* A tick of the waiter's ticker.  As long as the ready path does not      *)
(* exist the loop goes round and nothing changes; the context is           *)
(* context.Background() and is never done.                                 *)
Coalesce(w) ==
    /\ pc[w] = "coalesce"
    /\ \/ ready[Id(w)] # NoDir /\ Works /\ Goto(w, "exitcode")
       \/ Fails("coalesce") /\ Error(w, "reply")
    /\ UNCHANGED <<poolVars, src, jq, locked, disk, fresh, crashes>>

(* ExitCode(j), after the stat: the directory may have gone meanwhile. *)
ExitCode(w) ==
    /\ pc[w] = "exitcode"
    /\ \/ /\ HasInfo(ready[Id(w)])
          /\ Works
          /\ pc' = [pc EXCEPT ![w] = "reply"]
          /\ res' = [res EXCEPT ![w].exit = ready[Id(w)].exit, ![w].kind = "coalesced"]
       \/ /\ ~HasInfo(ready[Id(w)])
          /\ Works
          /\ Error(w, "reply")
       \/ Fails("coalesce") /\ Error(w, "reply")
    /\ UNCHANGED <<poolVars, src, jq, locked, disk, fresh, crashes>>

-----------------------------------------------------------------------------
(* The result cache. *)

(* Mutants of LookUp: a success is removed like a failure; a failure is    *)
(* left in place when it is built again.                                   *)
LookUpRemoves(w) ==
    /\ pc[w] = "cache" /\ Works
    /\ Goto(w, IF ready[Id(w)] = NoDir THEN "project" ELSE "remove")
    /\ UNCHANGED <<poolVars, src, jq, locked, disk, fresh, crashes>>
LookUpKeeps(w) ==
    /\ pc[w] = "cache" /\ Works
    /\ Goto(w, "project")
    /\ UNCHANGED <<poolVars, src, jq, locked, disk, fresh, crashes>>

(* Stat of the ready path and ReadJobBuildInfo with its log. *)
LookUp(w) ==
    LET d == ready[Id(w)] IN
    /\ pc[w] = "cache"
    /\ \/ d = NoDir /\ Works /\ Goto(w, "project")
       \/ /\ HasInfoAndLog(d) /\ d.exit # ContainerSuccessExitCode
          /\ Works
          /\ Goto(w, "remove")
       \/ /\ HasInfoAndLog(d) /\ d.exit = ContainerSuccessExitCode
          /\ Works
          /\ pc' = [pc EXCEPT ![w] = "delete"]
          /\ res' = [res EXCEPT ![w].exit = d.exit, ![w].kind = "cached"]
       \/ d # NoDir /\ ~HasInfoAndLog(d) /\ Works /\ Error(w, "delete")
       \/ Fails("cache") /\ Error(w, "delete")
    /\ UNCHANGED <<poolVars, src, jq, locked, disk, fresh, crashes>>

(* os.RemoveAll of a failed build unlinks its files one by one ... *)
UnlinkFile(w) ==
    LET d == ready[Id(w)] IN
    /\ pc[w] = "remove"
    /\ \/ "info" \in d.files /\ SetReady(w, WithoutInfo(d))
       \/ "log" \in d.files /\ SetReady(w, WithoutLog(d))
    /\ UNCHANGED <<poolVars, pc, res, src, jq, locked, pending, latest, fresh, faults, crashes>>

(* ... and then the directory; or it stops with what is left of it. *)
Remove(w) ==
    /\ pc[w] = "remove"
    /\ \/ Works /\ SetReady(w, NoDir) /\ Goto(w, "project")
       \/ Fails("remove") /\ UNCHANGED ready /\ Error(w, "delete")
    /\ UNCHANGED <<poolVars, src, jq, locked, pending, latest, fresh, crashes>>

-----------------------------------------------------------------------------
(* The directories of the build. *)

(* The project's source directory must exist. *)
StatProject(w) ==
    /\ pc[w] = "project"
    /\ \/ Works /\ Goto(w, "bootstrap")
       \/ Fails("project") /\ Error(w, "delete")
    /\ UNCHANGED <<poolVars, src, jq, locked, disk, fresh, crashes>>

(* The project's build directories are made under the project's mutex. *)
BootstrapProject(w) ==
    /\ pc[w] = "bootstrap"
    /\ Project[Id(w)] \notin locked
    /\ \/ Works /\ Goto(w, "latest")
       \/ Fails("bootstrap") /\ Error(w, "delete")
    /\ UNCHANGED <<poolVars, src, jq, locked, disk, fresh, crashes>>

(* A job of a group is based on what the group's link leads to.  The link  *)
(* is read without the project's mutex.                                    *)
CloneSrcPath(w) ==
    LET base == latest[LatestBuildPath[Id(w)]] IN
    /\ pc[w] = "latest"
    /\ \/ /\ Works
          /\ src' = [src EXCEPT ![w] =
                       IF Group[Id(w)] # NoGroup /\ base # NoJob /\ ready[base] # NoDir
                       THEN base ELSE NoJob]
       \/ Fails("latest") /\ src' = [src EXCEPT ![w] = NoJob]
    /\ Goto(w, "builddir")
    /\ UNCHANGED <<poolVars, jq, locked, disk, fresh, crashes>>

(* fs.Clone copies into a leftover directory without an error. *)
Base(w) == IF src[w] = NoJob THEN EmptyDir ELSE ready[src[w]]

(* fs.Create fails on a leftover directory, fs.Clone does not.  An error   *)
(* in the middle leaves what was made of the directory.                    *)
BootstrapBuildDir(w) ==
    LET leftover == pending[Id(w)] # NoDir IN
    /\ pc[w] = "builddir"
    /\ \/ ~leftover /\ Works /\ SetPending(w, Base(w)) /\ Goto(w, "persist")
       \/ leftover /\ src[w] # NoJob /\ Works /\ UNCHANGED pending /\ Goto(w, "persist")
       \/ leftover /\ src[w] = NoJob /\ Works /\ UNCHANGED pending /\ Error(w, "delete")
       \/ /\ Fails("builddir")
          /\ \/ UNCHANGED pending
             \/ ~leftover /\ \E d \in {EmptyDir, Base(w)} : SetPending(w, d)
          /\ Error(w, "delete")
    /\ UNCHANGED <<poolVars, src, jq, locked, ready, latest, fresh, crashes>>

(* persistBuildInfo; a write that fails may have truncated the file. *)
Persist(w, op, next, onError) ==
    LET d == pending[Id(w)] IN
    \/ Works /\ SetPending(w, WithInfo(d, res[w].exit, res[w].err)) /\ Goto(w, next)
    \/ /\ Fails(op)
       /\ UNCHANGED pending \/ SetPending(w, WithoutInfo(d))
       /\ Error(w, onError)

(* The first persistBuildInfo, before the deferred functions are set up. *)
PersistPending(w) ==
    /\ pc[w] = "persist"
    /\ Persist(w, "persist", "params", "delete")
    /\ UNCHANGED <<poolVars, src, jq, locked, ready, latest, fresh, crashes>>

(* Mutant of WriteParams: the output is only kept in memory. *)
WriteParamsOnly(w) ==
    /\ pc[w] = "params" /\ Works
    /\ Goto(w, "image")
    /\ UNCHANGED <<poolVars, src, jq, locked, disk, fresh, crashes>>

(* Every return from here on runs the deferred close, persist and move.    *)
(* The parameters are written, the log is created or truncated.            *)
WriteParams(w) ==
    /\ pc[w] = "params"
    /\ \/ Works /\ SetPending(w, WithLog(pending[Id(w)])) /\ Goto(w, "image")
       \/ Fails("params") /\ UNCHANGED pending /\ Error(w, "final")
    /\ UNCHANGED <<poolVars, src, jq, locked, ready, latest, fresh, crashes>>

-----------------------------------------------------------------------------
(* The container. *)

(* The docker client and BuildImage. *)
BuildImage(w) ==
    /\ pc[w] = "image"
    /\ \/ Works /\ Goto(w, "container")
       \/ Fails("image") /\ Error(w, "close")
    /\ UNCHANGED <<poolVars, src, jq, locked, disk, fresh, crashes>>

(* Mutant of StartContainer: an error is returned with the exit code -1. *)
StartContainerMinusOne(w) ==
    /\ pc[w] = "container"
    /\ Fails("container")
    /\ res' = [res EXCEPT ![w].exit = -1, ![w].err = TRUE]
    /\ pc' = [pc EXCEPT ![w] = "close"]
    /\ UNCHANGED <<poolVars, src, jq, locked, disk, fresh, crashes>>

(* StartContainer blocks until the container exits.  With an error it      *)
(* returns the exit code 0.                                                *)
StartContainer(w) ==
    /\ pc[w] = "container"
    /\ \/ /\ Works
          /\ \E e \in ContainerExits : res' = [res EXCEPT ![w].exit = e]
          /\ pc' = [pc EXCEPT ![w] = "logs"]
       \/ /\ Fails("container")
          /\ res' = [res EXCEPT ![w].exit = 0, ![w].err = TRUE]
          /\ pc' = [pc EXCEPT ![w] = "close"]
    /\ UNCHANGED <<poolVars, src, jq, locked, disk, fresh, crashes>>

(* The log is flushed and read back. *)
ReadJobLogs(w) ==
    /\ pc[w] = "logs"
    /\ \/ Works /\ Goto(w, "close")
       \/ Fails("logs") /\ Error(w, "close")
    /\ UNCHANGED <<poolVars, src, jq, locked, disk, fresh, crashes>>

-----------------------------------------------------------------------------
(* The deferred functions of Work, in the order they run. *)

(* The docker client and the log file are closed. *)
Close(w) ==
    /\ pc[w] = "close"
    /\ \/ Works /\ Goto(w, "final")
       \/ Fails("close") /\ Error(w, "final")
    /\ UNCHANGED <<poolVars, src, jq, locked, disk, fresh, crashes>>

(* ErrBuild is filled in and the build info persisted one last time. *)
PersistFinal(w) ==
    /\ pc[w] = "final"
    /\ Persist(w, "final", "rename", "rename")
    /\ UNCHANGED <<poolVars, src, jq, locked, ready, latest, fresh, crashes>>

(* The waiters of an ID. *)
Waiting(i) == {v \in Workers : pc[v] \in {"coalesce", "exitcode"} /\ Id(v) = i}

(* Mutants of Rename, by the program points that follow a build with and   *)
(* one without exit code 0: any build is linked; none is.  In the last one *)
(* a failed build is not moved at all.                                     *)
RenameTo(w, onSuccess, onFailure) ==
    /\ pc[w] = "rename" /\ ready[Id(w)] = NoDir /\ Works
    /\ SetReady(w, pending[Id(w)]) /\ SetPending(w, NoDir)
    /\ fresh' = fresh \cup Waiting(Id(w))
    /\ Goto(w, IF res[w].exit = ContainerSuccessExitCode THEN onSuccess ELSE onFailure)
    /\ UNCHANGED <<poolVars, src, jq, locked, latest, crashes>>
RenameLinksFailure(w) == RenameTo(w, "link", "link")
RenameLinksNothing(w) == RenameTo(w, "delete", "delete")
RenameSuccessOnly(w) ==
    \/ ~res[w].err /\ res[w].exit = ContainerSuccessExitCode /\ RenameTo(w, "link", "delete")
    \/ /\ pc[w] = "rename" /\ (res[w].err \/ res[w].exit # ContainerSuccessExitCode)
       /\ SetPending(w, NoDir) /\ Goto(w, "delete")
       /\ UNCHANGED <<poolVars, src, jq, locked, ready, latest, fresh, faults, crashes>>

(* os.Rename from pending to ready, which fails if the target is a         *)
(* directory with content.  Only a build without any error and with exit   *)
(* code 0 goes on to the link.                                             *)
Rename(w) ==
    /\ pc[w] = "rename"
    /\ \/ /\ ready[Id(w)] = NoDir
          /\ Works
          /\ SetReady(w, pending[Id(w)])
          /\ SetPending(w, NoDir)
          /\ fresh' = fresh \cup Waiting(Id(w))
          /\ Goto(w, IF ~res[w].err /\ res[w].exit = ContainerSuccessExitCode
                     THEN "link" ELSE "delete")
       \/ /\ (ready[Id(w)] # NoDir /\ Works) \/ Fails("rename")
          /\ UNCHANGED <<pending, ready, fresh>>
          /\ Error(w, "delete")
    /\ UNCHANGED <<poolVars, src, jq, locked, latest, crashes>>

(* The project's mutex is taken and the old link removed. *)
RemoveLink(w) ==
    LET l == LatestBuildPath[Id(w)] IN
    /\ pc[w] = "link"
    /\ Project[Id(w)] \notin locked
    /\ \/ /\ Works
          /\ locked' = locked \cup {Project[Id(w)]}
          /\ latest' = [latest EXCEPT ![l] = NoJob]
          /\ Goto(w, "symlink")
       \/ Fails("unlink") /\ UNCHANGED <<locked, latest>> /\ Error(w, "delete")
    /\ UNCHANGED <<poolVars, src, jq, pending, ready, fresh, crashes>>

(* The new link is made, unless a file of that name exists, and the mutex  *)
(* released.                                                               *)
Symlink(w) ==
    LET l == LatestBuildPath[Id(w)] IN
    /\ pc[w] = "symlink"
    /\ \/ /\ latest[l] = NoJob
          /\ Works
          /\ latest' = [latest EXCEPT ![l] = Id(w)]
          /\ Goto(w, "delete")
       \/ /\ (latest[l] # NoJob /\ Works) \/ Fails("symlink")
          /\ UNCHANGED latest
          /\ Error(w, "delete")
    /\ locked' = locked \ {Project[Id(w)]}
    /\ UNCHANGED <<poolVars, src, jq, pending, ready, fresh, crashes>>

(* Mutant of Delete: the ID stays in the JobQueue. *)
DeleteNothing(w) ==
    /\ pc[w] = "delete"
    /\ Goto(w, "reply")
    /\ UNCHANGED <<poolVars, src, jq, locked, disk, fresh, faults, crashes>>

(* JobQueue.Delete, the last deferred call of an owner. *)
Delete(w) ==
    /\ pc[w] = "delete"
    /\ jq' = jq \ {Id(w)}
    /\ Goto(w, "reply")
    /\ UNCHANGED <<poolVars, src, locked, disk, fresh, faults, crashes>>

-----------------------------------------------------------------------------
(* The process. *)

(* Nothing but the disk survives the death of the process. *)
Crash ==
    /\ crashes < MaxCrashes
    /\ crashes' = crashes + 1
    /\ PoolCrash
    /\ pc' = [w \in Workers |-> "idle"]
    /\ res' = [w \in Workers |-> NewBuildInfo]
    /\ src' = [w \in Workers |-> NoJob]
    /\ jq' = {}
    /\ locked' = {}
    /\ fresh' = {}
    /\ UNCHANGED <<disk, faults>>

(* PruneZombieBuilds removes the pending builds one by one. *)
Prune(i) ==
    /\ server = "down"
    /\ pending[i] # NoDir
    /\ pending' = [pending EXCEPT ![i] = NoDir]
    /\ UNCHANGED <<poolVars, pc, res, src, jq, locked, ready, latest, fresh, faults, crashes>>

(* Mutant of StartServer: it does not wait for PruneZombieBuilds. *)
StartServerUnpruned ==
    /\ NewWorkerPool /\ Works
    /\ UNCHANGED <<pc, res, src, jq, locked, disk, fresh, crashes>>

(* The server starts when SetUp is through.  A failed removal ends the     *)
(* process; a pending/ that cannot be listed is skipped.                   *)
StartServer ==
    /\ NewWorkerPool
    /\ \/ (\A i \in JobIDs : pending[i] = NoDir) /\ Works
       \/ Fails("prune")
    /\ UNCHANGED <<pc, res, src, jq, locked, disk, fresh, crashes>>

-----------------------------------------------------------------------------
(* The steps of Work. *)
Work(w) ==
    \/ Add(w) \/ Coalesce(w) \/ ExitCode(w)
    \/ LookUp(w) \/ UnlinkFile(w) \/ Remove(w)
    \/ StatProject(w) \/ BootstrapProject(w) \/ CloneSrcPath(w)
    \/ BootstrapBuildDir(w) \/ PersistPending(w) \/ WriteParams(w)
    \/ BuildImage(w) \/ StartContainer(w) \/ ReadJobLogs(w)
    \/ Close(w) \/ PersistFinal(w) \/ Rename(w) \/ RemoveLink(w) \/ Symlink(w)
    \/ Delete(w)

WorkerStep(w) == StartWork(w) \/ Work(w) \/ FinishWork(w)

Next ==
    \/ \E r \in Requests : Handle(r)
    \/ \E w \in Workers : WorkerStep(w)
    \/ \E i \in JobIDs : Prune(i)
    \/ Crash
    \/ StartServer

Spec == Init /\ [][Next]_vars

(***************************************************************************)
(* Goroutines are scheduled, so a worker that can take a step does, and a  *)
(* handler whose channel holds a result reads it.  Taking a step as soon   *)
(* as it can be taken includes that docker answers and that containers     *)
(* exit.  Nothing forces requests, faults or crashes to happen, nor a dead *)
(* process to be started again.                                            *)
(***************************************************************************)
Fairness ==
    /\ \A w \in Workers : WF_vars(Works /\ WorkerStep(w))
    /\ \A r \in Requests : WF_vars(Wait(r) /\ Handle(r))

FairSpec == Spec /\ Fairness

-----------------------------------------------------------------------------
(* The program points of an owner, from JobQueue.Add to JobQueue.Delete. *)
BuildPoints ==
    {"remove", "project", "bootstrap", "latest", "builddir", "persist", "params",
     "image", "container", "logs", "close", "final", "rename"}
OwnerPoints == BuildPoints \cup {"cache", "link", "symlink", "delete"}
Points == OwnerPoints \cup {"idle", "add", "coalesce", "exitcode", "reply"}

(* Every variable holds a value of the type the code gives it. *)
TypeOK ==
    /\ PoolTypeOK
    /\ pc \in [Workers -> Points]
    /\ res \in [Workers -> BuildInfo]
    /\ src \in [Workers -> JobIDs \cup {NoJob}]
    /\ jq \subseteq JobIDs
    /\ locked \subseteq Projects
    /\ pending \in [JobIDs -> Dir \cup {NoDir}]
    /\ ready \in [JobIDs -> Dir \cup {NoDir}]
    /\ latest \in [LatestPaths -> JobIDs \cup {NoJob}]
    /\ fresh \subseteq Workers
    /\ faults \in Nat
    /\ crashes \in Nat

Owns(w, i) == pc[w] \in OwnerPoints /\ Id(w) = i

(* A directory that the result cache serves as a success. *)
Succeeded(d) == HasInfo(d) /\ d.exit = ContainerSuccessExitCode

(* Two workers are never at once in the part of Work that reads and writes *)
(* the directories of one job ID (worker.go:80-174), whatever fails.       *)
BuildExclusion ==
    \A v, w \in Workers :
        pc[v] \in OwnerPoints /\ pc[w] \in OwnerPoints /\ Id(v) = Id(w) => v = w

(* However many waiters are left without an owner (worker.go:48-77 has no  *)
(* way out but the ready path), one worker of the pool at least is not     *)
(* coalescing: identical requests alone cannot seize up the server.        *)
SomeoneCanWork == \E w \in Workers : pc[w] # "coalesce"

(* A 'latest' link leads to a complete, successful build of its own        *)
(* project and group (worker.go:88, "we only symlink successful builds"):  *)
(* crashes and failing calls cannot leave it dangling.                     *)
LatestIsSuccessful ==
    \A l \in LatestPaths : latest[l] # NoJob =>
        /\ Succeeded(ready[latest[l]]) /\ HasInfoAndLog(ready[latest[l]])
        /\ ~ready[latest[l]].err
        /\ LatestBuildPath[latest[l]] = l

(* A client told of exit code 0 finds the artifacts: the ready directory   *)
(* of the job is there when the answer is sent and ever after              *)
(* (server.go:151; the client fetches BuildInfo.Path afterwards).          *)
AnswerHasArtifacts ==
    \A r \in Requests :
        answer[r] # NoResult /\ ~answer[r].err /\ answer[r].exit = ContainerSuccessExitCode
            => Succeeded(ready[Job[r]])

(* What an incremental build is about to copy is a complete success,       *)
(* although CloneSrcPath reads the link without the project's mutex and    *)
(* the link may have moved since (job.go:361-366).                         *)
CloneSourceIntact ==
    \A w \in Workers : pc[w] = "builddir" /\ src[w] # NoJob =>
        /\ src[w] # Id(w)
        /\ Succeeded(ready[src[w]]) /\ HasInfoAndLog(ready[src[w]])

(* The two renaming calls of the deferred function find what they need:    *)
(* the pending directory is there and the ready path free at os.Rename     *)
(* (worker.go:138), no link exists at os.Symlink (worker.go:169).          *)
MovesNeverCollide ==
    \A w \in Workers :
        /\ pc[w] = "rename" => pending[Id(w)] # NoDir /\ ready[Id(w)] = NoDir
        /\ pc[w] = "symlink" => latest[LatestBuildPath[Id(w)]] = NoJob

(* Once a build of a project and group has been answered as built, the     *)
(* link exists, but for the moment in which another worker replaces it,    *)
(* unless a call failed or the process died (worker.go:150-172).           *)
LinkIsKept ==
    faults = 0 /\ crashes = 0 =>
        \A i \in JobIDs :
            Succeeded(ready[i]) /\ i \notin jq =>
                \/ latest[LatestBuildPath[i]] # NoJob
                \/ \E w \in Workers : pc[w] = "symlink"
                                      /\ LatestBuildPath[Id(w)] = LatestBuildPath[i]

(* While the server runs, a pending directory belongs to a running build,  *)
(* whenever an earlier process died (job.go:356, "Cleans the pending       *)
(* directory if there were any errors", server.go:500-514).  It takes a    *)
(* failing call to leave one behind: BootstrapBuildDir does not clean up.  *)
PendingIsOwned ==
    server = "up" /\ faults = 0 => \A i \in JobIDs : pending[i] # NoDir => i \in jq

(* A failed build is restarted by the next request for it: the lookup      *)
(* never meets a directory it can neither serve nor remove (worker.go:87,  *)
(* "remove its build dir to restart it"), although builds are removed file *)
(* by file.  It takes a failing call, which publishes a build without a    *)
(* log, or a death in the middle of a removal to leave such a directory.   *)
FailedBuildIsRestarted ==
    [][\A w \in Workers :
         pc[w] = "cache" /\ faults' = 0 /\ crashes' = 0 => ~res'[w].err]_vars

(* A successful result is never removed, replaced or changed               *)
(* (worker.go:94): only failed builds are removed and built again.         *)
SuccessIsPermanent ==
    [][\A i \in JobIDs : Succeeded(ready[i]) => ready'[i] = ready[i]]_vars

(* A waiter that nobody will answer: the owner of its ID has given up and  *)
(* left nothing at the ready path.                                         *)
Orphaned(r) ==
    \E w \in Workers : /\ pc[w] = "coalesce" /\ current[w] = r
                       /\ Id(w) \notin jq /\ ready[Id(w)] = NoDir

(* A handler that waits is answered, or the process dies (README.md:127,   *)
(* "will block until the build is complete").  It takes a failing call     *)
(* that ends the owner before it has published anything to leave a waiter  *)
(* behind, as its loop has no other way out (worker.go:48-77).             *)
WaitingIsAnswered ==
    \A r \in Requests :
        status[r] = "waiting" ~>
            status[r] \in {"answered", "lost"} \/ (faults > 0 /\ Orphaned(r))

(* The job queue entry is given up: no ID stays reserved (worker.go:43).   *)
OwnershipEnds == \A i \in JobIDs : i \in jq ~> i \notin jq

-----------------------------------------------------------------------------
(* What the comments and documents of the repository say, and the code     *)
(* does not do.                                                            *)

(* An answer with exit code 0 and no error is of a build that had no error *)
(* (worker.go:94, "if a successful result already exists, use that").      *)
SuccessMeansNoError ==
    \A r \in Requests :
        answer[r] # NoResult /\ ~answer[r].err /\ answer[r].exit = ContainerSuccessExitCode
            => ~ready[Job[r]].err

(* A failure reported as coalesced is that of the build the request waited *)
(* for (build_info.go:30, "returned from another pending build").          *)
CoalescedIsFresh ==
    [][\A w \in Workers :
         /\ pc[w] = "exitcode" /\ res'[w].kind = "coalesced"
         /\ res'[w].exit # ContainerSuccessExitCode
         => w \in fresh]_vars

-----------------------------------------------------------------------------
(***************************************************************************)
(* The build directory as a BuildStore: an ID is done when the cache would *)
(* serve it, failed when its ready path holds anything else, and building  *)
(* while its owner is past the cache and before the move.                  *)
(***************************************************************************)
StoreState(d) ==
    IF d = NoDir THEN "absent" ELSE IF Succeeded(d) THEN "done" ELSE "failed"

Store == INSTANCE BuildStore
    WITH Ids <- JobIDs, Links <- LatestPaths, LinkOf <- LatestBuildPath, Nothing <- NoJob,
         store <- [i \in JobIDs |-> StoreState(ready[i])],
         building <- {i \in JobIDs : \E w \in Workers : pc[w] \in BuildPoints /\ Id(w) = i},
         link <- latest

(* No build runs for an ID whose result the cache would serve              *)
(* (worker.go:94-105).                                                     *)
SuccessIsNotRebuilt == Store!DoneIsNotBuilt

(* The server implements the abstract store. *)
ImplementsStore == Store!StoreSpec

=============================================================================
