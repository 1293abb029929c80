------------------------------- MODULE Docker -------------------------------
(***************************************************************************)
(* The docker side of a build (cmd/mistryd/job.go: BuildImage,             *)
(* StartContainer, renameIfExists) and the rebuild command, a second       *)
(* process that works on the same docker daemon (cmd/mistryd/server.go:    *)
(* RebuildImages, dockerPruneUnused).                                      *)
(*                                                                         *)
(* The daemon outlives the server: containers go on running when the       *)
(* server dies.  One worker at a time works on a job (module Server,       *)
(* BuildExclusion).  All jobs of a project use one image tag; a container  *)
(* is named after its job.  Containers are numbered in the order of their  *)
(* creation, which the daemon lists newest first.                          *)
(***************************************************************************)
EXTENDS Integers

CONSTANTS
    Jobs,            \* job IDs
    ProjectOf,       \* the project of a job
    VersionOf,       \* the version of the project's files in the job's ImageTar
    RebuildVersion,  \* per project: the version the rebuild command finds
    ExitCodes,       \* exit codes of container commands
    FaultPoints,     \* the docker calls that may fail
    MaxContainers,   \* bound: containers ever created
    MaxFaults,       \* bound: calls that fail
    MaxCrashes,      \* bound: deaths of the server
    MaxRebuilds,     \* bound: uses of the rebuild command
    NoJob,           \* the job of a container that was never created
    NoImage,         \* a tag that does not exist
    NoCode           \* the job has no exit code

Projects == {ProjectOf[j] : j \in Jobs}
Versions == {VersionOf[j] : j \in Jobs} \cup {RebuildVersion[p] : p \in Projects}
Containers == 1..MaxContainers

ASSUME DockerConstants ==
    /\ DOMAIN ProjectOf = Jobs /\ DOMAIN VersionOf = Jobs
    /\ Projects \subseteq DOMAIN RebuildVersion
    /\ 0 \in ExitCodes /\ NoCode \notin ExitCodes
    /\ NoImage \notin Versions /\ NoJob \notin Jobs
    /\ {MaxContainers, MaxFaults, MaxCrashes, MaxRebuilds} \subseteq Nat

VARIABLES
    at,        \* per job: where BuildImage or StartContainer is
    mine,      \* per job: the container of its last StartContainer, or 0
    matches,   \* per job: the containers renameIfExists has yet to rename
    cut,       \* history: the jobs of whose present renameIfExists a docker call failed
    result,    \* per job: what was last returned, an exit code and an error flag
    tag,       \* per project: the version its image tag leads to
    images,    \* the versions there is an image of
    state,     \* per container: "none", "created", "running", "exited", "gone"
    job,       \* per container: the job it was created for
    named,     \* the containers that have their job's name
    image,     \* per container: the version of its image
    code,      \* per container: the exit code of its command
    rebuild,   \* where the rebuild command is
    left,      \* the projects it has yet to build
    used       \* how often a call failed, the server died, it was rebuilt

workVars == <<at, mine, matches, cut, result>>
imageVars == <<tag, images>>
contVars == <<state, job, named, image, code>>
rebuildVars == <<rebuild, left>>
dockerVars == <<workVars, imageVars, contVars, rebuildVars, used>>

Present(n) == state[n] \in {"created", "running", "exited"}
OfJob(j) == {n \in Containers : Present(n) /\ job[n] = j}

(* A BuildInfo as NewBuildInfo makes it: nothing has been returned yet. *)
NoResult == [code |-> NoCode, err |-> FALSE]

DockerInit ==
    /\ at = [j \in Jobs |-> "idle"]
    /\ mine = [j \in Jobs |-> 0]
    /\ matches = [j \in Jobs |-> {}]
    /\ cut = {}
    /\ result = [j \in Jobs |-> NoResult]
    /\ tag = [p \in Projects |-> NoImage]
    /\ images = {}
    /\ state = [n \in Containers |-> "none"]
    /\ job = [n \in Containers |-> NoJob]
    /\ named = {}
    /\ image = [n \in Containers |-> NoImage]
    /\ code = [n \in Containers |-> NoCode]
    /\ rebuild = "idle" /\ left = {}
    /\ used = [faults |-> 0, crashes |-> 0, rebuilds |-> 0]

(* A docker call at point f fails. *)
Fails(f) ==
    /\ f \in FaultPoints
    /\ used.faults < MaxFaults
    /\ used' = [used EXCEPT !.faults = @ + 1]

Goto(j, p) == at' = [at EXCEPT ![j] = p]
(* BuildImage or StartContainer returns an error; the exit code is then 0  *)
(* if StartContainer does.                                                 *)
Error(j, c) == result' = [result EXCEPT ![j] = [code |-> c, err |-> TRUE]]

-----------------------------------------------------------------------------
(* BuildImage: the daemon builds the image and moves the project's tag to  *)
(* it.  Work gets here unless the cache has a result with exit code 0.     *)
BuildImage(j) ==
    /\ at[j] = "idle"
    /\ result[j].code # 0
    /\ \E n \in Containers : state[n] = "none"
    /\ mine' = [mine EXCEPT ![j] = 0]
    /\ \/ /\ images' = images \cup {VersionOf[j]}
          /\ tag' = [tag EXCEPT ![ProjectOf[j]] = VersionOf[j]]
          /\ Goto(j, "inspectImage")
          /\ result' = [result EXCEPT ![j] = NoResult]
          /\ UNCHANGED used
       \/ /\ Fails("image")
          /\ Error(j, NoCode)
          /\ UNCHANGED <<at, imageVars>>
    /\ UNCHANGED <<matches, cut, contVars, rebuildVars>>

(* ImageInspectWithRaw, the last check of BuildImage. *)
InspectImage(j) ==
    /\ at[j] = "inspectImage"
    /\ \/ tag[ProjectOf[j]] \in images /\ Goto(j, "list") /\ UNCHANGED <<result, used>>
       \/ /\ (tag[ProjectOf[j]] \notin images /\ UNCHANGED used) \/ Fails("image")
          /\ Goto(j, "idle") /\ Error(j, NoCode)
    /\ UNCHANGED <<mine, matches, cut, imageVars, contVars, rebuildVars>>

(* renameIfExists lists the containers, running or not, whose name         *)
(* contains the job's name: those renamed earlier contain it too.  An      *)
(* error is overwritten by the ContainerCreate that follows.               *)
ListContainers(j) ==
    /\ at[j] = "list"
    /\ \/ /\ matches' = [matches EXCEPT ![j] = OfJob(j)]
          /\ Goto(j, "rename")
          /\ cut' = cut \ {j} /\ UNCHANGED used
       \/ /\ Fails("list") /\ cut' = cut \cup {j}
          /\ Goto(j, "create") /\ UNCHANGED matches
    /\ UNCHANGED <<mine, result, imageVars, contVars, rebuildVars>>

(* Mutant of Newest: the oldest container comes first. *)
Oldest(n, S) == n \in S /\ \A m \in S : n <= m

Newest(n, S) == n \in S /\ \A m \in S : m <= n

(* It renames them newest first and stops at the first that cannot be, for *)
(* instance because it has been pruned since.                              *)
Rename(j) ==
    /\ at[j] = "rename"
    /\ \/ matches[j] = {} /\ Goto(j, "create") /\ UNCHANGED <<matches, cut, named, used>>
       \/ \E n \in Containers :
          /\ Newest(n, matches[j]) /\ Present(n)
          /\ named' = named \ {n}
          /\ matches' = [matches EXCEPT ![j] = @ \ {n}]
          /\ UNCHANGED <<at, cut, used>>
       \/ \E n \in Containers :
          /\ Newest(n, matches[j])
          /\ (~Present(n) /\ UNCHANGED <<cut, used>>) \/ (Fails("rename") /\ cut' = cut \cup {j})
          /\ Goto(j, "create")
          /\ matches' = [matches EXCEPT ![j] = {}]
          /\ UNCHANGED named
    /\ UNCHANGED <<mine, result, imageVars, state, job, image, code, rebuildVars>>

Creatable(j) == OfJob(j) \cap named = {} /\ tag[ProjectOf[j]] \in images
NextFree(n) == state[n] = "none" /\ \A m \in Containers : m < n => state[m] # "none"

(* ContainerCreate, by the tag: the name must be free, the image there. *)
CreateContainer(j) ==
    /\ at[j] = "create"
    /\ \/ \E n \in Containers :
          /\ Creatable(j) /\ NextFree(n)
          /\ state' = [state EXCEPT ![n] = "created"]
          /\ job' = [job EXCEPT ![n] = j]
          /\ named' = named \cup {n}
          /\ image' = [image EXCEPT ![n] = tag[ProjectOf[j]]]
          /\ mine' = [mine EXCEPT ![j] = n]
          /\ Goto(j, "start")
          /\ UNCHANGED <<result, used>>
       \/ /\ (~Creatable(j) /\ UNCHANGED used) \/ Fails("create")
          /\ Error(j, 0) /\ Goto(j, "idle")
          /\ UNCHANGED <<mine, state, job, named, image>>
    /\ UNCHANGED <<matches, cut, imageVars, code, rebuildVars>>

(* ContainerStart.  The removal is deferred only after it: a container     *)
(* that could not be started stays.                                        *)
StartContainer(j) ==
    /\ at[j] = "start"
    /\ \/ /\ Present(mine[j])
          /\ state' = [state EXCEPT ![mine[j]] = "running"]
          /\ Goto(j, "logs")
          /\ UNCHANGED <<result, used>>
       \/ /\ (~Present(mine[j]) /\ UNCHANGED used) \/ Fails("start")
          /\ Error(j, 0) /\ Goto(j, "idle")
          /\ UNCHANGED state
    /\ UNCHANGED <<mine, matches, cut, imageVars, job, named, image, code, rebuildVars>>

(* ContainerLogs attaches to the container's output. *)
AttachLogs(j) ==
    /\ at[j] = "logs"
    /\ \/ Present(mine[j]) /\ Goto(j, "copy") /\ UNCHANGED <<result, used>>
       \/ /\ (~Present(mine[j]) /\ UNCHANGED used) \/ Fails("logs")
          /\ Error(j, 0) /\ Goto(j, "remove")
    /\ UNCHANGED <<mine, matches, cut, imageVars, contVars, rebuildVars>>

(* Mutant of CopyLogs: the output is not followed. *)
CopyLogsSoFar(j) ==
    /\ at[j] = "copy"
    /\ Goto(j, "inspect")
    /\ UNCHANGED <<mine, matches, cut, result, imageVars, contVars, rebuildVars, used>>

(* StdCopy follows the output to its end, which is when the container ends. *)
CopyLogs(j) ==
    /\ at[j] = "copy"
    /\ \/ state[mine[j]] # "running" /\ Goto(j, "inspect") /\ UNCHANGED <<result, used>>
       \/ Fails("copy") /\ Error(j, 0) /\ Goto(j, "remove")
    /\ UNCHANGED <<mine, matches, cut, imageVars, contVars, rebuildVars>>

(* Mutant of InspectContainer: any container of the job is inspected. *)
InspectAny(j) ==
    /\ at[j] = "inspect"
    /\ \E n \in Containers : job[n] = j /\ state[n] # "none"
         /\ result' = [result EXCEPT ![j] = [code |-> code[n], err |-> FALSE]]
    /\ Goto(j, "remove")
    /\ UNCHANGED <<mine, matches, cut, imageVars, contVars, rebuildVars, used>>

(* ContainerInspectWithRaw, by the container's own ID. *)
InspectContainer(j) ==
    /\ at[j] = "inspect"
    /\ \/ /\ Present(mine[j])
          /\ result' = [result EXCEPT ![j] = [code |-> code[mine[j]], err |-> FALSE]]
          /\ UNCHANGED used
       \/ ((~Present(mine[j]) /\ UNCHANGED used) \/ Fails("inspect")) /\ Error(j, 0)
    /\ Goto(j, "remove")
    /\ UNCHANGED <<mine, matches, cut, imageVars, contVars, rebuildVars>>

(* The deferred ContainerRemove, without force: it fails on a running      *)
(* container.  Its error is only logged.                                   *)
RemoveContainer(j) ==
    /\ at[j] = "remove"
    /\ \/ /\ state[mine[j]] = "exited"
          /\ state' = [state EXCEPT ![mine[j]] = "gone"]
          /\ UNCHANGED used
       \/ ((state[mine[j]] # "exited" /\ UNCHANGED used) \/ Fails("remove")) /\ UNCHANGED state
    /\ Goto(j, "idle")
    /\ UNCHANGED <<mine, matches, cut, result, imageVars, job, named, image, code, rebuildVars>>

(* The command of a container ends. *)
ContainerExits(n) ==
    /\ state[n] = "running"
    /\ state' = [state EXCEPT ![n] = "exited"]
    /\ \E c \in ExitCodes : code' = [code EXCEPT ![n] = c]
    /\ UNCHANGED <<workVars, imageVars, job, named, image, rebuildVars, used>>

(* The server dies; the daemon and its containers do not.  A result of its *)
(* lifetime is lost unless the build had been published by then.           *)
Crash ==
    /\ used.crashes < MaxCrashes
    /\ used' = [used EXCEPT !.crashes = @ + 1]
    /\ at' = [j \in Jobs |-> "idle"]
    /\ mine' = [j \in Jobs |-> 0]
    /\ matches' = [j \in Jobs |-> {}]
    /\ cut' = {}
    /\ \E lost \in SUBSET {j \in Jobs : at[j] = "idle" /\ mine[j] # 0} :
          result' = [j \in Jobs |->
                       IF at[j] # "idle" \/ j \in lost THEN NoResult ELSE result[j]]
    /\ UNCHANGED <<imageVars, contVars, rebuildVars>>

-----------------------------------------------------------------------------
(* The rebuild command: RebuildImages, of the projects it is given or of   *)
(* all that have a Dockerfile.                                             *)
Rebuild ==
    /\ rebuild = "idle"
    /\ used.rebuilds < MaxRebuilds
    /\ used' = [used EXCEPT !.rebuilds = @ + 1]
    /\ rebuild' = "build" /\ left' \in SUBSET Projects
    /\ UNCHANGED <<workVars, imageVars, contVars>>

(* A project whose image cannot be built ends a --fail-fast rebuild, and   *)
(* is passed over otherwise.                                               *)
RebuildImage(p) ==
    /\ rebuild = "build"
    /\ p \in left
    /\ left' = left \ {p}
    /\ \/ /\ images' = images \cup {RebuildVersion[p]}
          /\ tag' = [tag EXCEPT ![p] = RebuildVersion[p]]
          /\ UNCHANGED <<rebuild, used>>
       \/ /\ Fails("rebuild")
          /\ rebuild' \in {rebuild, "idle"}
          /\ UNCHANGED imageVars
    /\ UNCHANGED <<workVars, contVars>>

(* dockerPruneUnused: ContainersPrune removes every container that does    *)
(* not run, whoever made it, *)
PruneContainers ==
    /\ rebuild = "build" /\ left = {}
    /\ \/ /\ state' = [n \in Containers |->
                        IF state[n] \in {"created", "exited"} THEN "gone" ELSE state[n]]
          /\ rebuild' = "pruneImages"
          /\ UNCHANGED used
       \/ Fails("prune") /\ rebuild' = "idle" /\ UNCHANGED state
    /\ UNCHANGED <<workVars, imageVars, job, named, image, code, left>>

InUse == {image[n] : n \in {c \in Containers : Present(c)}}
Tagged == {tag[p] : p \in Projects}

(* Mutant of PruneImages: images no container uses are removed, tagged or not. *)
PruneUnused ==
    /\ rebuild = "pruneImages"
    /\ images' = images \cap InUse
    /\ rebuild' = "idle"
    /\ UNCHANGED <<workVars, tag, contVars, left, used>>

(* and ImagesPrune without filters every dangling image: without a tag and *)
(* without a container.                                                    *)
PruneImages ==
    /\ rebuild = "pruneImages"
    /\ \/ images' = images \cap (InUse \cup Tagged) /\ UNCHANGED used
       \/ Fails("prune") /\ UNCHANGED images
    /\ rebuild' = "idle"
    /\ UNCHANGED <<workVars, tag, contVars, left>>

-----------------------------------------------------------------------------
DockerNext ==
    \/ \E j \in Jobs :
        \/ BuildImage(j) \/ InspectImage(j) \/ ListContainers(j) \/ Rename(j)
        \/ CreateContainer(j) \/ StartContainer(j) \/ AttachLogs(j) \/ CopyLogs(j)
        \/ InspectContainer(j) \/ RemoveContainer(j)
    \/ \E n \in Containers : ContainerExits(n)
    \/ Crash
    \/ Rebuild \/ PruneContainers \/ PruneImages
    \/ \E p \in Projects : RebuildImage(p)

DockerSpec == DockerInit /\ [][DockerNext]_dockerVars

-----------------------------------------------------------------------------
Points == {"idle", "inspectImage", "list", "rename", "create", "start", "logs",
           "copy", "inspect", "remove"}

(* Every variable holds a value of its type. *)
DockerTypeOK ==
    /\ at \in [Jobs -> Points]
    /\ mine \in [Jobs -> Containers \cup {0}]
    /\ \A j \in Jobs : at[j] \in {"start", "logs", "copy", "inspect", "remove"} =>
                         mine[j] \in Containers
    /\ matches \in [Jobs -> SUBSET Containers]
    /\ cut \subseteq Jobs
    /\ result \in [Jobs -> [code : ExitCodes \cup {NoCode}, err : BOOLEAN]]
    /\ tag \in [Projects -> Versions \cup {NoImage}]
    /\ images \subseteq Versions
    /\ state \in [Containers -> {"none", "created", "running", "exited", "gone"}]
    /\ job \in [Containers -> Jobs \cup {NoJob}]
    /\ named \subseteq Containers
    /\ image \in [Containers -> Versions \cup {NoImage}]
    /\ code \in [Containers -> ExitCodes \cup {NoCode}]
    /\ rebuild \in {"idle", "build", "pruneImages"}
    /\ left \subseteq Projects
    /\ used \in [faults : 0..MaxFaults, crashes : 0..MaxCrashes, rebuilds : 0..MaxRebuilds]

(* Containers left by a server that died, by a failed start or by a failed *)
(* removal never keep a job from being built: the name is free by the time *)
(* the container is created, although containers are pruned while they are *)
(* renamed and renaming stops at a pruned one (job.go:192-193, 244-263).   *)
(* Only an error of the daemon while this very call lists or renames may   *)
(* leave the name taken, and then the next call has another try.           *)
LeftoversDoNotBlock ==
    \A j \in Jobs : at[j] = "create" /\ j \notin cut => OfJob(j) \cap named = {}

(* Once BuildImage has returned, the tag leads to an image until the       *)
(* container is created from it, whatever the rebuild command prunes in    *)
(* between; and no container loses its image (server.go:485-495).          *)
ImageIsThere ==
    /\ \A j \in Jobs : at[j] \in {"inspectImage", "list", "rename", "create"} =>
                         tag[ProjectOf[j]] \in images
    /\ InUse \subseteq images

(* An exit code StartContainer returns without an error is the one of its  *)
(* own container, which has ended, and never that of a container left over *)
(* from an earlier attempt (job.go:220-239).                               *)
ExitCodeIsOwn ==
    \A j \in Jobs : at[j] \in {"remove", "idle"} /\ mine[j] # 0 /\ ~result[j].err =>
        /\ job[mine[j]] = j
        /\ state[mine[j]] \in {"exited", "gone"}
        /\ result[j].code = code[mine[j]]

(* While no docker call fails and no rebuild prunes, StartContainer blocks *)
(* until its container has ended and returns its exit code, whatever an    *)
(* earlier server left behind (job.go:176-177).  A rebuild may prune the   *)
(* container before it is inspected; when the output cannot be followed,   *)
(* StartContainer returns while the container runs on.                     *)
ExitCodeIsReturned ==
    used.faults = 0 /\ used.rebuilds = 0 =>
        \A j \in Jobs : at[j] = "idle" /\ mine[j] # 0 =>
            state[mine[j]] \in {"exited", "gone"} /\ ~result[j].err

-----------------------------------------------------------------------------
(* What the repository says and the code does not do. *)

(* A job's container runs the version of the project that the job's ID is  *)
(* computed from (job.go:119-125, 157, 183).                               *)
RunsOwnVersion ==
    \A j \in Jobs : mine[j] # 0 => image[mine[j]] = VersionOf[j]

=============================================================================
