---------------------------- MODULE DockerProofs ----------------------------
(***************************************************************************)
(* Proofs about the docker side of a build: types, the image behind a tag, *)
(* the container behind an exit code, the free name of the container to be *)
(* created, and the exit code that comes back, for every number of jobs,   *)
(* projects, containers, faults, deaths of the server and uses of the      *)
(* rebuild command.                                                        *)
(***************************************************************************)
EXTENDS Docker, TLAPS

LEMMA ProjectsAndVersions ==
    ASSUME NEW j \in Jobs
    PROVE  /\ ProjectOf[j] \in Projects /\ VersionOf[j] \in Versions
           /\ \A p \in Projects : RebuildVersion[p] \in Versions
           /\ NoImage \notin Versions
  BY DockerConstants DEF Projects, Versions

(* The type invariant, by the group of variables that change together. *)
WorkOK ==
    /\ at \in [Jobs -> Points]
    /\ mine \in [Jobs -> Containers \cup {0}]
    /\ \A j \in Jobs : at[j] \in {"start", "logs", "copy", "inspect", "remove"} =>
                         mine[j] \in Containers
    /\ matches \in [Jobs -> SUBSET Containers]
    /\ cut \subseteq Jobs
ResultOK == result \in [Jobs -> [code : ExitCodes \cup {NoCode}, err : BOOLEAN]]
ImagesOK == tag \in [Projects -> Versions \cup {NoImage}] /\ images \subseteq Versions
ContainersOK ==
    /\ state \in [Containers -> {"none", "created", "running", "exited", "gone"}]
    /\ job \in [Containers -> Jobs \cup {NoJob}]
    /\ named \subseteq Containers
    /\ image \in [Containers -> Versions \cup {NoImage}]
    /\ code \in [Containers -> ExitCodes \cup {NoCode}]
RebuildOK == rebuild \in {"idle", "build", "pruneImages"} /\ left \subseteq Projects
UsedOK ==
    used \in [faults : 0..MaxFaults, crashes : 0..MaxCrashes, rebuilds : 0..MaxRebuilds]

LEMMA DockerParts ==
    /\ DockerTypeOK => WorkOK /\ ResultOK /\ ImagesOK /\ ContainersOK /\ RebuildOK /\ UsedOK
    /\ WorkOK' /\ ResultOK' /\ ImagesOK' /\ ContainersOK' /\ RebuildOK' /\ UsedOK' => DockerTypeOK'
  BY DEF DockerTypeOK, WorkOK, ResultOK, ImagesOK, ContainersOK, RebuildOK, UsedOK

LEMMA DockerUnchanged ==
    /\ WorkOK /\ UNCHANGED <<at, mine, matches, cut>> => WorkOK'
    /\ ResultOK /\ UNCHANGED result => ResultOK'
    /\ ImagesOK /\ UNCHANGED imageVars => ImagesOK'
    /\ ContainersOK /\ UNCHANGED contVars => ContainersOK'
    /\ RebuildOK /\ UNCHANGED rebuildVars => RebuildOK'
    /\ UsedOK /\ UNCHANGED used => UsedOK'
  BY DEF WorkOK, ResultOK, ImagesOK, ContainersOK, RebuildOK, UsedOK, imageVars, contVars,
         rebuildVars

LEMMA FailsType ==
    ASSUME UsedOK, NEW f, Fails(f)
    PROVE  UsedOK'
  BY DockerConstants DEF UsedOK, Fails

LEMMA ErrorType ==
    ASSUME ResultOK, NEW j \in Jobs, NEW c \in {0, NoCode}, Error(j, c)
    PROVE  ResultOK'
  BY DockerConstants DEF ResultOK, Error

LEMMA NoResultType == NoResult \in [code : ExitCodes \cup {NoCode}, err : BOOLEAN]
  BY DEF NoResult

LEMMA DockerTypeInit == DockerInit => DockerTypeOK
  BY DockerConstants, NoResultType DEF DockerInit, DockerTypeOK, Points, Containers

LEMMA DockerTypeStep == DockerTypeOK /\ [DockerNext]_dockerVars => DockerTypeOK'
<1> SUFFICES ASSUME DockerTypeOK, [DockerNext]_dockerVars PROVE DockerTypeOK'
  OBVIOUS
<1>0. WorkOK /\ ResultOK /\ ImagesOK /\ ContainersOK /\ RebuildOK /\ UsedOK
  BY DockerParts
<1> USE <1>0
<1>1. ASSUME NEW j \in Jobs, BuildImage(j) PROVE DockerTypeOK'
  <2>1. WorkOK'
    BY <1>1 DEF BuildImage, WorkOK, Goto, Points
  <2>2. ResultOK' /\ UsedOK'
    BY <1>1, FailsType, ErrorType, NoResultType, DockerUnchanged DEF BuildImage, ResultOK
  <2>3. ImagesOK'
    BY <1>1, ProjectsAndVersions DEF BuildImage, ImagesOK, imageVars
  <2> QED
    BY <1>1, <2>1, <2>2, <2>3, DockerParts, DockerUnchanged DEF BuildImage
<1>2. ASSUME NEW j \in Jobs, InspectImage(j) PROVE DockerTypeOK'
  <2>1. WorkOK'
    BY <1>2 DEF InspectImage, WorkOK, Goto, Points
  <2>2. ResultOK' /\ UsedOK'
    BY <1>2, FailsType, ErrorType, DockerUnchanged DEF InspectImage
  <2> QED
    BY <1>2, <2>1, <2>2, DockerParts, DockerUnchanged DEF InspectImage
<1>3. ASSUME NEW j \in Jobs, ListContainers(j) PROVE DockerTypeOK'
  <2>1. WorkOK'
    BY <1>3 DEF ListContainers, WorkOK, Goto, Points, OfJob
  <2>2. UsedOK'
    BY <1>3, FailsType, DockerUnchanged DEF ListContainers
  <2> QED
    BY <1>3, <2>1, <2>2, DockerParts, DockerUnchanged DEF ListContainers
<1>4. ASSUME NEW j \in Jobs, Rename(j) PROVE DockerTypeOK'
  <2>1. WorkOK'
    BY <1>4 DEF Rename, WorkOK, Goto, Points
  <2>2. UsedOK'
    BY <1>4, FailsType, DockerUnchanged DEF Rename
  <2>3. ContainersOK'
    BY <1>4 DEF Rename, ContainersOK
  <2> QED
    BY <1>4, <2>1, <2>2, <2>3, DockerParts, DockerUnchanged DEF Rename
<1>5. ASSUME NEW j \in Jobs, CreateContainer(j) PROVE DockerTypeOK'
  <2>1. WorkOK'
    BY <1>5 DEF CreateContainer, WorkOK, Goto, Points
  <2>2. ResultOK' /\ UsedOK'
    BY <1>5, FailsType, ErrorType, DockerUnchanged DEF CreateContainer
  <2>3. ContainersOK'
    BY <1>5, ProjectsAndVersions DEF CreateContainer, ContainersOK, ImagesOK
  <2> QED
    BY <1>5, <2>1, <2>2, <2>3, DockerParts, DockerUnchanged DEF CreateContainer
<1>6. ASSUME NEW j \in Jobs, StartContainer(j) PROVE DockerTypeOK'
  <2>1. WorkOK'
    BY <1>6 DEF StartContainer, WorkOK, Goto, Points
  <2>2. ResultOK' /\ UsedOK'
    BY <1>6, FailsType, ErrorType, DockerUnchanged DEF StartContainer
  <2>3. ContainersOK'
    BY <1>6 DEF StartContainer, ContainersOK
  <2> QED
    BY <1>6, <2>1, <2>2, <2>3, DockerParts, DockerUnchanged DEF StartContainer
<1>7. ASSUME NEW j \in Jobs, AttachLogs(j) PROVE DockerTypeOK'
  <2>1. WorkOK'
    BY <1>7 DEF AttachLogs, WorkOK, Goto, Points
  <2>2. ResultOK' /\ UsedOK'
    BY <1>7, FailsType, ErrorType, DockerUnchanged DEF AttachLogs
  <2> QED
    BY <1>7, <2>1, <2>2, DockerParts, DockerUnchanged DEF AttachLogs
<1>8. ASSUME NEW j \in Jobs, CopyLogs(j) PROVE DockerTypeOK'
  <2>1. WorkOK'
    BY <1>8 DEF CopyLogs, WorkOK, Goto, Points
  <2>2. ResultOK' /\ UsedOK'
    BY <1>8, FailsType, ErrorType, DockerUnchanged DEF CopyLogs
  <2> QED
    BY <1>8, <2>1, <2>2, DockerParts, DockerUnchanged DEF CopyLogs
<1>9. ASSUME NEW j \in Jobs, InspectContainer(j) PROVE DockerTypeOK'
  <2>1. WorkOK'
    BY <1>9 DEF InspectContainer, WorkOK, Goto, Points
  <2>2. UsedOK'
    BY <1>9, FailsType, DockerUnchanged DEF InspectContainer
  <2>3. mine[j] \in Containers /\ code[mine[j]] \in ExitCodes \cup {NoCode}
    BY <1>9 DEF InspectContainer, WorkOK, ContainersOK
  <2>4. ResultOK'
    <3>1. CASE Error(j, 0)
      BY <3>1, ErrorType
    <3>2. CASE result' = [result EXCEPT ![j] = [code |-> code[mine[j]], err |-> FALSE]]
      BY <2>3, <3>2 DEF ResultOK
    <3> QED
      BY <1>9, <3>1, <3>2 DEF InspectContainer
  <2> QED
    BY <1>9, <2>1, <2>2, <2>4, DockerParts, DockerUnchanged DEF InspectContainer
<1>10. ASSUME NEW j \in Jobs, RemoveContainer(j) PROVE DockerTypeOK'
  <2>1. WorkOK'
    BY <1>10 DEF RemoveContainer, WorkOK, Goto, Points
  <2>2. UsedOK'
    BY <1>10, FailsType, DockerUnchanged DEF RemoveContainer
  <2>3. ContainersOK'
    BY <1>10 DEF RemoveContainer, ContainersOK
  <2> QED
    BY <1>10, <2>1, <2>2, <2>3, DockerParts, DockerUnchanged DEF RemoveContainer
<1>11. ASSUME NEW n \in Containers, ContainerExits(n) PROVE DockerTypeOK'
  <2>1. ContainersOK'
    BY <1>11 DEF ContainerExits, ContainersOK
  <2> QED
    BY <1>11, <2>1, DockerParts, DockerUnchanged DEF ContainerExits, workVars
<1>12. CASE Crash
  <2>1. WorkOK' /\ UsedOK'
    BY <1>12, DockerConstants DEF Crash, WorkOK, UsedOK, Points
  <2>2. ResultOK'
    BY <1>12, NoResultType DEF Crash, ResultOK
  <2> QED
    BY <1>12, <2>1, <2>2, DockerParts, DockerUnchanged DEF Crash
<1>13. CASE Rebuild
  <2>1. RebuildOK' /\ UsedOK'
    BY <1>13, DockerConstants DEF Rebuild, RebuildOK, UsedOK
  <2> QED
    BY <1>13, <2>1, DockerParts, DockerUnchanged DEF Rebuild, workVars
<1>14. CASE PruneContainers
  <2>1. RebuildOK' /\ ContainersOK'
    BY <1>14 DEF PruneContainers, RebuildOK, ContainersOK
  <2>2. UsedOK'
    BY <1>14, FailsType, DockerUnchanged DEF PruneContainers
  <2> QED
    BY <1>14, <2>1, <2>2, DockerParts, DockerUnchanged DEF PruneContainers, workVars
<1>15. CASE PruneImages
  <2>1. RebuildOK' /\ ImagesOK'
    BY <1>15 DEF PruneImages, RebuildOK, ImagesOK
  <2>2. UsedOK'
    BY <1>15, FailsType, DockerUnchanged DEF PruneImages
  <2> QED
    BY <1>15, <2>1, <2>2, DockerParts, DockerUnchanged DEF PruneImages, workVars
<1>16. ASSUME NEW p \in Projects, RebuildImage(p) PROVE DockerTypeOK'
  <2>0. RebuildVersion[p] \in Versions
    BY DEF Versions
  <2>1. RebuildOK' /\ ImagesOK'
    BY <1>16, <2>0 DEF RebuildImage, RebuildOK, ImagesOK, imageVars
  <2>2. UsedOK'
    BY <1>16, FailsType, DockerUnchanged DEF RebuildImage
  <2> QED
    BY <1>16, <2>1, <2>2, DockerParts, DockerUnchanged DEF RebuildImage, workVars
<1>17. CASE UNCHANGED dockerVars
  BY <1>17, DockerParts, DockerUnchanged DEF dockerVars, workVars
<1> QED
  BY <1>1, <1>2, <1>3, <1>4, <1>5, <1>6, <1>7, <1>8, <1>9, <1>10, <1>11, <1>12, <1>13,
     <1>14, <1>15, <1>16, <1>17
  DEF DockerNext

(* Every variable keeps its type, and the point StartContainer has reached *)
(* goes with a container of its own (job.go:146-263, server.go:412-500).   *)
THEOREM DockerTypeCorrect == DockerSpec => []DockerTypeOK
  BY DockerTypeInit, DockerTypeStep, PTL DEF DockerSpec

-----------------------------------------------------------------------------
(* The image behind the tag, in two parts. *)
BuiltIsTagged ==
    \A j \in Jobs : at[j] \in {"inspectImage", "list", "rename", "create"} =>
                       tag[ProjectOf[j]] \in images
UsedIsKept == \A n \in Containers : Present(n) => image[n] \in images

LEMMA ImageParts ==
    /\ ImageIsThere <=> BuiltIsTagged /\ UsedIsKept
    /\ ImageIsThere' <=> BuiltIsTagged' /\ UsedIsKept'
  BY DEF ImageIsThere, BuiltIsTagged, UsedIsKept, InUse, Present

(* A step of the server that neither builds nor creates. *)
LEMMA ImagesUndisturbed ==
    ASSUME BuiltIsTagged, UsedIsKept, UNCHANGED <<imageVars, image>>,
           \A j \in Jobs : at'[j] = at[j] \/ at'[j] \in {"idle", "start", "logs", "copy", "inspect", "remove"}
                            \/ at[j] \in {"inspectImage", "list", "rename", "create"},
           \A n \in Containers : Present(n)' => Present(n)
    PROVE  BuiltIsTagged' /\ UsedIsKept'
  BY DEF BuiltIsTagged, UsedIsKept, imageVars

LEMMA ImageStep ==
    DockerTypeOK /\ ImageIsThere /\ [DockerNext]_dockerVars => ImageIsThere'
<1> SUFFICES ASSUME DockerTypeOK, ImageIsThere, [DockerNext]_dockerVars
             PROVE  BuiltIsTagged' /\ UsedIsKept'
  BY ImageParts
<1>0. WorkOK /\ ImagesOK /\ ContainersOK /\ BuiltIsTagged /\ UsedIsKept
  BY DockerParts, ImageParts
<1> USE <1>0
<1>1. ASSUME NEW j \in Jobs, BuildImage(j) PROVE BuiltIsTagged' /\ UsedIsKept'
  <2>1. CASE UNCHANGED <<at, imageVars>>
    BY <1>1, <2>1 DEF BuildImage, BuiltIsTagged, UsedIsKept, imageVars, contVars, Present
  <2>2. CASE /\ images' = images \cup {VersionOf[j]}
             /\ tag' = [tag EXCEPT ![ProjectOf[j]] = VersionOf[j]]
             /\ Goto(j, "inspectImage")
    <3>1. BuiltIsTagged'
      BY <2>2, ProjectsAndVersions DEF BuiltIsTagged, WorkOK, ImagesOK, Goto
    <3>2. UsedIsKept'
      BY <1>1, <2>2 DEF BuildImage, UsedIsKept, contVars, Present
    <3> QED
      BY <3>1, <3>2
  <2> QED
    BY <1>1, <2>1, <2>2 DEF BuildImage
<1>2. ASSUME NEW j \in Jobs,
             InspectImage(j) \/ ListContainers(j) \/ Rename(j) \/ AttachLogs(j) \/ CopyLogs(j)
             \/ InspectContainer(j)
      PROVE  BuiltIsTagged' /\ UsedIsKept'
  <2>1. UNCHANGED <<imageVars, state, image>>
    BY <1>2 DEF InspectImage, ListContainers, Rename, AttachLogs, CopyLogs, InspectContainer,
                contVars
  <2>2. \A k \in Jobs : at'[k] = at[k] \/ at'[k] \in {"idle", "start", "logs", "copy", "inspect", "remove"}
                            \/ at[k] \in {"inspectImage", "list", "rename", "create"}
    BY <1>2 DEF InspectImage, ListContainers, Rename, AttachLogs, CopyLogs, InspectContainer,
                Goto, WorkOK
  <2> QED
    BY <2>1, <2>2, ImagesUndisturbed DEF Present
<1>3. ASSUME NEW j \in Jobs, CreateContainer(j) PROVE BuiltIsTagged' /\ UsedIsKept'
  <2>1. BuiltIsTagged'
    BY <1>3 DEF CreateContainer, BuiltIsTagged, imageVars, Goto, WorkOK
  <2>2. UsedIsKept'
    BY <1>3 DEF CreateContainer, UsedIsKept, imageVars, Creatable, ContainersOK, Present
  <2> QED
    BY <2>1, <2>2
<1>4. ASSUME NEW j \in Jobs, StartContainer(j) \/ RemoveContainer(j)
      PROVE  BuiltIsTagged' /\ UsedIsKept'
  <2>1. \A k \in Jobs : at'[k] = at[k] \/ at'[k] \in {"idle", "start", "logs", "copy", "inspect", "remove"}
    BY <1>4 DEF StartContainer, RemoveContainer, Goto, WorkOK
  <2>2. \A n \in Containers : Present(n)' => Present(n)
    BY <1>4 DEF StartContainer, RemoveContainer, Present, WorkOK, ContainersOK
  <2>3. UNCHANGED <<imageVars, image>>
    BY <1>4 DEF StartContainer, RemoveContainer
  <2> QED
    BY <2>1, <2>2, <2>3, ImagesUndisturbed
<1>5. ASSUME NEW n \in Containers, ContainerExits(n) PROVE BuiltIsTagged' /\ UsedIsKept'
  <2>1. \A m \in Containers : Present(m)' => Present(m)
    BY <1>5 DEF ContainerExits, Present, ContainersOK
  <2> QED
    BY <1>5, <2>1, ImagesUndisturbed DEF ContainerExits, workVars
<1>6. CASE Crash \/ Rebuild \/ PruneContainers
  <2>1. \A m \in Containers : Present(m)' => Present(m)
    BY <1>6 DEF Crash, Rebuild, PruneContainers, contVars, Present, ContainersOK
  <2>2. \A k \in Jobs : at'[k] = at[k] \/ at'[k] = "idle"
    BY <1>6 DEF Crash, Rebuild, PruneContainers, workVars
  <2>3. UNCHANGED <<imageVars, image>>
    BY <1>6 DEF Crash, Rebuild, PruneContainers, contVars
  <2> QED
    BY <2>1, <2>2, <2>3, ImagesUndisturbed
<1>7. CASE PruneImages
  <2>1. CASE UNCHANGED images
    BY <1>7, <2>1 DEF PruneImages, BuiltIsTagged, UsedIsKept, workVars, contVars, Present
  <2>2. CASE images' = images \cap (InUse \cup Tagged)
    <3>1. BuiltIsTagged'
      BY <1>7, <2>2, ProjectsAndVersions DEF PruneImages, BuiltIsTagged, workVars, Tagged
    <3>2. UsedIsKept'
      BY <1>7, <2>2 DEF PruneImages, UsedIsKept, contVars, Present, InUse
    <3> QED
      BY <3>1, <3>2
  <2> QED
    BY <1>7, <2>1, <2>2 DEF PruneImages
<1>8. ASSUME NEW p \in Projects, RebuildImage(p) PROVE BuiltIsTagged' /\ UsedIsKept'
  <2>1. BuiltIsTagged'
    BY <1>8, ProjectsAndVersions
    DEF RebuildImage, BuiltIsTagged, workVars, imageVars, ImagesOK
  <2>2. UsedIsKept'
    BY <1>8 DEF RebuildImage, UsedIsKept, contVars, imageVars, Present
  <2> QED
    BY <2>1, <2>2
<1>9. CASE UNCHANGED dockerVars
  BY <1>9 DEF dockerVars, workVars, imageVars, contVars, BuiltIsTagged, UsedIsKept, Present
<1> QED
  BY <1>1, <1>2, <1>3, <1>4, <1>5, <1>6, <1>7, <1>8, <1>9 DEF DockerNext

(* Once BuildImage has returned, the tag leads to an image until the       *)
(* container is created, and no container loses its image, whatever the    *)
(* rebuild command prunes (server.go:485-500).                             *)
THEOREM ImagesAreThere == DockerSpec => []ImageIsThere
<1>1. DockerInit => ImageIsThere
  BY DEF DockerInit, ImageIsThere, InUse, Present
<1> QED
  BY <1>1, DockerTypeCorrect, ImageStep, PTL DEF DockerSpec

-----------------------------------------------------------------------------
(* The container behind an exit code.  ExitCodeIsOwn is not inductive: the *)
(* container of a StartContainer under way is its own, was started once    *)
(* its output is followed, and has ended once it is inspected.             *)
Owned(k) == mine[k] # 0 => job[mine[k]] = k /\ state[mine[k]] # "none"
Started(k) == at[k] \in {"logs", "copy", "inspect"} =>
                state[mine[k]] \in {"running", "exited", "gone"}
Ended(k) == at[k] = "inspect" => state[mine[k]] # "running"
CodeIsOwn(k) ==
    at[k] \in {"remove", "idle"} /\ mine[k] # 0 /\ ~result[k].err =>
        /\ state[mine[k]] \in {"exited", "gone"}
        /\ result[k].code = code[mine[k]]
OwnInv == \A k \in Jobs : Owned(k) /\ Started(k) /\ Ended(k) /\ CodeIsOwn(k)

LEMMA OwnInvImplies == OwnInv => ExitCodeIsOwn
  BY DEF OwnInv, Owned, CodeIsOwn, ExitCodeIsOwn

(* A step that leaves the containers alone and takes one job to a point    *)
(* where nothing new is claimed of it, or makes its result an error.       *)
LEMMA OwnUndisturbed ==
    ASSUME WorkOK, ResultOK, OwnInv, NEW j \in Jobs, UNCHANGED <<mine, state, job, code>>,
           \A k \in Jobs \ {j} : at'[k] = at[k] /\ result'[k] = result[k],
           \/ at'[j] \in {"inspectImage", "list", "rename", "create", "start"}
           \/ at'[j] \in {"idle", "remove"} /\ result'[j].err
    PROVE  OwnInv'
<1> SUFFICES ASSUME NEW k \in Jobs
             PROVE  Owned(k)' /\ Started(k)' /\ Ended(k)' /\ CodeIsOwn(k)'
  BY DEF OwnInv
<1>1. Owned(k) /\ Started(k) /\ Ended(k) /\ CodeIsOwn(k)
  BY DEF OwnInv
<1>2. CASE k = j
  BY <1>1, <1>2 DEF Owned, Started, Ended, CodeIsOwn
<1>3. CASE k # j
  BY <1>1, <1>3 DEF Owned, Started, Ended, CodeIsOwn
<1> QED
  BY <1>2, <1>3

LEMMA ErrorIsError ==
    ASSUME ResultOK, NEW j \in Jobs, NEW c, Error(j, c)
    PROVE  result'[j].err /\ \A k \in Jobs \ {j} : result'[k] = result[k]
  BY DEF ResultOK, Error

LEMMA GotoMoves ==
    ASSUME WorkOK, NEW j \in Jobs, NEW p, Goto(j, p)
    PROVE  at'[j] = p /\ \A k \in Jobs \ {j} : at'[k] = at[k]
  BY DEF WorkOK, Goto

LEMMA OwnStep ==
    DockerTypeOK /\ OwnInv /\ [DockerNext]_dockerVars => OwnInv'
<1> SUFFICES ASSUME DockerTypeOK, OwnInv, [DockerNext]_dockerVars
             PROVE  OwnInv'
  OBVIOUS
<1>0. WorkOK /\ ResultOK /\ ContainersOK
  BY DockerParts
<1> USE <1>0
<1>a. \A k \in Jobs : Owned(k) /\ Started(k) /\ Ended(k) /\ CodeIsOwn(k)
  BY DEF OwnInv
<1>b. \A k \in Jobs : mine[k] # 0 => mine[k] \in Containers
  BY DEF WorkOK
<1>c. 0 \notin Containers
  BY DockerConstants DEF Containers
<1>1. ASSUME NEW j \in Jobs, BuildImage(j) PROVE OwnInv'
  <2>1. mine'[j] = 0 /\ \A k \in Jobs \ {j} : mine'[k] = mine[k]
    BY <1>1 DEF BuildImage, WorkOK
  <2>2. \A k \in Jobs \ {j} : at'[k] = at[k] /\ result'[k] = result[k]
    BY <1>1, GotoMoves, ErrorIsError DEF BuildImage, ResultOK
  <2>3. at'[j] \in {"inspectImage", "idle"}
    BY <1>1, GotoMoves DEF BuildImage
  <2>4. ASSUME NEW k \in Jobs PROVE Owned(k)' /\ Started(k)' /\ Ended(k)' /\ CodeIsOwn(k)'
    <3>1. UNCHANGED <<state, job, code>>
      BY <1>1 DEF BuildImage, contVars
    <3>2. CASE k = j
      BY <2>1, <2>3, <3>2 DEF Owned, Started, Ended, CodeIsOwn
    <3>3. CASE k # j
      BY <1>a, <2>1, <2>2, <3>1, <3>3 DEF Owned, Started, Ended, CodeIsOwn
    <3> QED
      BY <3>2, <3>3
  <2> QED
    BY <2>4 DEF OwnInv
<1>2. ASSUME NEW j \in Jobs, InspectImage(j) \/ ListContainers(j) \/ Rename(j)
      PROVE  OwnInv'
  <2>1. UNCHANGED <<mine, state, job, code>>
    BY <1>2 DEF InspectImage, ListContainers, Rename, contVars
  <2>2. CASE InspectImage(j)
    BY <2>1, <2>2, GotoMoves, ErrorIsError, OwnUndisturbed DEF InspectImage
  <2>3. CASE ListContainers(j)
    BY <2>1, <2>3, GotoMoves, OwnUndisturbed DEF ListContainers
  <2>4. CASE Rename(j)
    BY <2>1, <2>4, GotoMoves, OwnUndisturbed DEF Rename
  <2> QED
    BY <1>2, <2>2, <2>3, <2>4
<1>3. ASSUME NEW j \in Jobs, CreateContainer(j) PROVE OwnInv'
  <2>1. CASE Error(j, 0) /\ Goto(j, "idle") /\ UNCHANGED <<mine, state, job, named, image>>
    BY <1>3, <2>1, GotoMoves, ErrorIsError, OwnUndisturbed DEF CreateContainer
  <2>2. ASSUME NEW n \in Containers, state[n] = "none",
               state' = [state EXCEPT ![n] = "created"],
               job' = [job EXCEPT ![n] = j],
               mine' = [mine EXCEPT ![j] = n],
               Goto(j, "start"), UNCHANGED <<result, code>>
        PROVE  OwnInv'
    <3>1. ASSUME NEW k \in Jobs PROVE Owned(k)' /\ Started(k)' /\ Ended(k)' /\ CodeIsOwn(k)'
      <4>1. CASE k = j
        BY <2>2, <4>1, GotoMoves, <1>c
        DEF Owned, Started, Ended, CodeIsOwn, WorkOK, ContainersOK
      <4>2. CASE k # j
        <5>1. mine'[k] = mine[k] /\ at'[k] = at[k] /\ result'[k] = result[k]
          BY <2>2, <4>2, GotoMoves DEF WorkOK
        <5>2. mine[k] # n
          BY <1>a, <1>c, <2>2 DEF Owned
        <5>3. mine[k] # 0 => state'[mine[k]] = state[mine[k]] /\ job'[mine[k]] = job[mine[k]]
          BY <1>b, <2>2, <5>2 DEF ContainersOK
        <5>4. at[k] \in {"logs", "copy", "inspect"} => mine[k] # 0
          BY <1>c DEF WorkOK
        <5> QED
          BY <1>a, <2>2, <5>1, <5>3, <5>4 DEF Owned, Started, Ended, CodeIsOwn
      <4> QED
        BY <4>1, <4>2
    <3> QED
      BY <3>1 DEF OwnInv
  <2> QED
    BY <1>3, <2>1, <2>2 DEF CreateContainer, NextFree
<1>4. ASSUME NEW j \in Jobs, StartContainer(j) PROVE OwnInv'
  <2>1. CASE Error(j, 0) /\ Goto(j, "idle") /\ UNCHANGED state
    BY <1>4, <2>1, GotoMoves, ErrorIsError, OwnUndisturbed DEF StartContainer
  <2>2. CASE /\ state' = [state EXCEPT ![mine[j]] = "running"]
             /\ Goto(j, "logs") /\ UNCHANGED result
    <3>0. UNCHANGED <<mine, job, code>> /\ mine[j] \in Containers
      BY <1>4 DEF StartContainer, WorkOK
    <3>1. ASSUME NEW k \in Jobs PROVE Owned(k)' /\ Started(k)' /\ Ended(k)' /\ CodeIsOwn(k)'
      <4>1. CASE k = j
        BY <1>a, <2>2, <3>0, <4>1, GotoMoves
        DEF Owned, Started, Ended, CodeIsOwn, ContainersOK
      <4>2. CASE k # j
        <5>1. at'[k] = at[k]
          BY <2>2, <4>2, GotoMoves
        <5>2. mine[k] # 0 => mine[k] # mine[j]
          BY <1>a, <3>0, <1>c, <4>2 DEF Owned
        <5>3. mine[k] # 0 => state'[mine[k]] = state[mine[k]]
          BY <1>b, <2>2, <5>2 DEF ContainersOK
        <5>4. at[k] \in {"logs", "copy", "inspect"} => mine[k] # 0
          BY <1>c DEF WorkOK
        <5> QED
          BY <1>a, <2>2, <3>0, <5>1, <5>3, <5>4 DEF Owned, Started, Ended, CodeIsOwn
      <4> QED
        BY <4>1, <4>2
    <3> QED
      BY <3>1 DEF OwnInv
  <2> QED
    BY <1>4, <2>1, <2>2 DEF StartContainer
<1>5. ASSUME NEW j \in Jobs, AttachLogs(j) \/ CopyLogs(j) PROVE OwnInv'
  <2>0. UNCHANGED <<mine, state, job, code>>
    BY <1>5 DEF AttachLogs, CopyLogs, contVars
  <2>1. CASE Error(j, 0) /\ Goto(j, "remove")
    BY <2>0, <2>1, GotoMoves, ErrorIsError, OwnUndisturbed
  <2>2. ASSUME NEW p \in {"copy", "inspect"}, Goto(j, p), UNCHANGED result,
               at[j] \in {"logs", "copy"}, p = "inspect" => state[mine[j]] # "running"
        PROVE  OwnInv'
    <3>1. ASSUME NEW k \in Jobs PROVE Owned(k)' /\ Started(k)' /\ Ended(k)' /\ CodeIsOwn(k)'
      <4>1. CASE k = j
        BY <1>a, <2>0, <2>2, <4>1, GotoMoves DEF Owned, Started, Ended, CodeIsOwn
      <4>2. CASE k # j
        BY <1>a, <2>0, <2>2, <4>2, GotoMoves DEF Owned, Started, Ended, CodeIsOwn
      <4> QED
        BY <4>1, <4>2
    <3> QED
      BY <3>1 DEF OwnInv
  <2> QED
    BY <1>5, <2>1, <2>2 DEF AttachLogs, CopyLogs
<1>6. ASSUME NEW j \in Jobs, InspectContainer(j) PROVE OwnInv'
  <2>0. UNCHANGED <<mine, state, job, code>> /\ Goto(j, "remove") /\ at[j] = "inspect"
    BY <1>6 DEF InspectContainer, contVars
  <2>1. CASE Error(j, 0)
    BY <2>0, <2>1, GotoMoves, ErrorIsError, OwnUndisturbed
  <2>2. CASE /\ Present(mine[j])
             /\ result' = [result EXCEPT ![j] = [code |-> code[mine[j]], err |-> FALSE]]
    <3>1. ASSUME NEW k \in Jobs PROVE Owned(k)' /\ Started(k)' /\ Ended(k)' /\ CodeIsOwn(k)'
      <4>1. CASE k = j
        <5>1. state[mine[j]] \in {"exited", "gone"}
          BY <1>a, <2>0 DEF Started, Ended
        <5>2. result'[j].code = code[mine[j]] /\ at'[j] = "remove"
          BY <2>0, <2>2, GotoMoves DEF ResultOK
        <5> QED
          BY <1>a, <2>0, <4>1, <5>1, <5>2 DEF Owned, Started, Ended, CodeIsOwn
      <4>2. CASE k # j
        <5>1. result'[k] = result[k] /\ at'[k] = at[k]
          BY <2>0, <2>2, <4>2, GotoMoves DEF ResultOK
        <5> QED
          BY <1>a, <2>0, <5>1 DEF Owned, Started, Ended, CodeIsOwn
      <4> QED
        BY <4>1, <4>2
    <3> QED
      BY <3>1 DEF OwnInv
  <2> QED
    BY <1>6, <2>1, <2>2 DEF InspectContainer
<1>7. ASSUME NEW j \in Jobs, RemoveContainer(j) PROVE OwnInv'
  <2>1. UNCHANGED <<mine, result, job, code>> /\ Goto(j, "idle") /\ at[j] = "remove"
    BY <1>7 DEF RemoveContainer
  <2>2. \A n \in Containers : state'[n] = state[n] \/ (state[n] = "exited" /\ state'[n] = "gone")
    BY <1>7 DEF RemoveContainer, ContainersOK, WorkOK
  <2>3. ASSUME NEW k \in Jobs PROVE Owned(k)' /\ Started(k)' /\ Ended(k)' /\ CodeIsOwn(k)'
    <3>1. at'[k] = at[k] \/ (at[k] = "remove" /\ at'[k] = "idle")
      BY <2>1, GotoMoves
    <3>2. at[k] \in {"logs", "copy", "inspect"} => mine[k] # 0
      BY <1>c DEF WorkOK
    <3> QED
      BY <1>a, <1>b, <2>1, <2>2, <3>1, <3>2 DEF Owned, Started, Ended, CodeIsOwn
  <2> QED
    BY <2>3 DEF OwnInv
<1>8. ASSUME NEW n \in Containers, ContainerExits(n) PROVE OwnInv'
  <2>1. UNCHANGED <<at, mine, result, job>>
    BY <1>8 DEF ContainerExits, workVars
  <2>2. \A m \in Containers : \/ (state'[m] = state[m] /\ code'[m] = code[m])
                               \/ (state[m] = "running" /\ state'[m] = "exited")
    BY <1>8 DEF ContainerExits, ContainersOK
  <2>3. ASSUME NEW k \in Jobs PROVE Owned(k)' /\ Started(k)' /\ Ended(k)' /\ CodeIsOwn(k)'
    <3>2. at[k] \in {"logs", "copy", "inspect"} => mine[k] # 0
      BY <1>c DEF WorkOK
    <3> QED
      BY <1>a, <1>b, <2>1, <2>2, <3>2 DEF Owned, Started, Ended, CodeIsOwn
  <2> QED
    BY <2>3 DEF OwnInv
<1>9. CASE Crash
  BY <1>9 DEF Crash, OwnInv, Owned, Started, Ended, CodeIsOwn
<1>10. CASE PruneContainers
  <2>1. UNCHANGED <<at, mine, result, job, code>>
    BY <1>10 DEF PruneContainers, workVars
  <2>2. \A m \in Containers : state'[m] = state[m]
                               \/ (state[m] \in {"created", "exited"} /\ state'[m] = "gone")
    BY <1>10 DEF PruneContainers
  <2>3. ASSUME NEW k \in Jobs PROVE Owned(k)' /\ Started(k)' /\ Ended(k)' /\ CodeIsOwn(k)'
    <3>2. at[k] \in {"logs", "copy", "inspect"} => mine[k] # 0
      BY <1>c DEF WorkOK
    <3> QED
      BY <1>a, <1>b, <2>1, <2>2, <3>2 DEF Owned, Started, Ended, CodeIsOwn
  <2> QED
    BY <2>3 DEF OwnInv
<1>11. CASE Rebuild \/ PruneImages \/ (\E p \in Projects : RebuildImage(p)) \/ UNCHANGED dockerVars
  <2>1. UNCHANGED <<at, mine, result, state, job, code>>
    BY <1>11 DEF Rebuild, PruneImages, RebuildImage, dockerVars, workVars, contVars
  <2> QED
    BY <1>a, <2>1 DEF OwnInv, Owned, Started, Ended, CodeIsOwn
<1> QED
  BY <1>1, <1>2, <1>3, <1>4, <1>5, <1>6, <1>7, <1>8, <1>9, <1>10, <1>11 DEF DockerNext

(* An exit code that StartContainer returns without an error is the one of *)
(* the container it created, which has ended (job.go:220-239).             *)
THEOREM ExitCodesAreOwn == DockerSpec => []ExitCodeIsOwn
<1>1. DockerInit => OwnInv
  BY DEF DockerInit, OwnInv, Owned, Started, Ended, CodeIsOwn
<1> QED
  BY <1>1, DockerTypeCorrect, OwnStep, OwnInvImplies, PTL DEF DockerSpec

-----------------------------------------------------------------------------
(* The free name.  Containers are created in order; the one with a job's   *)
(* name is the newest of that job; and it is on the list renameIfExists    *)
(* works through, so that a listed container that has gone, at which it    *)
(* stops, is never newer than it.  Whatever fails, a container is created  *)
(* only when the name is free, so that all this holds among faults too.    *)
InOrder == \A m, n \in Containers : m < n /\ state[n] # "none" => state[m] # "none"
NamedIsNewest ==
    \A m, n \in Containers :
        n \in named /\ Present(n) /\ job[m] = job[n] /\ state[m] # "none" => m <= n
Listed(k) ==
    at[k] = "rename" =>
        /\ \A n \in matches[k] : job[n] = k /\ state[n] # "none"
        /\ \A n \in Containers : Present(n) /\ job[n] = k /\ n \in named => n \in matches[k]
NameIsFree(k) ==
    at[k] = "create" /\ k \notin cut =>
        \A n \in Containers : ~(Present(n) /\ job[n] = k /\ n \in named)
FreeInv == InOrder /\ NamedIsNewest /\ \A k \in Jobs : Listed(k) /\ NameIsFree(k)

LEMMA FreeInvImplies == FreeInv => LeftoversDoNotBlock
  BY DEF FreeInv, NameIsFree, LeftoversDoNotBlock, OfJob

LEMMA FailsCounts ==
    ASSUME UsedOK, NEW f, Fails(f)
    PROVE  used'.faults # 0
  BY DockerConstants DEF UsedOK, Fails

LEMMA FaultsStay ==
    ASSUME DockerTypeOK, [DockerNext]_dockerVars, used'.faults = 0
    PROVE  used.faults = 0
<1>0. UsedOK
  BY DockerParts
<1>1. CASE UNCHANGED used
  BY <1>1
<1>2. CASE \E f \in FaultPoints : Fails(f)
  BY <1>0, <1>2, FailsCounts
<1>3. CASE Crash \/ Rebuild
  BY <1>0, <1>3 DEF Crash, Rebuild, UsedOK
<1> QED
  BY <1>1, <1>2, <1>3
  DEF DockerNext, dockerVars, BuildImage, InspectImage, ListContainers, Rename, CreateContainer,
      StartContainer, AttachLogs, CopyLogs, InspectContainer, RemoveContainer, ContainerExits,
      RebuildImage, PruneContainers, PruneImages, Fails

(* A step that creates, renames and lists nothing. *)
LEMMA FreeUndisturbed ==
    ASSUME WorkOK, FreeInv, UNCHANGED <<job, named>>,
           \A n \in Containers : Present(n)' => Present(n),
           \A n \in Containers : state'[n] = "none" <=> state[n] = "none",
           \A k \in Jobs : at'[k] \in {"rename", "create"} =>
                              /\ at'[k] = at[k] /\ matches'[k] = matches[k]
                              /\ k \in cut => k \in cut'
    PROVE  FreeInv'
<1>1. InOrder'
  BY DEF FreeInv, InOrder
<1>2. NamedIsNewest'
  BY DEF FreeInv, NamedIsNewest
<1>3. ASSUME NEW k \in Jobs PROVE Listed(k)' /\ NameIsFree(k)'
  <2>1. Listed(k) /\ NameIsFree(k)
    BY DEF FreeInv
  <2>2. Listed(k)'
    <3> SUFFICES ASSUME at'[k] = "rename"
                 PROVE  /\ \A n \in matches'[k] : job'[n] = k /\ state'[n] # "none"
                        /\ \A n \in Containers : Present(n)' /\ job'[n] = k /\ n \in named'
                                                  => n \in matches'[k]
      BY DEF Listed
    <3>1. at[k] = "rename" /\ matches'[k] = matches[k]
      OBVIOUS
    <3> QED
      BY <2>1, <3>1 DEF Listed, WorkOK
  <2>3. NameIsFree(k)'
    BY <2>1 DEF NameIsFree
  <2> QED
    BY <2>2, <2>3
<1> QED
  BY <1>1, <1>2, <1>3 DEF FreeInv

LEMMA FreeStep ==
    DockerTypeOK /\ FreeInv /\ [DockerNext]_dockerVars => FreeInv'
<1> SUFFICES ASSUME DockerTypeOK, FreeInv, [DockerNext]_dockerVars PROVE FreeInv'
  OBVIOUS
<1>0. WorkOK /\ ContainersOK /\ UsedOK
  BY DockerParts
<1> USE <1>0
<1>a. InOrder /\ NamedIsNewest /\ \A k \in Jobs : Listed(k) /\ NameIsFree(k)
  BY DEF FreeInv
<1>1. ASSUME NEW j \in Jobs,
             BuildImage(j) \/ InspectImage(j) \/ AttachLogs(j) \/ CopyLogs(j) \/ InspectContainer(j)
      PROVE  FreeInv'
  <2>1. UNCHANGED <<job, named, state, matches, cut>>
    BY <1>1 DEF BuildImage, InspectImage, AttachLogs, CopyLogs, InspectContainer, contVars
  <2>2. \A k \in Jobs : at'[k] \in {"rename", "create"} => at'[k] = at[k]
    BY <1>1 DEF BuildImage, InspectImage, AttachLogs, CopyLogs, InspectContainer, Goto, WorkOK
  <2> QED
    BY <2>1, <2>2, FreeUndisturbed DEF Present
<1>2. ASSUME NEW j \in Jobs, StartContainer(j) \/ RemoveContainer(j) PROVE FreeInv'
  <2>1. UNCHANGED <<job, named, matches, cut>>
    BY <1>2 DEF StartContainer, RemoveContainer
  <2>2. \A k \in Jobs : at'[k] \in {"rename", "create"} => at'[k] = at[k]
    BY <1>2 DEF StartContainer, RemoveContainer, Goto, WorkOK
  <2>3. \A n \in Containers : Present(n)' => Present(n)
    BY <1>2 DEF StartContainer, RemoveContainer, Present, WorkOK, ContainersOK
  <2>4. \A n \in Containers : state'[n] = "none" <=> state[n] = "none"
    BY <1>2 DEF StartContainer, RemoveContainer, Present, WorkOK, ContainersOK
  <2> QED
    BY <2>1, <2>2, <2>3, <2>4, FreeUndisturbed
<1>3. CASE (\E n \in Containers : ContainerExits(n)) \/ PruneContainers
  <2>1. UNCHANGED <<job, named, matches, cut, at>>
    BY <1>3 DEF ContainerExits, PruneContainers, workVars
  <2>2. \A n \in Containers : Present(n)' => Present(n)
    BY <1>3 DEF ContainerExits, PruneContainers, Present, ContainersOK
  <2>3. \A n \in Containers : state'[n] = "none" <=> state[n] = "none"
    BY <1>3 DEF ContainerExits, PruneContainers, Present, ContainersOK
  <2> QED
    BY <2>1, <2>2, <2>3, FreeUndisturbed
<1>4. CASE Crash
  BY <1>4, FreeUndisturbed DEF Crash, contVars, Present
<1>5. CASE Rebuild \/ PruneImages \/ (\E p \in Projects : RebuildImage(p)) \/ UNCHANGED dockerVars
  <2>1. UNCHANGED <<at, matches, cut, state, job, named>>
    BY <1>5 DEF Rebuild, PruneImages, RebuildImage, dockerVars, workVars, contVars
  <2> QED
    BY <2>1, FreeUndisturbed DEF Present
<1>6. ASSUME NEW j \in Jobs, ListContainers(j) PROVE FreeInv'
  <2>1. UNCHANGED <<state, job, named>>
    BY <1>6 DEF ListContainers, contVars
  <2>2. InOrder' /\ NamedIsNewest'
    BY <1>a, <2>1 DEF InOrder, NamedIsNewest, Present
  <2>3. ASSUME NEW k \in Jobs, k # j PROVE Listed(k)' /\ NameIsFree(k)'
    <3>1. at'[k] = at[k] /\ matches'[k] = matches[k] /\ (k \in cut' <=> k \in cut)
      BY <1>6, <2>3, GotoMoves DEF ListContainers, WorkOK
    <3> QED
      BY <1>a, <2>1, <3>1 DEF Listed, NameIsFree, Present
  <2>4. Listed(j)' /\ NameIsFree(j)'
    <3>1. CASE matches' = [matches EXCEPT ![j] = OfJob(j)] /\ Goto(j, "rename")
      <4>1. matches'[j] = OfJob(j) /\ at'[j] = "rename"
        BY <3>1, GotoMoves DEF WorkOK
      <4> QED
        BY <2>1, <4>1 DEF Listed, NameIsFree, OfJob, Present
    <3>2. CASE cut' = cut \cup {j} /\ Goto(j, "create")
      BY <3>2, GotoMoves DEF Listed, NameIsFree
    <3> QED
      BY <1>6, <3>1, <3>2 DEF ListContainers
  <2> QED
    BY <2>2, <2>3, <2>4 DEF FreeInv
<1>7. ASSUME NEW j \in Jobs, Rename(j) PROVE FreeInv'
  <2>1. UNCHANGED <<state, job>> /\ at[j] = "rename" /\ named' \subseteq named
    BY <1>7 DEF Rename
  <2>2. InOrder' /\ NamedIsNewest'
    BY <1>a, <2>1 DEF InOrder, NamedIsNewest, Present
  <2>3. ASSUME NEW k \in Jobs, k # j PROVE Listed(k)' /\ NameIsFree(k)'
    <3>1. at'[k] = at[k] /\ matches'[k] = matches[k] /\ (k \in cut' <=> k \in cut)
      BY <1>7, <2>3, GotoMoves DEF Rename, WorkOK
    <3> QED
      BY <1>a, <2>1, <3>1 DEF Listed, NameIsFree, Present
  <2>4. CASE matches[j] = {} /\ Goto(j, "create") /\ UNCHANGED named
    BY <1>a, <2>1, <2>2, <2>3, <2>4, GotoMoves DEF FreeInv, Listed, NameIsFree, Present
  <2>5. ASSUME NEW n \in Containers, named' = named \ {n},
               matches' = [matches EXCEPT ![j] = @ \ {n}], UNCHANGED at
        PROVE  FreeInv'
    <3>1. matches'[j] = matches[j] \ {n}
      BY <2>5 DEF WorkOK
    <3>2. Listed(j)' /\ NameIsFree(j)'
      BY <1>a, <2>1, <2>5, <3>1 DEF Listed, NameIsFree, Present
    <3> QED
      BY <2>2, <2>3, <3>2 DEF FreeInv
  <2>6. CASE Goto(j, "create") /\ cut' = cut \cup {j}
    <3>1. Listed(j)' /\ NameIsFree(j)'
      BY <2>6, GotoMoves DEF Listed, NameIsFree
    <3> QED
      BY <2>2, <2>3, <3>1 DEF FreeInv
  <2>7. ASSUME NEW n \in Containers, Newest(n, matches[j]), ~Present(n), Goto(j, "create"),
               UNCHANGED named
        PROVE  FreeInv'
    <3>1. \A m \in Containers : ~(Present(m) /\ job[m] = j /\ m \in named)
      <4> SUFFICES ASSUME NEW m \in Containers, Present(m), job[m] = j, m \in named PROVE FALSE
        OBVIOUS
      <4>1. m \in matches[j] /\ job[n] = j /\ state[n] # "none"
        BY <1>a, <2>1, <2>7 DEF Listed, Newest
      <4>2. m <= n /\ n <= m
        BY <1>a, <2>7, <4>1 DEF Newest, NamedIsNewest
      <4> QED
        BY <2>7, <4>2 DEF Containers
    <3>2. Listed(j)' /\ NameIsFree(j)'
      BY <2>1, <2>7, <3>1, GotoMoves DEF Listed, NameIsFree, Present
    <3> QED
      BY <2>2, <2>3, <3>2 DEF FreeInv
  <2> QED
    BY <1>7, <2>4, <2>5, <2>6, <2>7 DEF Rename
<1>8. ASSUME NEW j \in Jobs, CreateContainer(j) PROVE FreeInv'
  <2>1. UNCHANGED <<matches, cut>> /\ at[j] = "create" /\ at'[j] \in {"idle", "start"}
        /\ \A k \in Jobs \ {j} : at'[k] = at[k]
    BY <1>8, GotoMoves DEF CreateContainer
  <2>2. CASE UNCHANGED <<state, job, named>>
    <3>1. \A k \in Jobs : at'[k] \in {"rename", "create"} => at'[k] = at[k]
      BY <2>1
    <3> QED
      BY <2>1, <2>2, <3>1, FreeUndisturbed DEF Present
  <2>3. ASSUME NEW n \in Containers, Creatable(j), NextFree(n),
               state' = [state EXCEPT ![n] = "created"],
               job' = [job EXCEPT ![n] = j],
               named' = named \cup {n}
        PROVE  FreeInv'
    <3>1. \A m \in Containers : m # n => /\ state'[m] = state[m] /\ job'[m] = job[m]
                                         /\ Present(m)' <=> Present(m)
                                         /\ m \in named' <=> m \in named
      BY <2>3 DEF ContainersOK, Present
    <3>2. state'[n] = "created" /\ job'[n] = j /\ n \in named'
      BY <2>3 DEF ContainersOK
    <3>3. /\ \A m \in Containers : m < n => state[m] # "none"
          /\ state[n] = "none"
          /\ \A m \in Containers : n < m => state[m] = "none"
      BY <1>a, <2>3 DEF NextFree, InOrder
    <3>4. \A m \in Containers : m < n \/ m = n \/ n < m
      BY DockerConstants DEF Containers
    <3>5. \A m \in Containers : ~(Present(m) /\ job[m] = j /\ m \in named)
      BY <2>3 DEF Creatable, OfJob
    <3>6. InOrder'
      BY <1>a, <3>1, <3>2, <3>3, <3>4 DEF InOrder
    <3>7. NamedIsNewest'
      <4> SUFFICES ASSUME NEW m \in Containers, NEW i \in Containers, i \in named', Present(i)',
                          job'[m] = job'[i], state'[m] # "none"
                   PROVE  m <= i
        BY DEF NamedIsNewest
      <4>1. CASE i = n
        BY <3>1, <3>3, <3>4, <4>1 DEF Containers
      <4>2. CASE i # n /\ m # n
        BY <1>a, <3>1, <4>2 DEF NamedIsNewest
      <4>3. CASE i # n /\ m = n
        BY <3>1, <3>2, <3>5, <4>3
      <4> QED
        BY <4>1, <4>2, <4>3
    <3>8. ASSUME NEW k \in Jobs PROVE Listed(k)' /\ NameIsFree(k)'
      <4>1. CASE k = j
        BY <2>1, <4>1 DEF Listed, NameIsFree
      <4>2. CASE k # j
        <5>1. Listed(k)'
          <6> SUFFICES ASSUME at'[k] = "rename"
                       PROVE  /\ \A m \in matches'[k] : job'[m] = k /\ state'[m] # "none"
                              /\ \A m \in Containers : Present(m)' /\ job'[m] = k /\ m \in named'
                                                        => m \in matches'[k]
            BY DEF Listed
          <6>1. matches'[k] = matches[k] /\ at[k] = "rename" /\ matches[k] \subseteq Containers
            BY <2>1, <4>2 DEF WorkOK
          <6>2. \A m \in matches[k] : m # n
            BY <1>a, <3>3, <6>1 DEF Listed
          <6> QED
            BY <1>a, <3>1, <3>2, <4>2, <6>1, <6>2 DEF Listed
        <5>2. NameIsFree(k)'
          BY <1>a, <2>1, <3>1, <3>2, <4>2 DEF NameIsFree
        <5> QED
          BY <5>1, <5>2
      <4> QED
        BY <4>1, <4>2
    <3> QED
      BY <3>6, <3>7, <3>8 DEF FreeInv
  <2> QED
    BY <1>8, <2>2, <2>3 DEF CreateContainer
<1> QED
  BY <1>1, <1>2, <1>3, <1>4, <1>5, <1>6, <1>7, <1>8 DEF DockerNext

(* No container left behind, by a death or by a failed call, keeps a job   *)
(* from being built: the name is free by the time ContainerCreate takes    *)
(* it, whatever is pruned while the leftovers are renamed, unless a call   *)
(* of this very renameIfExists failed (job.go:244-263).                    *)
THEOREM LeftoversNeverBlock == DockerSpec => []LeftoversDoNotBlock
<1>1. DockerInit => FreeInv
  BY DEF DockerInit, FreeInv, InOrder, NamedIsNewest, Listed, NameIsFree, Present
<1> QED
  BY <1>1, DockerTypeCorrect, FreeStep, FreeInvImplies, PTL DEF DockerSpec

-----------------------------------------------------------------------------
(* The exit code that comes back.  While no call fails and no rebuild is   *)
(* under way, a StartContainer has no container before it creates one, its *)
(* container is there until it has been inspected, and no error is         *)
(* returned after that.                                                    *)
Quiet == used.faults = 0 /\ used.rebuilds = 0
Unhindered(k) ==
    /\ at[k] \in {"inspectImage", "list", "rename", "create"} => mine[k] = 0
    /\ at[k] \in {"start", "logs", "copy", "inspect"} => Present(mine[k])
    /\ at[k] \in {"remove", "idle"} /\ mine[k] # 0 => ~result[k].err
QuietInv == Quiet => rebuild = "idle" /\ \A k \in Jobs : Unhindered(k)

LEMMA QuietInvImplies == OwnInv /\ QuietInv => ExitCodeIsReturned
  BY DEF OwnInv, CodeIsOwn, QuietInv, Quiet, Unhindered, ExitCodeIsReturned

LEMMA RebuildsStay ==
    ASSUME DockerTypeOK, [DockerNext]_dockerVars, used'.rebuilds = 0
    PROVE  used.rebuilds = 0 /\ ~Rebuild
<1>0. UsedOK
  BY DockerParts
<1>1. ASSUME Rebuild PROVE used'.rebuilds # 0
  BY <1>0, <1>1 DEF Rebuild, UsedOK
<1>2. CASE UNCHANGED used
  BY <1>1, <1>2
<1>3. CASE \E f \in FaultPoints : Fails(f)
  BY <1>0, <1>1, <1>3 DEF Fails, UsedOK
<1>4. CASE Crash
  BY <1>0, <1>1, <1>4 DEF Crash, UsedOK
<1> QED
  BY <1>1, <1>2, <1>3, <1>4
  DEF DockerNext, dockerVars, BuildImage, InspectImage, ListContainers, Rename, CreateContainer,
      StartContainer, AttachLogs, CopyLogs, InspectContainer, RemoveContainer, ContainerExits,
      RebuildImage, PruneContainers, PruneImages, Fails

(* A step of one job: the others keep their containers, and the job itself *)
(* goes on as it should.                                                   *)
LEMMA QuietElsewhere ==
    ASSUME WorkOK, NEW j \in Jobs, \A k \in Jobs : Unhindered(k), Unhindered(j)',
           \A k \in Jobs \ {j} : at'[k] = at[k] /\ mine'[k] = mine[k] /\ result'[k] = result[k],
           \A k \in Jobs \ {j} : Present(mine[k]) => Present(mine[k])'
    PROVE  \A k \in Jobs : Unhindered(k)'
<1> SUFFICES ASSUME NEW k \in Jobs \ {j} PROVE Unhindered(k)'
  OBVIOUS
<1>1. Unhindered(k) /\ mine'[k] = mine[k] /\ at'[k] = at[k] /\ result'[k] = result[k]
  OBVIOUS
<1>2. Present(mine[k]) => state'[mine'[k]] \in {"created", "running", "exited"}
  BY <1>1 DEF Present
<1> QED
  BY <1>1, <1>2 DEF Unhindered, Present

LEMMA QuietStep ==
    DockerTypeOK /\ OwnInv /\ QuietInv /\ [DockerNext]_dockerVars => QuietInv'
<1> SUFFICES ASSUME DockerTypeOK, OwnInv, QuietInv, [DockerNext]_dockerVars, Quiet'
             PROVE  rebuild' = "idle" /\ \A k \in Jobs : Unhindered(k)'
  BY DEF QuietInv
<1>0. WorkOK /\ ResultOK /\ ContainersOK /\ UsedOK
  BY DockerParts
<1> USE <1>0
<1>a. Quiet /\ ~Rebuild
  BY FaultsStay, RebuildsStay DEF Quiet
<1>b. rebuild = "idle" /\ \A k \in Jobs : Unhindered(k)
  BY <1>a DEF QuietInv
<1>c. 0 \notin Containers
  BY DockerConstants DEF Containers
<1>d. \A f : ~Fails(f)
  BY FailsCounts DEF Quiet
<1>1. ASSUME NEW j \in Jobs, BuildImage(j)
      PROVE  rebuild' = "idle" /\ \A k \in Jobs : Unhindered(k)'
  <2>1. /\ mine' = [mine EXCEPT ![j] = 0] /\ Goto(j, "inspectImage")
        /\ result' = [result EXCEPT ![j] = NoResult] /\ UNCHANGED <<state, rebuild>>
    BY <1>1, <1>d DEF BuildImage, contVars, rebuildVars
  <2>2. mine'[j] = 0 /\ \A k \in Jobs \ {j} : mine'[k] = mine[k]
    BY <2>1 DEF WorkOK
  <2>3. Unhindered(j)'
    BY <2>1, <2>2, GotoMoves DEF Unhindered
  <2> QED
    BY <1>b, <2>1, <2>2, <2>3, GotoMoves, QuietElsewhere DEF Present, ResultOK
<1>2. ASSUME NEW j \in Jobs, InspectImage(j) \/ ListContainers(j) \/ Rename(j)
      PROVE  rebuild' = "idle" /\ \A k \in Jobs : Unhindered(k)'
  <2>1. UNCHANGED <<mine, state, rebuild>>
    BY <1>2 DEF InspectImage, ListContainers, Rename, contVars, rebuildVars
  <2>2. at[j] \in {"inspectImage", "list", "rename"} /\ mine[j] = 0
    BY <1>2, <1>b DEF InspectImage, ListContainers, Rename, Unhindered
  <2>3. /\ at'[j] \in {"idle", "list", "rename", "create"}
        /\ \A k \in Jobs \ {j} : at'[k] = at[k] /\ result'[k] = result[k]
    BY <1>2, GotoMoves, ErrorIsError DEF InspectImage, ListContainers, Rename
  <2>4. Unhindered(j)'
    BY <2>1, <2>2, <2>3 DEF Unhindered
  <2> QED
    BY <1>b, <2>1, <2>3, <2>4, QuietElsewhere DEF Present
<1>3. ASSUME NEW j \in Jobs, CreateContainer(j)
      PROVE  rebuild' = "idle" /\ \A k \in Jobs : Unhindered(k)'
  <2>0. mine[j] = 0 /\ UNCHANGED rebuild
    BY <1>3, <1>b DEF CreateContainer, Unhindered, rebuildVars
  <2>1. CASE Error(j, 0) /\ Goto(j, "idle") /\ UNCHANGED <<mine, state>>
    <3>1. Unhindered(j)'
      BY <2>0, <2>1, GotoMoves DEF Unhindered
    <3> QED
      BY <1>b, <2>0, <2>1, <3>1, GotoMoves, ErrorIsError, QuietElsewhere DEF Present
  <2>2. ASSUME NEW n \in Containers, state[n] = "none",
               state' = [state EXCEPT ![n] = "created"],
               mine' = [mine EXCEPT ![j] = n], Goto(j, "start"), UNCHANGED result
        PROVE  rebuild' = "idle" /\ \A k \in Jobs : Unhindered(k)'
    <3>1. mine'[j] = n /\ \A k \in Jobs \ {j} : mine'[k] = mine[k]
      BY <2>2 DEF WorkOK
    <3>2. state'[n] = "created" /\ \A m : Present(m) => m # n
      BY <2>2 DEF ContainersOK, Present
    <3>3. Unhindered(j)'
      BY <2>2, <3>1, <3>2, GotoMoves DEF Unhindered, Present
    <3>4. ASSUME NEW k \in Jobs \ {j}, Present(mine[k]) PROVE Present(mine[k])'
      BY <2>2, <3>1, <3>2, <3>4 DEF Present
    <3> QED
      BY <1>b, <2>0, <2>2, <3>1, <3>3, <3>4, GotoMoves, QuietElsewhere
  <2> QED
    BY <1>3, <2>1, <2>2 DEF CreateContainer, NextFree
<1>4. ASSUME NEW j \in Jobs, StartContainer(j)
      PROVE  rebuild' = "idle" /\ \A k \in Jobs : Unhindered(k)'
  <2>1. Present(mine[j]) /\ mine[j] \in Containers
    BY <1>4, <1>b DEF StartContainer, Unhindered, WorkOK
  <2>2. /\ state' = [state EXCEPT ![mine[j]] = "running"] /\ Goto(j, "logs")
        /\ UNCHANGED <<mine, result, rebuild>>
    BY <1>4, <1>d, <2>1 DEF StartContainer, rebuildVars
  <2>3. state'[mine[j]] = "running" /\ \A n : n # mine[j] => (Present(n) => Present(n)')
    BY <2>1, <2>2 DEF ContainersOK, Present
  <2>4. Unhindered(j)'
    BY <2>2, <2>3, GotoMoves DEF Unhindered, Present
  <2>5. ASSUME NEW k \in Jobs \ {j}, Present(mine[k]) PROVE Present(mine[k])'
    BY <2>2, <2>3, <2>5 DEF Present
  <2> QED
    BY <1>b, <2>2, <2>4, <2>5, GotoMoves, QuietElsewhere
<1>5. ASSUME NEW j \in Jobs, AttachLogs(j) \/ CopyLogs(j)
      PROVE  rebuild' = "idle" /\ \A k \in Jobs : Unhindered(k)'
  <2>1. Present(mine[j])
    BY <1>5, <1>b DEF AttachLogs, CopyLogs, Unhindered
  <2>2. (Goto(j, "copy") \/ Goto(j, "inspect")) /\ UNCHANGED <<mine, state, result, rebuild>>
    BY <1>5, <1>d, <2>1 DEF AttachLogs, CopyLogs, contVars, rebuildVars
  <2>3. Unhindered(j)'
    BY <2>1, <2>2, GotoMoves DEF Unhindered, Present
  <2> QED
    BY <1>b, <2>2, <2>3, GotoMoves, QuietElsewhere DEF Present
<1>6. ASSUME NEW j \in Jobs, InspectContainer(j)
      PROVE  rebuild' = "idle" /\ \A k \in Jobs : Unhindered(k)'
  <2>1. Present(mine[j])
    BY <1>6, <1>b DEF InspectContainer, Unhindered
  <2>2. /\ result' = [result EXCEPT ![j] = [code |-> code[mine[j]], err |-> FALSE]]
        /\ Goto(j, "remove") /\ UNCHANGED <<mine, state, rebuild>>
    BY <1>6, <1>d, <2>1 DEF InspectContainer, contVars, rebuildVars
  <2>3. ~result'[j].err /\ \A k \in Jobs \ {j} : result'[k] = result[k]
    BY <2>2 DEF ResultOK
  <2>4. Unhindered(j)'
    BY <2>2, <2>3, GotoMoves DEF Unhindered
  <2> QED
    BY <1>b, <2>2, <2>3, <2>4, GotoMoves, QuietElsewhere DEF Present
<1>7. ASSUME NEW j \in Jobs, RemoveContainer(j)
      PROVE  rebuild' = "idle" /\ \A k \in Jobs : Unhindered(k)'
  <2>1. /\ at[j] = "remove" /\ Goto(j, "idle") /\ UNCHANGED <<mine, result, rebuild>>
        /\ mine[j] \in Containers
    BY <1>7 DEF RemoveContainer, rebuildVars, WorkOK
  <2>2. Unhindered(j)'
    BY <1>b, <2>1, GotoMoves DEF Unhindered
  <2>3. \A n \in Containers : n # mine[j] /\ Present(n) => Present(n)'
    BY <1>7, <2>1 DEF RemoveContainer, ContainersOK, Present
  <2>4. ASSUME NEW k \in Jobs \ {j}, at[k] \in {"start", "logs", "copy", "inspect"}
        PROVE  mine[k] # mine[j] /\ mine[k] \in Containers
    BY <1>c, <2>1, <2>4 DEF OwnInv, Owned, WorkOK
  <2>5. ASSUME NEW k \in Jobs \ {j} PROVE Unhindered(k)'
    <3>1. at'[k] = at[k] /\ mine'[k] = mine[k] /\ result'[k] = result[k] /\ Unhindered(k)
      BY <1>b, <2>1, GotoMoves
    <3>2. at[k] \in {"start", "logs", "copy", "inspect"} => Present(mine[k])'
      BY <2>1, <2>3, <2>4, <3>1 DEF Unhindered, Present
    <3> QED
      BY <3>1, <3>2 DEF Unhindered
  <2> QED
    BY <1>b, <2>1, <2>2, <2>5
<1>8. ASSUME NEW n \in Containers, ContainerExits(n)
      PROVE  rebuild' = "idle" /\ \A k \in Jobs : Unhindered(k)'
  <2>1. UNCHANGED <<at, mine, result, rebuild>>
    BY <1>8 DEF ContainerExits, workVars, rebuildVars
  <2>2. \A m : Present(m) => Present(m)'
    BY <1>8 DEF ContainerExits, Present, ContainersOK
  <2>3. ASSUME NEW k \in Jobs, Present(mine[k]) PROVE Present(mine[k])'
    BY <2>1, <2>2, <2>3 DEF Present
  <2> QED
    BY <1>b, <2>1, <2>3 DEF Unhindered
<1>9. CASE Crash
  BY <1>9, <1>b DEF Crash, rebuildVars, Unhindered
<1>10. CASE PruneContainers \/ PruneImages \/ \E p \in Projects : RebuildImage(p)
  BY <1>10, <1>b DEF PruneContainers, PruneImages, RebuildImage
<1>11. CASE UNCHANGED dockerVars
  BY <1>11, <1>b DEF dockerVars, workVars, contVars, rebuildVars, Unhindered, Present
<1> QED
  BY <1>a, <1>1, <1>2, <1>3, <1>4, <1>5, <1>6, <1>7, <1>8, <1>9, <1>10, <1>11 DEF DockerNext

(* While no docker call fails and no rebuild prunes, StartContainer does   *)
(* not return before its container has ended, and returns no error,        *)
(* whatever an earlier server left behind (job.go:176-241).                *)
THEOREM ExitCodesAreReturned == DockerSpec => []ExitCodeIsReturned
<1>1. DockerInit => OwnInv /\ QuietInv
  BY DEF DockerInit, OwnInv, Owned, Started, Ended, CodeIsOwn, QuietInv, Unhindered
<1> QED
  BY <1>1, DockerTypeCorrect, OwnStep, QuietStep, QuietInvImplies, PTL DEF DockerSpec

=============================================================================
