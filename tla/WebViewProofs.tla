--------------------------- MODULE WebViewProofs ---------------------------
(***************************************************************************)
(* Proofs about WebView, for every set of projects and jobs.  The web view *)
(* takes no lock: what it has read is right only because directories move  *)
(* in one direction, from pending/ to ready/, until they are removed, and  *)
(* because pending/ is listed before ready/.                               *)
(***************************************************************************)
EXTENDS WebView, FiniteSetTheorems, TLAPS

States == {"absent"} \cup InPending \cup InReady

(* The points of the loop of getJobs, and the ones before ready/ is read. *)
Before == {"statPending", "statReady", "listPending", "listReady"}
Reading == {"readPending", "readReady"}
Loop == Before \cup Reading

(* The project the loop is at, and one that it has still to come to. *)
Current(j) == now # 0 /\ Projects[now] = ProjectOf[j]
InLeft(j) == \E i \in left : Projects[i] = ProjectOf[j]
HasEntry(j, place) == \E i \in 1..Len(jobs) : jobs[i] = <<j, ProjectOf[j], place>>

(* A job has a directory only where its project has both of them. *)
DiskInv == \A j \in Jobs : Exists(j) => dirs[ProjectOf[j]] = 3

(***************************************************************************)
(* What the listing knows of a job whose build was not removed.  Once a    *)
(* job is seen under ready/ it stays there, so it cannot be read under     *)
(* pending/ as well; a job that was there when the listing began and that  *)
(* was missed under pending/ has moved by the time ready/ is listed.       *)
(***************************************************************************)
ReadOnce(j) ==
    /\ \A place \in {"pending", "ready"} : HasEntry(j, place) =>
         ~InLeft(j) /\ (Current(j) => at \in Reading)
    /\ HasEntry(j, "ready") /\ Current(j) => at = "readReady"
    /\ j \in readyJobs => ~InLeft(j) /\ (Current(j) => at \in Reading)
    /\ j \notin discarded =>
         /\ ~(HasEntry(j, "pending") /\ HasEntry(j, "ready"))
         /\ Current(j) /\ HasEntry(j, "pending") => j \notin readyJobs
         /\ Current(j) /\ j \in readyJobs => Place(j) = "ready"

NotMissed(j) ==
    j \in due \ discarded =>
        /\ Exists(j)
        /\ InLeft(j) \/ Current(j) \/ HasEntry(j, "pending") \/ HasEntry(j, "ready")
        /\ Current(j) =>
             /\ at = "statReady" => "pending" \in found
             /\ at = "listPending" => found = {"pending", "ready"}
             /\ at = "listReady" => "ready" \in found /\ (j \in pendingJobs \/ Place(j) = "ready")
             /\ at = "readPending" => j \in pendingJobs \/ j \in readyJobs
             /\ at = "readReady" => j \in readyJobs \/ HasEntry(j, "pending")

(* The entries are of jobs of the project they are listed under, each once. *)
EntriesInv ==
    /\ \A i \in 1..Len(jobs) : jobs[i][2] = ProjectOf[jobs[i][1]]
    /\ \A i, k \in 1..Len(jobs) : jobs[i] = jobs[k] => i = k

ListInv ==
    at \in Loop \cup {"listed"} =>
        /\ now \notin left
        /\ at = "listed" => now = 0 /\ left = {}
        /\ EntriesInv
        /\ \A j \in Jobs : ReadOnce(j) /\ NotMissed(j)

(* What the listing knows as long as nothing has happened to the           *)
(* directories and no project is half made.                                *)
Undisturbed == at # "idle" /\ disturbed = {} /\ \A p \in ProjectSet : dirs[p] \in {0, 3}
QuietInv ==
    Undisturbed =>
        /\ at # "failed"
        /\ \A j \in Jobs : Exists(j) => job[j] \in HasInfo
        /\ \A i \in left : dirs[Projects[i]] = 3
        /\ at \in Loop => dirs[Projects[now]] = 3
        /\ at = "statReady" => "pending" \in found
        /\ at \in {"listPending", "listReady"} => found = {"pending", "ready"}
        /\ at \in {"listReady"} \cup Reading => pendingJobs = Names("pending")
        /\ at \in Reading => readyJobs = Names("ready")

(* What HandleShowJob knows of the job it shows. *)
ShowInv ==
    /\ showAt = "idle" => shown = NoJob /\ showDue = "none"
    /\ showDue \in {"there", "done"} => shown \in Jobs /\ Exists(shown)
    /\ showDue = "done" => job[shown] = "done"
    /\ showAt = "getReady" /\ showDue = "there" => Place(shown) = "ready"
    /\ showAt \in {"readInfo", "readLog"} /\ showDue = "done" => showState = "ready"
    /\ ExistingJobIsFound

WebInv == WebTypeOK /\ DiskInv /\ ListInv /\ QuietInv /\ ShowInv

-----------------------------------------------------------------------------
LEMMA ProjectFacts ==
    /\ Len(Projects) \in Nat
    /\ \A i \in 1..Len(Projects) : Projects[i] \in ProjectSet
    /\ \A j \in Jobs : ProjectOf[j] \in ProjectSet
    /\ \A p \in ProjectSet : \E i \in 1..Len(Projects) : Projects[i] = p
    /\ \A i, k \in 1..Len(Projects) : Projects[i] = Projects[k] => i = k
  BY WebConstants DEF ProjectSet

(* The first program points of a job's directory precede the later ones. *)
LEMMA JobSteps ==
    /\ \A step \in WorkStep : step[1] \in {"absent"} \cup InPending /\ step[2] \in InPending
    /\ \A step \in MoveStep : step[1] \in InPending /\ step[2] \in InReady
    /\ \A step \in RemoveStep : /\ step[1] \in InReady \ {"done"}
                                /\ step[2] \in {"absent"} \cup InReady
  BY DEF WorkStep, MoveStep, RemoveStep, InPending, InReady

LEMMA WebInitInv == WebInit => WebInv
<1> SUFFICES ASSUME WebInit PROVE WebInv
  OBVIOUS
<1> USE DEF WebInit
<1>1. WebTypeOK
  BY ProjectFacts DEF WebTypeOK
<1>2. DiskInv
  BY DEF DiskInv, Exists
<1>3. ListInv /\ QuietInv
  BY DEF ListInv, QuietInv, Undisturbed, Loop, Before, Reading
<1>4. ShowInv
  BY DEF ShowInv, ExistingJobIsFound
<1> QED
  BY <1>1, <1>2, <1>3, <1>4 DEF WebInv

-----------------------------------------------------------------------------
(* The steps of the workers. *)
DiskStep ==
    \/ \E p \in ProjectSet : MakeDir(p)
    \/ \E j \in Jobs : Work(j) \/ MoveToReady(j) \/ RemoveBuild(j)

(***************************************************************************)
(* What they leave alone: the variables of the web view, directories that  *)
(* exist, and a job under ready/ unless its removal is on record.          *)
(***************************************************************************)
DiskFrame ==
    /\ UNCHANGED <<listVars, showVars>>
    /\ dirs' \in [ProjectSet -> 0..3] /\ job' \in [Jobs -> States]
    /\ \A p \in ProjectSet : dirs[p] = 3 => dirs'[p] = 3
    /\ discarded \subseteq discarded' /\ discarded' \subseteq Jobs
    /\ disturbed' # {} /\ disturbed' \subseteq {"move", "other"}
    /\ showDue' = showDue \/ (showDue' = "removed" /\ shown \in Jobs)
    /\ \A j \in Jobs : j \notin discarded' \/ (j = shown /\ showDue' # "removed") =>
         /\ job[j] # "absent" => job'[j] # "absent"
         /\ job[j] \in InReady => job'[j] \in InReady
         /\ job[j] = "done" => job'[j] = "done"
    /\ \A j \in Jobs : job'[j] # "absent" => dirs'[ProjectOf[j]] = 3

LEMMA PlaceIsReady ==
    ASSUME WebTypeOK, NEW j \in Jobs
    PROVE  /\ Place(j) = "ready" <=> job[j] \in InReady
           /\ Place(j) = "pending" <=> job[j] \in InPending
           /\ Exists(j) <=> Place(j) \in {"pending", "ready"}
  BY DEF Place, Exists, WebTypeOK, InPending, InReady

(* The states under pending/ and under ready/ are different ones. *)
LEMMA PlacesDiffer ==
    /\ \A s \in InPending : s \notin InReady /\ s # "absent" /\ s # "done"
    /\ \A s \in InReady : s \notin InPending /\ s # "absent"
    /\ InPending \subseteq States /\ InReady \subseteq States /\ "absent" \in States
  BY DEF InPending, InReady, States

LEMMA DiskStepFrame ==
    ASSUME WebTypeOK, DiskInv, DiskStep
    PROVE  DiskFrame
<1>0. /\ dirs \in [ProjectSet -> 0..3] /\ job \in [Jobs -> States]
      /\ discarded \subseteq Jobs /\ disturbed \subseteq {"move", "other"}
      /\ \A j \in Jobs : job[j] # "absent" => dirs[ProjectOf[j]] = 3
  BY DEF WebTypeOK, DiskInv, Exists, States
<1>1. ASSUME NEW p \in ProjectSet, MakeDir(p) PROVE DiskFrame
  <2>1. /\ dirs' = [dirs EXCEPT ![p] = dirs[p] + 1] /\ dirs[p] \in 0..2
        /\ disturbed' = disturbed \cup {"other"}
        /\ UNCHANGED <<job, listVars, showVars, discarded, showDue>>
    BY <1>0, <1>1 DEF MakeDir
  <2>2. dirs' \in [ProjectSet -> 0..3] /\ \A q \in ProjectSet : dirs[q] = 3 => dirs'[q] = 3
    BY <1>0, <2>1
  <2>3. \A j \in Jobs : job'[j] # "absent" => dirs'[ProjectOf[j]] = 3
    BY <1>0, <2>1, <2>2, ProjectFacts
  <2>4. disturbed' # {} /\ disturbed' \subseteq {"move", "other"}
    BY <1>0, <2>1
  <2>5. UNCHANGED <<listVars, showVars>> /\ job' = job /\ discarded' = discarded /\ showDue' = showDue
    BY <2>1
  <2> QED
    BY <1>0, <2>2, <2>3, <2>4, <2>5 DEF DiskFrame
(* A step that changes one job. *)
<1>2. ASSUME NEW j \in Jobs, NEW s \in States, job' = [job EXCEPT ![j] = s], dirs' = dirs,
             UNCHANGED <<listVars, showVars>>, job[j] = "absent" => dirs[ProjectOf[j]] = 3,
             disturbed' \in {disturbed \cup {"move"}, disturbed \cup {"other"}},
             \/ UNCHANGED <<discarded, showDue>> /\ job[j] \notin InReady /\ s # "absent"
             \/ /\ discarded' = discarded \cup {j} /\ job[j] # "done" /\ job[j] # "absent"
                /\ showDue' = IF shown = j THEN "removed" ELSE showDue
      PROVE  DiskFrame
  <2>1. /\ job' \in [Jobs -> States] /\ job'[j] = s
        /\ \A k \in Jobs \ {j} : job'[k] = job[k]
    BY <1>0, <1>2
  <2>2. /\ discarded \subseteq discarded' /\ discarded' \subseteq Jobs
        /\ showDue' = showDue \/ (showDue' = "removed" /\ shown \in Jobs)
    BY <1>0, <1>2
  <2>5. disturbed' # {} /\ disturbed' \subseteq {"move", "other"}
    BY <1>0, <1>2
  <2>3. \A k \in Jobs : k \notin discarded' \/ (k = shown /\ showDue' # "removed") =>
         /\ job[k] # "absent" => job'[k] # "absent"
         /\ job[k] \in InReady => job'[k] \in InReady
         /\ job[k] = "done" => job'[k] = "done"
    <3>1. ASSUME j \notin discarded' \/ (j = shown /\ showDue' # "removed")
          PROVE  job[j] \notin InReady /\ s # "absent"
      BY <1>2, <3>1
    <3>2. "done" \in InReady
      BY DEF InReady
    <3> QED
      BY <2>1, <3>1, <3>2
  <2>4. \A k \in Jobs : job'[k] # "absent" => dirs'[ProjectOf[k]] = 3
    BY <1>0, <1>2, <2>1
  <2> QED
    BY <1>0, <1>2, <2>1, <2>2, <2>3, <2>4, <2>5 DEF DiskFrame
<1>3. ASSUME NEW j \in Jobs, Work(j) PROVE DiskFrame
  <2>1. PICK step \in WorkStep : /\ job[j] = step[1] /\ (step[1] = "absent" => dirs[ProjectOf[j]] = 3)
                                 /\ job' = [job EXCEPT ![j] = step[2]]
    BY <1>3 DEF Work
  <2>2. job[j] \notin InReady /\ step[2] # "absent" /\ step[2] \in States
    BY <2>1, JobSteps, PlacesDiffer
  <2> QED
    BY <1>2, <1>3, <2>1, <2>2 DEF Work
<1>4. ASSUME NEW j \in Jobs, MoveToReady(j) PROVE DiskFrame
  <2>1. PICK step \in MoveStep : job[j] = step[1] /\ job' = [job EXCEPT ![j] = step[2]]
    BY <1>4 DEF MoveToReady
  <2>2. job[j] \notin InReady /\ job[j] # "absent" /\ step[2] # "absent" /\ step[2] \in States
    BY <2>1, JobSteps, PlacesDiffer
  <2> QED
    BY <1>2, <1>4, <2>1, <2>2 DEF MoveToReady
<1>5. ASSUME NEW j \in Jobs, RemoveBuild(j) PROVE DiskFrame
  <2>1. PICK step \in RemoveStep : job[j] = step[1] /\ job' = [job EXCEPT ![j] = step[2]]
    BY <1>5 DEF RemoveBuild
  <2>2. job[j] # "done" /\ job[j] # "absent" /\ step[2] \in States
    BY <2>1, JobSteps, PlacesDiffer
  <2> QED
    BY <1>2, <1>5, <2>1, <2>2 DEF RemoveBuild
<1> QED
  BY <1>1, <1>3, <1>4, <1>5 DEF DiskStep

LEMMA DiskStepInv ==
    ASSUME WebInv, DiskStep
    PROVE  WebInv'
<1>0. WebTypeOK /\ DiskInv /\ ListInv /\ ShowInv /\ DiskFrame
  BY DiskStepFrame DEF WebInv
<1>1. WebTypeOK'
  BY <1>0 DEF WebTypeOK, DiskFrame, listVars, showVars, States
<1>2. DiskInv'
  BY <1>0 DEF DiskFrame, DiskInv, Exists
<1>3. /\ UNCHANGED <<at, now, left, found, pendingJobs, readyJobs, jobs, due>>
      /\ UNCHANGED <<shown, showAt, showState>>
      /\ discarded \subseteq discarded'
  BY <1>0 DEF DiskFrame, listVars, showVars
<1>4. ASSUME NEW j \in Jobs, j \notin discarded' \/ (j = shown /\ showDue' # "removed")
      PROVE  (Exists(j) => Exists(j)') /\ (Place(j) = "ready" => Place(j)' = "ready")
  <2>1. job[j] \in States /\ job'[j] \in States
    BY <1>0 DEF DiskFrame, WebTypeOK, States
  <2>2. Place(j) = "ready" => job[j] \in InReady
    BY <1>0, PlaceIsReady
  <2>3. job'[j] \in InReady => Place(j)' = "ready"
    BY PlacesDiffer DEF Place
  <2> QED
    BY <1>0, <1>4, <2>2, <2>3 DEF DiskFrame, Exists
<1>5. ListInv'
  <2> SUFFICES ASSUME at \in Loop \cup {"listed"}
               PROVE  EntriesInv' /\ \A j \in Jobs : ReadOnce(j)' /\ NotMissed(j)'
    BY <1>0, <1>3 DEF ListInv
  <2>1. EntriesInv'
    BY <1>0, <1>3 DEF ListInv, EntriesInv
  <2>2. ASSUME NEW j \in Jobs PROVE ReadOnce(j)' /\ NotMissed(j)'
    <3>1. ReadOnce(j) /\ NotMissed(j)
      BY <1>0 DEF ListInv
    <3>2. /\ Current(j)' <=> Current(j)
          /\ InLeft(j)' <=> InLeft(j)
          /\ \A place : HasEntry(j, place)' <=> HasEntry(j, place)
      BY <1>3 DEF Current, InLeft, HasEntry
    <3>3. ReadOnce(j)'
      BY <1>3, <1>4, <3>1, <3>2 DEF ReadOnce
    <3>4. NotMissed(j)'
      BY <1>3, <1>4, <3>1, <3>2 DEF NotMissed
    <3> QED
      BY <3>3, <3>4
  <2> QED
    BY <2>1, <2>2
<1>6. QuietInv'
  BY <1>0 DEF DiskFrame, QuietInv, Undisturbed
<1>7. ShowInv'
  <2>1. showDue' = showDue \/ (showDue' = "removed" /\ shown \in Jobs)
    BY <1>0 DEF DiskFrame
  <2>2. CASE showDue' = "removed" /\ shown \in Jobs
    BY <1>0, <1>3, <2>2, WebConstants DEF ShowInv, ExistingJobIsFound
  <2>3. CASE showDue' = showDue /\ showDue' # "removed"
    <3>1. showDue \in {"there", "done"} => shown \in Jobs /\ Exists(shown)
      BY <1>0 DEF ShowInv
    <3>2. shown \in Jobs /\ job[shown] = "done" => job'[shown] = "done"
      BY <1>0, <2>3 DEF DiskFrame
    <3>3. shown \in Jobs => /\ Exists(shown) => Exists(shown)'
                            /\ Place(shown) = "ready" => Place(shown)' = "ready"
      BY <1>3, <1>4, <2>3 DEF Exists, Place
    <3> QED
      BY <1>0, <1>3, <2>3, <3>1, <3>2, <3>3 DEF ShowInv, ExistingJobIsFound
  <2> QED
    BY <1>0, <1>3, <2>1, <2>2, <2>3 DEF ShowInv, ExistingJobIsFound
<1> QED
  BY <1>1, <1>2, <1>5, <1>6, <1>7 DEF WebInv

-----------------------------------------------------------------------------
(* The steps of HandleShowJob. *)
ShowStep ==
    \/ \E j \in ShownJobs : ShowJob(j)
    \/ GetStatePending \/ GetStateReady \/ ReadBuildInfo \/ ReadLog

(* Nothing that the listing knows depends on the job that is shown. *)
LEMMA OthersUnchanged ==
    ASSUME UNCHANGED <<diskVars, listVars, discarded, disturbed>>
    PROVE  /\ DiskInv => DiskInv'
           /\ ListInv => ListInv'
           /\ QuietInv => QuietInv'
<1> USE DEF diskVars, listVars
<1>1. DiskInv => DiskInv'
  BY DEF DiskInv, Exists
<1>2. ListInv => ListInv'
  <2>1. EntriesInv => EntriesInv'
    BY DEF EntriesInv
  <2>2. ASSUME NEW j \in Jobs PROVE (ReadOnce(j) => ReadOnce(j)') /\ (NotMissed(j) => NotMissed(j)')
    <3>1. /\ Current(j)' <=> Current(j)
          /\ InLeft(j)' <=> InLeft(j)
          /\ HasEntry(j, "pending")' <=> HasEntry(j, "pending")
          /\ HasEntry(j, "ready")' <=> HasEntry(j, "ready")
          /\ Exists(j)' <=> Exists(j)
      BY DEF Current, InLeft, HasEntry, Exists
    <3>2. Place(j)' = Place(j)
      BY DEF Place
    <3>3. ReadOnce(j) => ReadOnce(j)'
      BY <3>1, <3>2 DEF ReadOnce
    <3>4. NotMissed(j) => NotMissed(j)'
      BY <3>1, <3>2 DEF NotMissed
    <3> QED
      BY <3>3, <3>4
  <2> QED
    BY <2>1, <2>2 DEF ListInv
<1>3. QuietInv => QuietInv'
  BY DEF QuietInv, Undisturbed, Names, Place, Exists
<1> QED
  BY <1>1, <1>2, <1>3

LEMMA ShowStepInv ==
    ASSUME WebInv, ShowStep
    PROVE  WebInv'
<1>0. WebTypeOK /\ DiskInv /\ ListInv /\ QuietInv /\ ShowInv
  BY DEF WebInv
<1>1. UNCHANGED <<diskVars, listVars, discarded, disturbed>>
  BY DEF ShowStep, ShowJob, GetStatePending, GetStateReady, ReadBuildInfo, ReadLog, historyVars
<1>2. \A j \in Jobs : /\ Place(j)' = Place(j) /\ (Exists(j)' <=> Exists(j))
                      /\ (Place(j) = "ready" <=> job[j] \in InReady)
                      /\ Exists(j) <=> Place(j) \in {"pending", "ready"}
  BY <1>0, <1>1, PlaceIsReady DEF diskVars, Place, Exists
<1>3. "done" \in InReady /\ "done" \in HasInfo /\ "done" \in HasLog
  BY DEF InReady, HasInfo, HasLog
<1>4. ASSUME NEW j \in ShownJobs, ShowJob(j) PROVE WebTypeOK' /\ ShowInv'
  <2>1. /\ j \in Jobs /\ shown' = j /\ showAt' = "getState" /\ showState' = "none" /\ job' = job
        /\ showDue' = IF job[j] = "done" THEN "done" ELSE IF Exists(j) THEN "there" ELSE "none"
    BY <1>1, <1>4, WebConstants DEF ShowJob, diskVars
  <2>2. WebTypeOK'
    BY <1>0, <1>1, <2>1 DEF WebTypeOK, diskVars, listVars
  <2>3. ShowInv'
    <3>1. job[j] = "done" => Exists(j)
      BY DEF Exists
    <3> QED
      BY <1>2, <2>1, <3>1 DEF ShowInv, ExistingJobIsFound, Exists
  <2> QED
    BY <2>2, <2>3
<1>5. ASSUME UNCHANGED <<shown, showDue>>, showAt # "idle", showAt' # "idle",
             showState' \in {"none", "pending", "ready"},
             showAt' \in {"getReady", "readInfo", "readLog", "shown", "notFound", "unreadable"},
             showDue \in {"there", "done"} =>
                 /\ showAt' = "getReady" => Place(shown) = "ready"
                 /\ showAt' # "notFound"
                 /\ showDue = "done" => /\ showAt' \in {"readInfo", "readLog"} => showState' = "ready"
                                       /\ showAt' # "unreadable"
      PROVE  WebTypeOK' /\ ShowInv'
  <2>1. WebTypeOK'
    BY <1>0, <1>1, <1>5 DEF WebTypeOK, diskVars, listVars
  <2>2. job' = job /\ showDue \in {"none", "there", "done", "removed"}
    BY <1>0, <1>1 DEF diskVars, WebTypeOK
  <2>3. showDue' \in {"there", "done"} => shown \in Jobs /\ Exists(shown)' /\ Place(shown)' = Place(shown)
    BY <1>0, <1>2, <1>5, <2>2 DEF ShowInv, Exists, Place
  <2>4. ShowInv'
    BY <1>0, <1>5, <2>2, <2>3 DEF ShowInv, ExistingJobIsFound
  <2> QED
    BY <2>1, <2>4
<1>6. showDue \in {"there", "done"} =>
        /\ shown \in Jobs /\ Place(shown) \in {"pending", "ready"}
        /\ showDue = "done" => Place(shown) = "ready" /\ job[shown] = "done"
  BY <1>0, <1>2, <1>3 DEF ShowInv
<1>7. showState \in {"none", "pending", "ready"}
  BY <1>0 DEF WebTypeOK
<1>8. ASSUME GetStatePending PROVE WebTypeOK' /\ ShowInv'
  BY <1>5, <1>6, <1>7, <1>8 DEF GetStatePending, historyVars
<1>9. ASSUME GetStateReady PROVE WebTypeOK' /\ ShowInv'
  <2>1. showDue \in {"there", "done"} => Place(shown) = "ready"
    BY <1>0, <1>6, <1>9 DEF GetStateReady, ShowInv
  <2> QED
    BY <1>5, <1>6, <1>7, <1>9, <2>1 DEF GetStateReady, historyVars
<1>10. ASSUME ReadBuildInfo PROVE WebTypeOK' /\ ShowInv'
  <2>1. showDue = "done" => showState = "ready" /\ Place(shown) = showState /\ job[shown] \in HasInfo
    BY <1>0, <1>3, <1>6, <1>10 DEF ReadBuildInfo, ShowInv
  <2> QED
    BY <1>5, <1>6, <1>7, <1>10, <2>1 DEF ReadBuildInfo, historyVars
<1>11. ASSUME ReadLog PROVE WebTypeOK' /\ ShowInv'
  <2>1. showDue = "done" => showState = "ready" /\ Place(shown) = showState /\ job[shown] \in HasLog
    BY <1>0, <1>3, <1>6, <1>11 DEF ReadLog, ShowInv
  <2> QED
    BY <1>5, <1>6, <1>7, <1>11, <2>1 DEF ReadLog, historyVars
<1>12. WebTypeOK' /\ ShowInv'
  BY <1>4, <1>8, <1>9, <1>10, <1>11 DEF ShowStep
<1> QED
  BY <1>0, <1>1, <1>12, OthersUnchanged DEF WebInv

-----------------------------------------------------------------------------
(* The steps of getJobs. *)

(* The loop goes on with a project of those that are left. *)
LEMMA LoopGoesOn ==
    ASSUME NEW rest \in SUBSET (1..Len(Projects)), NextProject(rest)
    PROVE  /\ now' \in 0..Len(Projects) /\ left' \subseteq rest /\ now' \notin left'
           /\ at' \in {"statPending", "listed"}
           /\ at' = "statPending" => now' \in rest /\ now' # 0
           /\ at' = "listed" => now' = 0 /\ left' = {}
           /\ \A j : Current(j)' \/ InLeft(j)' <=> \E i \in rest : Projects[i] = ProjectOf[j]
<1>0. 0 \notin rest /\ Len(Projects) \in Nat
  BY ProjectFacts
<1>1. CASE rest = {} /\ at' = "listed" /\ now' = 0 /\ left' = {}
  BY <1>0, <1>1 DEF Current, InLeft
<1>2. CASE \E i \in rest : now' = i /\ left' = rest \ {i} /\ at' = "statPending"
  BY <1>0, <1>2 DEF Current, InLeft
<1> QED
  BY <1>1, <1>2 DEF NextProject

(* A project is in one place of the list only. *)
LEMMA CurrentIsNotLeft ==
    ASSUME WebTypeOK, now \notin left, NEW j \in Jobs, Current(j)
    PROVE  ~InLeft(j)
<1>1. now \in 1..Len(Projects) /\ left \subseteq 1..Len(Projects)
  BY ProjectFacts DEF WebTypeOK, Current
<1> QED
  BY <1>1, ProjectFacts DEF Current, InLeft

LEMMA Appended ==
    ASSUME NEW T, NEW s \in Seq(T), NEW e \in T
    PROVE  /\ Append(s, e) \in Seq(T) /\ Len(Append(s, e)) = Len(s) + 1 /\ Len(s) \in Nat
           /\ Append(s, e)[Len(s) + 1] = e /\ \A i \in 1..Len(s) : Append(s, e)[i] = s[i]
  OBVIOUS

LEMMA EntryAppended ==
    ASSUME WebTypeOK, NEW e \in Jobs \X ProjectSet \X {"pending", "ready"}, jobs' = Append(jobs, e)
    PROVE  /\ jobs' \in Seq(Jobs \X ProjectSet \X {"pending", "ready"})
           /\ Len(jobs') = Len(jobs) + 1 /\ Len(jobs) \in Nat
           /\ jobs'[Len(jobs')] = e /\ \A i \in 1..Len(jobs) : jobs'[i] = jobs[i]
           /\ \A j, place : HasEntry(j, place)' <=> HasEntry(j, place) \/ e = <<j, ProjectOf[j], place>>
<1>1. /\ jobs' \in Seq(Jobs \X ProjectSet \X {"pending", "ready"})
      /\ Len(jobs') = Len(jobs) + 1 /\ Len(jobs) \in Nat
      /\ jobs'[Len(jobs')] = e /\ \A i \in 1..Len(jobs) : jobs'[i] = jobs[i]
  BY Appended DEF WebTypeOK
<1>2. \A j, place : HasEntry(j, place)' <=> HasEntry(j, place) \/ e = <<j, ProjectOf[j], place>>
  <2> SUFFICES ASSUME NEW t
               PROVE  (\E i \in 1..Len(jobs') : jobs'[i] = t) <=> (\E i \in 1..Len(jobs) : jobs[i] = t) \/ e = t
    BY DEF HasEntry
  <2> QED
    BY <1>1
<1> QED
  BY <1>1, <1>2

(* What every step of the listing leaves alone. *)
ListFrame == UNCHANGED <<diskVars, showVars, showDue>>

LEMMA ShowKept ==
    ASSUME WebInv, ListFrame
    PROVE  /\ DiskInv' /\ ShowInv'
           /\ \A j \in Jobs : Place(j)' = Place(j) /\ (Exists(j)' <=> Exists(j))
  BY DEF ListFrame, WebInv, diskVars, showVars, DiskInv, ShowInv, ExistingJobIsFound, Exists, Place

LEMMA ListProjectsInv ==
    ASSUME WebInv, ListProjects
    PROVE  WebInv'
<1> DEFINE rest == {i \in 1..Len(Projects) : dirs[Projects[i]] > 0}
<1>0. WebTypeOK /\ DiskInv /\ rest \in SUBSET (1..Len(Projects)) /\ NextProject(rest)
  BY DEF WebInv, ListProjects
<1>1. /\ now' \in 0..Len(Projects) /\ left' \subseteq rest /\ now' \notin left'
      /\ at' \in {"statPending", "listed"}
      /\ at' = "statPending" => now' \in rest /\ now' # 0
      /\ at' = "listed" => now' = 0 /\ left' = {}
      /\ \A j : Current(j)' \/ InLeft(j)' <=> \E i \in rest : Projects[i] = ProjectOf[j]
  BY <1>0, LoopGoesOn
<1>2. ListFrame /\ jobs' = <<>> /\ readyJobs' = {} /\ pendingJobs' = {}
      /\ found' = {} /\ due' = {j \in Jobs : Exists(j)} /\ discarded' = {}
  BY DEF ListProjects, ListFrame
<1>3. disturbed' \in {{}, {"other"}} /\ (disturbed' = {} => \A j \in Jobs : Exists(j) => job[j] \in HasInfo)
  BY DEF ListProjects
<1>4. DiskInv' /\ ShowInv' /\ \A j \in Jobs : Place(j)' = Place(j) /\ (Exists(j)' <=> Exists(j))
  BY <1>2, ShowKept
<1>5. UNCHANGED <<dirs, job, shown, showAt, showState, showDue>>
  BY <1>2 DEF ListFrame, diskVars, showVars
<1>6. WebTypeOK'
  <2>1. jobs' \in Seq(Jobs \X ProjectSet \X {"pending", "ready"})
    BY <1>2
  <2>2. disturbed' \subseteq {"move", "other"}
    BY <1>3
  <2> QED
    BY <1>0, <1>1, <1>2, <1>5, <2>1, <2>2 DEF WebTypeOK
<1>7. ListInv'
  <2>1. \A j, place : ~HasEntry(j, place)'
    BY <1>2 DEF HasEntry
  <2>2. EntriesInv'
    BY <1>2 DEF EntriesInv
  <2>3. ASSUME NEW j \in Jobs PROVE ReadOnce(j)' /\ NotMissed(j)'
    <3>1. ReadOnce(j)'
      BY <1>2, <2>1 DEF ReadOnce
    <3>2. ASSUME Exists(j) PROVE Current(j)' \/ InLeft(j)'
      <4>1. PICK i \in 1..Len(Projects) : Projects[i] = ProjectOf[j]
        BY ProjectFacts
      <4>2. dirs[Projects[i]] = 3
        BY <1>0, <3>2, <4>1 DEF DiskInv
      <4> QED
        BY <1>1, <4>1, <4>2
    <3>3. NotMissed(j)'
      BY <1>1, <1>2, <1>4, <3>2 DEF NotMissed
    <3> QED
      BY <3>1, <3>3
  <2> QED
    BY <1>1, <2>2, <2>3 DEF ListInv
<1>8. QuietInv'
  <2> SUFFICES ASSUME Undisturbed' PROVE \A i \in rest : dirs[Projects[i]] = 3
    BY <1>1, <1>3, <1>4, <1>5 DEF QuietInv, Undisturbed, Loop, Before, Reading
  <2> QED
    BY <1>5, ProjectFacts DEF Undisturbed
<1> QED
  BY <1>4, <1>6, <1>7, <1>8 DEF WebInv

(* What the steps of the loop leave alone besides. *)
LoopFrame == ListFrame /\ UNCHANGED <<due, discarded, disturbed>>

LEMMA LoopKept ==
    ASSUME WebInv, LoopFrame
    PROVE  /\ UNCHANGED <<dirs, job, shown, showAt, showState, due, discarded, disturbed, showDue>>
           /\ DiskInv' /\ ShowInv'
           /\ \A j \in Jobs : Place(j)' = Place(j) /\ (Exists(j)' <=> Exists(j))
  BY ShowKept DEF LoopFrame, ListFrame, diskVars, showVars

LEMMA LoopTypes ==
    ASSUME WebInv, at \in Loop
    PROVE  /\ WebTypeOK /\ now \in 1..Len(Projects) /\ Projects[now] \in ProjectSet
           /\ now \notin left /\ EntriesInv /\ \A j \in Jobs : ReadOnce(j) /\ NotMissed(j)
           /\ \A j \in Jobs : Current(j) <=> ProjectOf[j] = Projects[now]
  BY ProjectFacts DEF WebInv, WebTypeOK, ListInv, Loop, Before, Reading, Current

(* A step that lists nothing and reads nothing. *)
LEMMA StatInv ==
    ASSUME WebInv, StatPending \/ StatReady
    PROVE  WebInv'
<1>0. /\ at \in {"statPending", "statReady"} /\ at' \in {"statReady", "listPending"}
      /\ LoopFrame /\ UNCHANGED <<now, left, pendingJobs, readyJobs, jobs>>
  BY DEF StatPending, StatReady, LoopFrame, ListFrame, historyVars
<1>1. at \in Loop /\ at' \in Loop /\ at \notin Reading /\ at' \notin Reading
  BY <1>0 DEF Loop, Before, Reading
<1>2. /\ WebTypeOK /\ now \in 1..Len(Projects) /\ Projects[now] \in ProjectSet
      /\ now \notin left /\ EntriesInv /\ \A j \in Jobs : ReadOnce(j) /\ NotMissed(j)
      /\ \A j \in Jobs : Current(j) <=> ProjectOf[j] = Projects[now]
  BY <1>1, LoopTypes
<1>3. /\ UNCHANGED <<dirs, job, shown, showAt, showState, due, discarded, disturbed, showDue>>
      /\ DiskInv' /\ ShowInv'
      /\ \A j \in Jobs : Place(j)' = Place(j) /\ (Exists(j)' <=> Exists(j))
  BY <1>0, LoopKept
<1>4. /\ found' \subseteq {"pending", "ready"}
      /\ at = "statPending" /\ dirs[Projects[now]] = 3 => "pending" \in found'
      /\ at = "statReady" /\ dirs[Projects[now]] = 3 /\ "pending" \in found =>
           found' = {"pending", "ready"}
      /\ at' = IF at = "statPending" THEN "statReady" ELSE "listPending"
  <2>1. found \subseteq {"pending", "ready"} /\ dirs[Projects[now]] \in 0..3
    BY <1>2 DEF WebTypeOK
  <2>2. CASE StatPending
    BY <2>1, <2>2 DEF StatPending
  <2>3. CASE StatReady
    BY <2>1, <2>3 DEF StatReady
  <2> QED
    BY <2>2, <2>3
<1>5. WebTypeOK'
  BY <1>0, <1>2, <1>3, <1>4 DEF WebTypeOK
<1>6. ListInv'
  <2>1. ASSUME NEW j \in Jobs PROVE ReadOnce(j)' /\ NotMissed(j)'
    <3>1. /\ Current(j)' <=> Current(j)
          /\ InLeft(j)' <=> InLeft(j)
          /\ \A place : HasEntry(j, place)' <=> HasEntry(j, place)
      BY <1>0 DEF Current, InLeft, HasEntry
    <3>2. ReadOnce(j)'
      BY <1>0, <1>1, <1>2, <1>3, <3>1 DEF ReadOnce
    <3>3. Exists(j) /\ Current(j) => dirs[Projects[now]] = 3
      BY <1>2 DEF WebInv, DiskInv
    <3>4. NotMissed(j)'
      BY <1>0, <1>2, <1>3, <1>4, <3>1, <3>3 DEF NotMissed
    <3> QED
      BY <3>2, <3>4
  <2>2. EntriesInv'
    BY <1>0, <1>2 DEF EntriesInv
  <2> QED
    BY <1>0, <1>2, <2>1, <2>2 DEF ListInv
<1>7. QuietInv'
  <2> SUFFICES ASSUME Undisturbed'
               PROVE  /\ \A j \in Jobs : Exists(j) => job[j] \in HasInfo
                      /\ \A i \in left : dirs[Projects[i]] = 3
                      /\ dirs[Projects[now]] = 3
                      /\ at' = "statReady" => "pending" \in found'
                      /\ at' = "listPending" => found' = {"pending", "ready"}
    BY <1>0, <1>3 DEF QuietInv, Reading
  <2>1. Undisturbed
    BY <1>0, <1>3 DEF Undisturbed
  <2> QED
    BY <1>0, <1>1, <1>4, <2>1 DEF WebInv, QuietInv
<1> QED
  BY <1>3, <1>5, <1>6, <1>7 DEF WebInv

(* pending/ is listed: who is not there is under ready/ by now. *)
LEMMA ListPendingInv ==
    ASSUME WebInv, ListPending
    PROVE  WebInv'
<1>0. /\ at = "listPending" /\ at' = "listReady"
      /\ LoopFrame /\ UNCHANGED <<now, left, found, readyJobs, jobs>>
      /\ pendingJobs' = IF "pending" \in found THEN Names("pending") ELSE pendingJobs
  BY DEF ListPending, LoopFrame, ListFrame, historyVars
<1>1. at \in Loop /\ at' \in Loop /\ at \notin Reading /\ at' \notin Reading
  BY <1>0 DEF Loop, Before, Reading
<1>2. /\ WebTypeOK /\ now \in 1..Len(Projects) /\ Projects[now] \in ProjectSet
      /\ now \notin left /\ EntriesInv /\ \A j \in Jobs : ReadOnce(j) /\ NotMissed(j)
      /\ \A j \in Jobs : Current(j) <=> ProjectOf[j] = Projects[now]
  BY <1>1, LoopTypes
<1>3. /\ UNCHANGED <<dirs, job, shown, showAt, showState, due, discarded, disturbed, showDue>>
      /\ DiskInv' /\ ShowInv'
      /\ \A j \in Jobs : Place(j)' = Place(j) /\ (Exists(j)' <=> Exists(j))
  BY <1>0, LoopKept
<1>4. \A j \in Jobs : Current(j) /\ Exists(j) /\ "pending" \in found =>
        j \in pendingJobs' \/ Place(j) = "ready"
  BY <1>0, <1>2, PlaceIsReady DEF Names
<1>5. WebTypeOK'
  BY <1>0, <1>2, <1>3 DEF WebTypeOK, Names
<1>6. ListInv'
  <2>1. ASSUME NEW j \in Jobs PROVE ReadOnce(j)' /\ NotMissed(j)'
    <3>1. /\ Current(j)' <=> Current(j)
          /\ InLeft(j)' <=> InLeft(j)
          /\ \A place : HasEntry(j, place)' <=> HasEntry(j, place)
      BY <1>0 DEF Current, InLeft, HasEntry
    <3>2. ReadOnce(j)'
      BY <1>0, <1>1, <1>2, <1>3, <3>1 DEF ReadOnce
    <3>3. NotMissed(j)'
      BY <1>0, <1>2, <1>3, <1>4, <3>1 DEF NotMissed
    <3> QED
      BY <3>2, <3>3
  <2>2. EntriesInv'
    BY <1>0, <1>2 DEF EntriesInv
  <2> QED
    BY <1>0, <1>2, <2>1, <2>2 DEF ListInv
<1>7. QuietInv'
  <2>1. Names("pending")' = Names("pending")
    BY <1>0, <1>3 DEF Names
  <2>2. Undisturbed' => Undisturbed
    BY <1>0, <1>3 DEF Undisturbed
  <2> QED
    BY <1>0, <1>1, <1>3, <2>1, <2>2 DEF WebInv, QuietInv, Reading
<1> QED
  BY <1>3, <1>5, <1>6, <1>7 DEF WebInv

(* ready/ is listed: what is in this list stays where it is. *)
LEMMA ListReadyInv ==
    ASSUME WebInv, ListReady
    PROVE  WebInv'
<1>0. /\ at = "listReady" /\ at' = "readPending"
      /\ LoopFrame /\ UNCHANGED <<now, left, found, pendingJobs, jobs>>
      /\ readyJobs' = IF "ready" \in found THEN Names("ready") ELSE readyJobs
  BY DEF ListReady, LoopFrame, ListFrame, historyVars
<1>1. at \in Loop /\ at' \in Loop /\ at \notin Reading /\ at' \in Reading
  BY <1>0 DEF Loop, Before, Reading
<1>2. /\ WebTypeOK /\ now \in 1..Len(Projects) /\ Projects[now] \in ProjectSet
      /\ now \notin left /\ EntriesInv /\ \A j \in Jobs : ReadOnce(j) /\ NotMissed(j)
      /\ \A j \in Jobs : Current(j) <=> ProjectOf[j] = Projects[now]
  BY <1>1, LoopTypes
<1>3. /\ UNCHANGED <<dirs, job, shown, showAt, showState, due, discarded, disturbed, showDue>>
      /\ DiskInv' /\ ShowInv'
      /\ \A j \in Jobs : Place(j)' = Place(j) /\ (Exists(j)' <=> Exists(j))
  BY <1>0, LoopKept
<1>4. WebTypeOK'
  BY <1>0, <1>2, <1>3 DEF WebTypeOK, Names
<1>5. ListInv'
  <2>1. ASSUME NEW j \in Jobs PROVE ReadOnce(j)' /\ NotMissed(j)'
    <3>1. /\ Current(j)' <=> Current(j)
          /\ InLeft(j)' <=> InLeft(j)
          /\ \A place : HasEntry(j, place)' <=> HasEntry(j, place)
      BY <1>0 DEF Current, InLeft, HasEntry
    <3>2. j \in readyJobs' => ~InLeft(j) /\ (Current(j) => Place(j) = "ready")
      <4>1. CASE "ready" \in found
        BY <1>0, <1>2, <4>1, CurrentIsNotLeft DEF Names
      <4>2. CASE "ready" \notin found
        BY <1>0, <1>1, <1>2, <4>2 DEF ReadOnce
      <4> QED
        BY <4>1, <4>2
    <3>3. Current(j) => ~HasEntry(j, "pending") /\ ~HasEntry(j, "ready")
      BY <1>1, <1>2 DEF ReadOnce
    <3>4. ReadOnce(j)'
      BY <1>0, <1>1, <1>2, <1>3, <3>1, <3>2, <3>3 DEF ReadOnce
    <3>5. NotMissed(j)'
      BY <1>0, <1>2, <1>3, <3>1 DEF NotMissed, Names
    <3> QED
      BY <3>4, <3>5
  <2>2. EntriesInv'
    BY <1>0, <1>2 DEF EntriesInv
  <2> QED
    BY <1>0, <1>2, <2>1, <2>2 DEF ListInv
<1>6. QuietInv'
  <2>1. Names("pending")' = Names("pending") /\ Names("ready")' = Names("ready")
    BY <1>0, <1>3 DEF Names
  <2>2. Undisturbed' => Undisturbed
    BY <1>0, <1>3 DEF Undisturbed
  <2> QED
    BY <1>0, <1>1, <1>3, <2>1, <2>2 DEF WebInv, QuietInv, Reading
<1> QED
  BY <1>3, <1>4, <1>5, <1>6 DEF WebInv

(* The list that is being read, and the point at which it is. *)
ListOf(place) == IF place = "pending" THEN pendingJobs ELSE readyJobs
ReadPoint(place) == IF place = "pending" THEN "readPending" ELSE "readReady"

LEMMA GetJobInv ==
    ASSUME WebInv, LoopFrame, UNCHANGED <<found, pendingJobs, readyJobs>>,
           NEW place \in {"pending", "ready"}, at = ReadPoint(place),
           NEW j \in Jobs, GetJob(place, j)
    PROVE  WebInv'
<1>1. at \in Loop /\ at \in Reading /\ at # "idle" /\ at # "failed" /\ at # "listed"
  BY DEF Loop, Before, Reading, ReadPoint
<1>2. /\ WebTypeOK /\ now \in 1..Len(Projects) /\ Projects[now] \in ProjectSet
      /\ now \notin left /\ EntriesInv /\ \A k \in Jobs : ReadOnce(k) /\ NotMissed(k)
      /\ \A k \in Jobs : Current(k) <=> ProjectOf[k] = Projects[now]
  BY <1>1, LoopTypes
<1>3. /\ UNCHANGED <<dirs, job, shown, showAt, showState, due, discarded, disturbed, showDue>>
      /\ DiskInv' /\ ShowInv'
      /\ \A k \in Jobs : Place(k)' = Place(k) /\ (Exists(k)' <=> Exists(k))
  BY LoopKept
<1>4. /\ j \in ListOf(place) /\ UNCHANGED <<now, left>>
      /\ \A i \in 1..Len(jobs) : jobs[i] # <<j, Projects[now], place>>
  BY DEF GetJob, Unread, ListOf
<1>5. CASE ~Readable(j, place) /\ at' = "failed" /\ UNCHANGED jobs
  <2>1. WebTypeOK'
    BY <1>2, <1>3, <1>4, <1>5 DEF WebTypeOK
  <2>2. ListInv'
    BY <1>5 DEF ListInv, Loop, Before, Reading
  <2>3. ~Undisturbed'
    <3> SUFFICES ASSUME Undisturbed PROVE Readable(j, place)
      BY <1>1, <1>3, <1>5 DEF Undisturbed
    <3>1. j \in Names(place) /\ (Exists(j) => job[j] \in HasInfo)
      BY <1>1, <1>4 DEF WebInv, QuietInv, ListOf, ReadPoint, Reading
    <3>2. Exists(j)
      BY <1>2, <3>1, PlaceIsReady DEF Names
    <3> QED
      BY <3>1, <3>2 DEF Names, Readable
  <2> QED
    BY <1>3, <2>1, <2>2, <2>3 DEF WebInv, QuietInv
<1>6. CASE /\ Readable(j, place) /\ jobs' = Append(jobs, <<j, Projects[now], place>>)
           /\ UNCHANGED at
  <2> DEFINE e == <<j, ProjectOf[j], place>>
  <2>1. Current(j) /\ Place(j) = place /\ jobs' = Append(jobs, e) /\ ~InLeft(j)
        /\ e \in Jobs \X ProjectSet \X {"pending", "ready"}
        /\ \A i \in 1..Len(jobs) : jobs[i] # e
    BY <1>2, <1>4, <1>6, CurrentIsNotLeft, ProjectFacts DEF Readable
  <2>2. /\ jobs' \in Seq(Jobs \X ProjectSet \X {"pending", "ready"})
        /\ Len(jobs') = Len(jobs) + 1 /\ Len(jobs) \in Nat
        /\ jobs'[Len(jobs')] = e /\ \A i \in 1..Len(jobs) : jobs'[i] = jobs[i]
        /\ \A k, pl : HasEntry(k, pl)' <=> HasEntry(k, pl) \/ e = <<k, ProjectOf[k], pl>>
    BY <1>2, <2>1, EntryAppended
  <2>3. WebTypeOK'
    BY <1>2, <1>3, <1>4, <1>6, <2>2 DEF WebTypeOK
  <2>4. EntriesInv'
    <3>1. e[1] = j /\ e[2] = ProjectOf[j]
      OBVIOUS
    <3> HIDE DEF e
    <3>2. \A i \in 1..Len(jobs') : i \in 1..Len(jobs) \/ (i = Len(jobs') /\ jobs'[i] = e)
      BY <2>2
    <3>3. \A i \in 1..Len(jobs') : jobs'[i][2] = ProjectOf[jobs'[i][1]]
      BY <1>2, <2>2, <3>1, <3>2 DEF EntriesInv
    <3>4. \A i, k \in 1..Len(jobs') : jobs'[i] = jobs'[k] => i = k
      BY <1>2, <2>1, <2>2, <3>2 DEF EntriesInv
    <3> QED
      BY <3>3, <3>4 DEF EntriesInv
  <2>5. ASSUME NEW k \in Jobs PROVE ReadOnce(k)' /\ NotMissed(k)'
    <3>1. /\ Current(k)' <=> Current(k)
          /\ InLeft(k)' <=> InLeft(k)
      BY <1>4 DEF Current, InLeft
    <3>2. \A pl : HasEntry(k, pl)' <=> HasEntry(k, pl) \/ (k = j /\ pl = place)
      BY <2>2
    <3>3. NotMissed(k)'
      BY <1>2, <1>3, <1>6, <3>1, <3>2 DEF NotMissed
    <3>4. CASE k # j
      <4>1. /\ HasEntry(k, "pending")' <=> HasEntry(k, "pending")
            /\ HasEntry(k, "ready")' <=> HasEntry(k, "ready")
        BY <3>2, <3>4
      <4>2. Place(k)' = Place(k)
        BY <1>3, <1>4 DEF Place
      <4>3. ReadOnce(k)
        BY <1>2
      <4> QED
        BY <1>3, <1>4, <1>6, <3>1, <3>3, <4>1, <4>2, <4>3 DEF ReadOnce
    <3>5. CASE k = j /\ place = "pending"
      <4>1. at = "readPending" /\ ~HasEntry(j, "ready") /\ (j \notin discarded => j \notin readyJobs)
        BY <1>2, <2>1, <3>5 DEF ReadOnce, ReadPoint
      <4> QED
        BY <1>1, <1>2, <1>3, <1>4, <1>6, <2>1, <3>1, <3>2, <3>3, <3>5, <4>1 DEF ReadOnce
    <3>6. CASE k = j /\ place = "ready"
      <4>1. at = "readReady" /\ (j \notin discarded => ~HasEntry(j, "pending"))
        BY <1>2, <1>4, <2>1, <3>6 DEF ReadOnce, ReadPoint, ListOf
      <4> QED
        BY <1>1, <1>2, <1>3, <1>4, <1>6, <2>1, <3>1, <3>2, <3>3, <3>6, <4>1 DEF ReadOnce
    <3> QED
      BY <3>3, <3>4, <3>5, <3>6
  <2>6. ListInv'
    BY <1>1, <1>2, <1>4, <1>6, <2>4, <2>5 DEF ListInv
  <2>7. QuietInv'
    <3>1. Names("pending")' = Names("pending") /\ Names("ready")' = Names("ready")
      BY <1>3, <1>4 DEF Names
    <3>2. Undisturbed' <=> Undisturbed
      BY <1>3, <1>6 DEF Undisturbed
    <3> QED
      BY <1>3, <1>4, <1>6, <3>1, <3>2 DEF WebInv, QuietInv
  <2> QED
    BY <1>3, <2>3, <2>6, <2>7 DEF WebInv
<1> QED
  BY <1>5, <1>6 DEF GetJob

(* The names of a list are read: the listing has an entry of each of them. *)
LEMMA ListIsRead ==
    ASSUME WebInv, NEW place \in {"pending", "ready"}, at = ReadPoint(place), Unread(place) = {},
           NEW j \in ListOf(place), j \in Jobs, Current(j)
    PROVE  HasEntry(j, place)
<1>1. \E i \in 1..Len(jobs) : jobs[i] = <<j, Projects[now], place>>
  BY DEF Unread, ListOf
<1> QED
  BY <1>1 DEF HasEntry, Current

LEMMA PendingReadInv ==
    ASSUME WebInv, LoopFrame, UNCHANGED <<found, pendingJobs, readyJobs, jobs, now, left>>,
           at = "readPending", at' = "readReady", Unread("pending") = {}
    PROVE  WebInv'
<1>1. at \in Loop /\ at' \in Loop /\ at \in Reading /\ at' \in Reading
  BY DEF Loop, Before, Reading
<1>2. /\ WebTypeOK /\ now \in 1..Len(Projects) /\ Projects[now] \in ProjectSet
      /\ now \notin left /\ EntriesInv /\ \A k \in Jobs : ReadOnce(k) /\ NotMissed(k)
      /\ \A k \in Jobs : Current(k) <=> ProjectOf[k] = Projects[now]
  BY <1>1, LoopTypes
<1>3. /\ UNCHANGED <<dirs, job, shown, showAt, showState, due, discarded, disturbed, showDue>>
      /\ DiskInv' /\ ShowInv'
      /\ \A k \in Jobs : Place(k)' = Place(k) /\ (Exists(k)' <=> Exists(k))
  BY LoopKept
<1>4. WebTypeOK'
  BY <1>2, <1>3 DEF WebTypeOK
<1>5. ASSUME NEW j \in Jobs PROVE ReadOnce(j)' /\ NotMissed(j)'
  <2>1. /\ Current(j)' <=> Current(j)
        /\ InLeft(j)' <=> InLeft(j)
        /\ \A place : HasEntry(j, place)' <=> HasEntry(j, place)
    BY DEF Current, InLeft, HasEntry
  <2>2. ReadOnce(j)'
    BY <1>1, <1>2, <1>3, <2>1 DEF ReadOnce
  <2>3. Current(j) /\ j \in pendingJobs => HasEntry(j, "pending")
    BY ListIsRead DEF ListOf, ReadPoint
  <2>4. NotMissed(j)'
    BY <1>2, <1>3, <2>1, <2>3 DEF NotMissed
  <2> QED
    BY <2>2, <2>4
<1>6. ListInv'
  BY <1>1, <1>2, <1>5 DEF ListInv, EntriesInv
<1>7. QuietInv'
  <2>1. Names("pending")' = Names("pending") /\ Names("ready")' = Names("ready")
    BY <1>3 DEF Names
  <2>2. Undisturbed' => Undisturbed
    BY <1>3 DEF Undisturbed
  <2> QED
    BY <1>1, <1>3, <2>1, <2>2 DEF WebInv, QuietInv, Reading
<1> QED
  BY <1>3, <1>4, <1>6, <1>7 DEF WebInv

LEMMA ReadyReadInv ==
    ASSUME WebInv, LoopFrame, UNCHANGED <<found, pendingJobs, readyJobs, jobs>>,
           at = "readReady", NextProject(left), Unread("ready") = {}
    PROVE  WebInv'
<1>1. at \in Loop /\ at \in Reading
  BY DEF Loop, Before, Reading
<1>2. /\ WebTypeOK /\ now \in 1..Len(Projects) /\ Projects[now] \in ProjectSet
      /\ now \notin left /\ EntriesInv /\ \A k \in Jobs : ReadOnce(k) /\ NotMissed(k)
      /\ \A k \in Jobs : Current(k) <=> ProjectOf[k] = Projects[now]
  BY <1>1, LoopTypes
<1>3. /\ UNCHANGED <<dirs, job, shown, showAt, showState, due, discarded, disturbed, showDue>>
      /\ DiskInv' /\ ShowInv'
      /\ \A k \in Jobs : Place(k)' = Place(k) /\ (Exists(k)' <=> Exists(k))
  BY LoopKept
<1>4. left \in SUBSET (1..Len(Projects))
  BY <1>2 DEF WebTypeOK
<1>5. /\ now' \in 0..Len(Projects) /\ left' \subseteq left /\ now' \notin left'
      /\ at' \in {"statPending", "listed"}
      /\ at' = "statPending" => now' \in left /\ now' # 0
      /\ at' = "listed" => now' = 0 /\ left' = {}
      /\ \A j : Current(j)' \/ InLeft(j)' <=> InLeft(j)
  BY <1>4, LoopGoesOn DEF InLeft
<1>6. WebTypeOK'
  BY <1>2, <1>3, <1>4, <1>5 DEF WebTypeOK
<1>7. ASSUME NEW j \in Jobs PROVE ReadOnce(j)' /\ NotMissed(j)'
  <2>1. \A place : HasEntry(j, place)' <=> HasEntry(j, place)
    BY DEF HasEntry
  <2>2. ReadOnce(j)'
    BY <1>2, <1>3, <1>5, <2>1 DEF ReadOnce
  <2>3. Current(j) /\ j \in readyJobs => HasEntry(j, "ready")
    BY ListIsRead DEF ListOf, ReadPoint
  <2>4. NotMissed(j)'
    BY <1>2, <1>3, <1>5, <2>1, <2>3 DEF NotMissed
  <2> QED
    BY <2>2, <2>4
<1>8. ListInv'
  BY <1>2, <1>5, <1>7 DEF ListInv, EntriesInv
<1>9. QuietInv'
  <2>1. Undisturbed' => Undisturbed
    BY <1>3 DEF Undisturbed
  <2> QED
    BY <1>3, <1>5, <2>1 DEF WebInv, QuietInv, Loop, Before, Reading
<1> QED
  BY <1>3, <1>6, <1>8, <1>9 DEF WebInv

-----------------------------------------------------------------------------
LEMMA WebStep == WebInv /\ [WebNext]_webVars => WebInv'
<1> SUFFICES ASSUME WebInv, [WebNext]_webVars PROVE WebInv'
  OBVIOUS
<1>1. CASE GetPendingJobs
  <2>1. LoopFrame /\ UNCHANGED <<found, pendingJobs, readyJobs>> /\ at = "readPending"
    BY <1>1 DEF GetPendingJobs, LoopFrame, ListFrame, historyVars
  <2>2. ASSUME NEW j \in Jobs, GetJob("pending", j) PROVE WebInv'
    BY <2>1, <2>2, GetJobInv DEF ReadPoint
  <2> QED
    BY <1>1, <2>1, <2>2, PendingReadInv DEF GetPendingJobs
<1>2. CASE GetReadyJobs
  <2>1. LoopFrame /\ UNCHANGED <<found, pendingJobs, readyJobs>> /\ at = "readReady"
    BY <1>2 DEF GetReadyJobs, LoopFrame, ListFrame, historyVars
  <2>2. ASSUME NEW j \in Jobs, GetJob("ready", j) PROVE WebInv'
    BY <2>1, <2>2, GetJobInv DEF ReadPoint
  <2> QED
    BY <1>2, <2>1, <2>2, ReadyReadInv DEF GetReadyJobs
<1>3. CASE UNCHANGED webVars
  <2>1. UNCHANGED <<dirs, job, at, now, left, found, pendingJobs, readyJobs, jobs, due>>
        /\ UNCHANGED <<shown, showAt, showState, discarded, disturbed, showDue>>
    BY <1>3 DEF webVars, diskVars, listVars, showVars, historyVars
  <2>2. WebTypeOK'
    BY <2>1 DEF WebInv, WebTypeOK
  <2>3. ShowInv'
    BY <2>1 DEF WebInv, ShowInv, ExistingJobIsFound, Place, Exists
  <2> QED
    BY <2>1, <2>2, <2>3, OthersUnchanged DEF WebInv, diskVars, listVars
<1> QED
  BY <1>1, <1>2, <1>3, DiskStepInv, ShowStepInv, ListProjectsInv, StatInv, ListPendingInv,
     ListReadyInv DEF WebNext, DiskStep, ShowStep

LEMMA WebAlways == WebSpec => []WebInv
  BY WebInitInv, WebStep, PTL DEF WebSpec

(* The web view keeps its variables in their types, and goes through the   *)
(* loop of getJobs only with a project in hand (server.go:574-631).        *)
THEOREM WebTypeCorrect == WebSpec => []WebTypeOK
<1>1. WebInv => WebTypeOK
  BY DEF WebInv
<1> QED
  BY <1>1, WebAlways, PTL

(* The index lists every job exactly once (server.go:590-631): no job that *)
(* moves from pending/ to ready/ between the two scans is lost or listed   *)
(* twice.                                                                  *)
THEOREM IndexIsComplete == WebSpec => []ListingIsComplete
<1>1. ASSUME WebInv PROVE ListingIsComplete
  <2> SUFFICES ASSUME at = "listed", NEW j \in Jobs \ discarded
               PROVE  Cardinality(Entries(j)) <= 1 /\ (j \in due => Entries(j) # {})
    BY DEF ListingIsComplete
  <2>1. /\ WebTypeOK /\ EntriesInv /\ ReadOnce(j) /\ NotMissed(j)
        /\ ~Current(j) /\ ~InLeft(j)
    BY <1>1 DEF WebInv, ListInv, Current, InLeft
  <2>2. ASSUME NEW i \in Entries(j)
        PROVE  \E place \in {"pending", "ready"} : jobs[i] = <<j, ProjectOf[j], place>>
    <3>1. i \in 1..Len(jobs) /\ jobs[i][1] = j
      BY <2>2 DEF Entries
    <3>2. jobs[i] \in Jobs \X ProjectSet \X {"pending", "ready"}
      BY <2>1, <3>1 DEF WebTypeOK
    <3>3. jobs[i][2] = ProjectOf[j]
      BY <2>1, <3>1 DEF EntriesInv
    <3>4. PICK a \in Jobs, p \in ProjectSet, place \in {"pending", "ready"} : jobs[i] = <<a, p, place>>
      BY <3>2
    <3>5. a = j /\ p = ProjectOf[j]
      BY <3>1, <3>3, <3>4
    <3> QED
      BY <3>4, <3>5
  <2>3. ASSUME NEW i \in Entries(j), NEW k \in Entries(j) PROVE i = k
    <3>1. PICK p1 \in {"pending", "ready"} : jobs[i] = <<j, ProjectOf[j], p1>>
      BY <2>2
    <3>2. PICK p2 \in {"pending", "ready"} : jobs[k] = <<j, ProjectOf[j], p2>>
      BY <2>2
    <3>3. i \in 1..Len(jobs) /\ k \in 1..Len(jobs)
      BY DEF Entries
    <3>4. HasEntry(j, p1) /\ HasEntry(j, p2)
      BY <3>1, <3>2, <3>3 DEF HasEntry
    <3>5. p1 = p2
      BY <2>1, <3>4 DEF ReadOnce
    <3> QED
      BY <2>1, <3>1, <3>2, <3>3, <3>5 DEF EntriesInv
  <2>4. Cardinality(Entries(j)) <= 1
    <3>1. CASE Entries(j) = {}
      BY <3>1, FS_EmptySet
    <3>2. CASE \E i : Entries(j) = {i}
      <4>1. PICK i : Entries(j) = {i}
        BY <3>2
      <4>2. Cardinality({i}) = 1
        BY FS_Singleton
      <4> QED
        BY <4>1, <4>2
    <3> QED
      BY <2>3, <3>1, <3>2
  <2>5. ASSUME j \in due PROVE Entries(j) # {}
    <3>1. HasEntry(j, "pending") \/ HasEntry(j, "ready")
      BY <2>1, <2>5 DEF NotMissed
    <3> QED
      BY <3>1 DEF HasEntry, Entries
  <2> QED
    BY <2>4, <2>5
<1> QED
  BY <1>1, WebAlways, PTL

(* The index fails only when something moved under its feet, or when a     *)
(* project's directories are not all there (server.go:590-631).            *)
THEOREM IndexFailsForAReason == WebSpec => []FailureHasCause
<1>1. ASSUME WebInv PROVE FailureHasCause
  <2>1. \A p \in ProjectSet : dirs[p] \in 0..3
    BY <1>1 DEF WebInv, WebTypeOK
  <2>2. \A n \in 0..3 : n \notin {1, 2} => n \in {0, 3}
    OBVIOUS
  <2> QED
    BY <1>1, <2>1, <2>2 DEF WebInv, QuietInv, Undisturbed, FailureHasCause
<1> QED
  BY <1>1, WebAlways, PTL

(* GetState finds a job that exists in one of its two Stat calls, and the  *)
(* page of a success can be read (job.go:321-333, server.go:226-240).      *)
THEOREM JobPageIsFound == WebSpec => []ExistingJobIsFound
<1>1. WebInv => ExistingJobIsFound
  BY DEF WebInv, ShowInv
<1> QED
  BY <1>1, WebAlways, PTL

=============================================================================
