------------------------------ MODULE WebView ------------------------------
(***************************************************************************)
(* The web view (cmd/mistryd/server.go: HandleIndex, getJobs and           *)
(* HandleShowJob; job.go: GetState and ReadJobBuildInfo).  It reads the    *)
(* build directory without any lock while workers make, write, move and    *)
(* remove the directories of the jobs.                                     *)
(*                                                                         *)
(* The workers are reduced to what they do to the names and files the web  *)
(* view reads; module Server says when they do it.                         *)
(***************************************************************************)
EXTENDS Naturals, Sequences, FiniteSets

CONSTANTS
    Projects,    \* the projects, in the order ReadDir returns them
    Jobs,        \* job IDs
    ShownJobs,   \* those a browser asks to see
    ProjectOf,   \* the project of a job
    NoJob        \* HandleShowJob serves no request

ASSUME WebConstants ==
    /\ Projects \in Seq(STRING)
    /\ \A i, k \in 1..Len(Projects) : Projects[i] = Projects[k] => i = k
    /\ ProjectOf \in [Jobs -> {Projects[i] : i \in 1..Len(Projects)}]
    /\ ShownJobs \subseteq Jobs
    /\ NoJob \notin Jobs

ProjectSet == {Projects[i] : i \in 1..Len(Projects)}

VARIABLES
    dirs,          \* per project: 0 none, 1 its directory, 2 and pending/,
                   \* 3 and ready/
    job,           \* per job: the state of its build directory, see below
    at,            \* where getJobs is
    now,           \* the project it is at, by its place in Projects
    left,          \* the projects it has still to go through after that one
    found,         \* the directories it found to exist: "pending", "ready"
    pendingJobs,   \* its variable pendingJobs
    readyJobs,     \* its variable readyJobs
    jobs,          \* the jobs it has read, each with its project and state
    shown,         \* the job HandleShowJob is asked for
    showAt,        \* where HandleShowJob is
    showState,     \* what GetState returned
    due,           \* history: the jobs there when the listing began
    discarded,     \* history: the jobs removed since the listing began
    disturbed,     \* history: what happened to the directories since then
    showDue        \* history: how far the shown job was when asked for, and
                   \* whether it was removed since

diskVars == <<dirs, job>>
listVars == <<at, now, left, found, pendingJobs, readyJobs, jobs, due>>
showVars == <<shown, showAt, showState>>
historyVars == <<discarded, disturbed, showDue>>
webVars == <<diskVars, listVars, showVars, historyVars>>

(* The build directory of a job.  Under pending/: "made", then "opening"   *)
(* (build_info.json being written for the first time), "listed" (written,  *)
(* no log yet), "building" (with a log), "closing" and "built" (written    *)
(* again).                                                                 *)
(* Under ready/: "done", "failed", "logless" and "gutted" (on its way to   *)
(* removal, build_info.json gone).                                         *)
InPending == {"made", "opening", "listed", "building", "closing", "built"}
InReady == {"done", "failed", "logless", "gutted"}
HasInfo == {"listed", "building", "built", "done", "failed", "logless"}
HasLog == {"building", "closing", "built", "done", "failed"}

Place(j) == IF job[j] \in InPending THEN "pending"
            ELSE IF job[j] \in InReady THEN "ready" ELSE "none"
Exists(j) == job[j] # "absent"

WebInit ==
    /\ dirs = [p \in ProjectSet |-> 0]
    /\ job = [j \in Jobs |-> "absent"]
    /\ at = "idle" /\ now = 0 /\ left = {} /\ found = {}
    /\ pendingJobs = {} /\ readyJobs = {} /\ jobs = <<>>
    /\ shown = NoJob /\ showAt = "idle" /\ showState = "none"
    /\ due = {} /\ discarded = {} /\ disturbed = {} /\ showDue = "none"

-----------------------------------------------------------------------------
(* BootstrapProject makes the directories of a project one by one; it may  *)
(* be slow, and it may fail or be cut off after any of them.               *)
MakeDir(p) ==
    /\ dirs[p] < 3
    /\ dirs' = [dirs EXCEPT ![p] = @ + 1]
    /\ disturbed' = disturbed \cup {"other"}
    /\ UNCHANGED <<job, listVars, showVars, discarded, showDue>>

(* The steps of Work that touch a job's directory: BootstrapBuildDir,      *)
(* persistBuildInfo (truncated, then written), the log, the last persist,  *)
(* the move to ready, and the removal of a failed build, file by file.     *)
WorkStep ==
    {<<"absent", "made">>, <<"made", "opening">>, <<"opening", "listed">>,
     <<"listed", "building">>, <<"listed", "opening">>, <<"building", "closing">>,
     <<"closing", "built">>}
MoveStep == {<<"listed", "logless">>, <<"built", "failed">>, <<"built", "done">>}
RemoveStep ==
    {<<"failed", "logless">>, <<"failed", "gutted">>, <<"logless", "gutted">>,
     <<"logless", "absent">>, <<"gutted", "absent">>}

Work(j) ==
    /\ \E step \in WorkStep :
        /\ job[j] = step[1]
        /\ step[1] = "absent" => dirs[ProjectOf[j]] = 3
        /\ job' = [job EXCEPT ![j] = step[2]]
    /\ disturbed' = disturbed \cup {"other"}
    /\ UNCHANGED <<dirs, listVars, showVars, discarded, showDue>>

MoveToReady(j) ==
    /\ \E step \in MoveStep : job[j] = step[1] /\ job' = [job EXCEPT ![j] = step[2]]
    /\ disturbed' = disturbed \cup {"move"}
    /\ UNCHANGED <<dirs, listVars, showVars, discarded, showDue>>

RemoveBuild(j) ==
    /\ \E step \in RemoveStep : job[j] = step[1] /\ job' = [job EXCEPT ![j] = step[2]]
    /\ discarded' = discarded \cup {j}
    /\ disturbed' = disturbed \cup {"other"}
    /\ showDue' = IF shown = j THEN "removed" ELSE showDue
    /\ UNCHANGED <<dirs, listVars, showVars>>

-----------------------------------------------------------------------------
(* getJobs.  It lists the projects, and then for each of them checks and   *)
(* lists pending/ and ready/ and reads the build_info.json of every name.  *)

(* The loop goes on with the first of the projects that are left. *)
NextProject(rest) ==
    \/ rest = {} /\ at' = "listed" /\ now' = 0 /\ left' = {}
    \/ \E i \in rest : /\ \A k \in rest : i <= k
                       /\ now' = i /\ left' = rest \ {i} /\ at' = "statPending"

ListProjects ==
    /\ at \in {"idle", "listed", "failed"}
    /\ NextProject({i \in 1..Len(Projects) : dirs[Projects[i]] > 0})
    /\ found' = {}
    /\ pendingJobs' = {} /\ readyJobs' = {} /\ jobs' = <<>>
    /\ due' = {j \in Jobs : Exists(j)}
    /\ discarded' = {}
    /\ disturbed' = IF \E j \in Jobs : Exists(j) /\ job[j] \notin HasInfo
                    THEN {"other"} ELSE {}
    /\ UNCHANGED <<diskVars, showVars, showDue>>

Names(place) == {j \in Jobs : ProjectOf[j] = Projects[now] /\ Place(j) = place}

StatPending ==
    /\ at = "statPending"
    /\ found' = IF dirs[Projects[now]] >= 2 THEN {"pending"} ELSE {}
    /\ at' = "statReady"
    /\ UNCHANGED <<diskVars, now, left, pendingJobs, readyJobs, jobs, due, showVars, historyVars>>

StatReady ==
    /\ at = "statReady"
    /\ found' = IF dirs[Projects[now]] = 3 THEN found \cup {"ready"} ELSE found
    /\ at' = "listPending"
    /\ UNCHANGED <<diskVars, now, left, pendingJobs, readyJobs, jobs, due, showVars, historyVars>>

(* Mutant of ListPending: it scans the ready directory. *)
ListPendingWrong ==
    /\ at = "listPending"
    /\ pendingJobs' = IF "pending" \in found THEN Names("ready") ELSE pendingJobs
    /\ at' = "listReady"
    /\ UNCHANGED <<diskVars, now, left, found, readyJobs, jobs, due, showVars, historyVars>>

(* A directory that does not exist is not listed: the variable then keeps  *)
(* the names of the project before.                                        *)
ListPending ==
    /\ at = "listPending"
    /\ pendingJobs' = IF "pending" \in found THEN Names("pending") ELSE pendingJobs
    /\ at' = "listReady"
    /\ UNCHANGED <<diskVars, now, left, found, readyJobs, jobs, due, showVars, historyVars>>

ListReady ==
    /\ at = "listReady"
    /\ readyJobs' = IF "ready" \in found THEN Names("ready") ELSE readyJobs
    /\ at' = "readPending"
    /\ UNCHANGED <<diskVars, now, left, found, pendingJobs, jobs, due, showVars, historyVars>>

(* getJob for a name in one of the lists: whatever is wrong with it, the   *)
(* whole listing fails.  The lists are kept for the next project.          *)
Unread(place) ==
    {j \in IF place = "pending" THEN pendingJobs ELSE readyJobs :
        \A i \in 1..Len(jobs) : jobs[i] # <<j, Projects[now], place>>}
Readable(j, place) ==
    ProjectOf[j] = Projects[now] /\ Place(j) = place /\ job[j] \in HasInfo

GetJob(place, j) ==
    /\ j \in Unread(place)
    /\ \/ /\ Readable(j, place)
          /\ jobs' = Append(jobs, <<j, Projects[now], place>>)
          /\ UNCHANGED at
       \/ ~Readable(j, place) /\ at' = "failed" /\ UNCHANGED jobs
    /\ UNCHANGED <<now, left>>

GetPendingJobs ==
    /\ at = "readPending"
    /\ \/ \E j \in Jobs : GetJob("pending", j)
       \/ Unread("pending") = {} /\ at' = "readReady" /\ UNCHANGED <<jobs, now, left>>
    /\ UNCHANGED <<diskVars, found, pendingJobs, readyJobs, due, showVars, historyVars>>

GetReadyJobs ==
    /\ at = "readReady"
    /\ \/ \E j \in Jobs : GetJob("ready", j)
       \/ Unread("ready") = {} /\ NextProject(left) /\ UNCHANGED jobs
    /\ UNCHANGED <<diskVars, found, pendingJobs, readyJobs, due, showVars, historyVars>>

-----------------------------------------------------------------------------
(* HandleShowJob and GetState. *)
ShowJob(j) ==
    /\ showAt \in {"idle", "shown", "notFound", "unreadable"}
    /\ shown' = j /\ showAt' = "getState" /\ showState' = "none"
    /\ showDue' = IF job[j] = "done" THEN "done" ELSE IF Exists(j) THEN "there" ELSE "none"
    /\ UNCHANGED <<diskVars, listVars, discarded, disturbed>>

(* Mutant of GetStatePending: both calls look at the ready path. *)
GetStateReadyOnly ==
    /\ showAt = "getState"
    /\ \/ Place(shown) = "ready" /\ showAt' = "readInfo" /\ showState' = "ready"
       \/ Place(shown) # "ready" /\ showAt' = "getReady" /\ UNCHANGED showState
    /\ UNCHANGED <<diskVars, listVars, shown, historyVars>>

GetStatePending ==
    /\ showAt = "getState"
    /\ \/ Place(shown) = "pending" /\ showAt' = "readInfo" /\ showState' = "pending"
       \/ Place(shown) # "pending" /\ showAt' = "getReady" /\ UNCHANGED showState
    /\ UNCHANGED <<diskVars, listVars, shown, historyVars>>

GetStateReady ==
    /\ showAt = "getReady"
    /\ \/ Place(shown) = "ready" /\ showAt' = "readInfo" /\ showState' = "ready"
       \/ Place(shown) # "ready" /\ showAt' = "notFound" /\ UNCHANGED showState
    /\ UNCHANGED <<diskVars, listVars, shown, historyVars>>

(* ReadJobBuildInfo at the path of that state: build_info.json, then the log. *)
ReadBuildInfo ==
    /\ showAt = "readInfo"
    /\ showAt' = IF Place(shown) = showState /\ job[shown] \in HasInfo
                 THEN "readLog" ELSE "unreadable"
    /\ UNCHANGED <<diskVars, listVars, shown, showState, historyVars>>

ReadLog ==
    /\ showAt = "readLog"
    /\ showAt' = IF Place(shown) = showState /\ job[shown] \in HasLog
                 THEN "shown" ELSE "unreadable"
    /\ UNCHANGED <<diskVars, listVars, shown, showState, historyVars>>

-----------------------------------------------------------------------------
WebNext ==
    \/ \E p \in ProjectSet : MakeDir(p)
    \/ \E j \in Jobs : Work(j) \/ MoveToReady(j) \/ RemoveBuild(j)
    \/ \E j \in ShownJobs : ShowJob(j)
    \/ ListProjects \/ StatPending \/ StatReady \/ ListPending \/ ListReady
    \/ GetPendingJobs \/ GetReadyJobs
    \/ GetStatePending \/ GetStateReady \/ ReadBuildInfo \/ ReadLog

WebSpec == WebInit /\ [][WebNext]_webVars
-----------------------------------------------------------------------------
(* Every variable holds a value of its type. *)
WebTypeOK ==
    /\ dirs \in [ProjectSet -> 0..3]
    /\ job \in [Jobs -> {"absent"} \cup InPending \cup InReady]
    /\ at \in {"idle", "statPending", "statReady", "listPending", "listReady",
              "readPending", "readReady", "listed", "failed"}
    /\ now \in 0..Len(Projects) /\ left \subseteq 1..Len(Projects)
    /\ at \in {"statPending", "statReady", "listPending", "listReady",
              "readPending", "readReady"} => now # 0
    /\ found \subseteq {"pending", "ready"}
    /\ pendingJobs \subseteq Jobs /\ readyJobs \subseteq Jobs
    /\ jobs \in Seq(Jobs \X ProjectSet \X {"pending", "ready"})
    /\ shown \in Jobs \cup {NoJob}
    /\ showAt \in {"idle", "getState", "getReady", "readInfo", "readLog",
                  "shown", "notFound", "unreadable"}
    /\ showState \in {"none", "pending", "ready"}
    /\ due \subseteq Jobs /\ discarded \subseteq Jobs
    /\ disturbed \subseteq {"move", "other"}
    /\ showDue \in {"none", "there", "done", "removed"}

Entries(j) == {i \in 1..Len(jobs) : jobs[i][1] = j}

(* A listing that succeeds is complete although it is read piecemeal: a    *)
(* job that was there when it began is in it exactly once, moved in the    *)
(* meantime or not, unless its build was removed in the meantime; any      *)
(* other job that was not removed is in it at most once                    *)
(* (server.go:590-631).                                                    *)
ListingIsComplete ==
    at = "listed" => \A j \in Jobs \ discarded :
        /\ Cardinality(Entries(j)) <= 1
        /\ j \in due => Entries(j) # {}

(* A job that exists is found although it moves between the two Stat calls *)
(* of GetState, and a successful build can always be shown                 *)
(* (job.go:321-333, server.go:226-240).                                    *)
ExistingJobIsFound ==
    /\ showAt = "notFound" => showDue \in {"none", "removed"}
    /\ showAt = "unreadable" => showDue # "done"

(* A listing fails only for a reason: something happened to the            *)
(* directories while it was made, or a job or a project was half made when *)
(* it began.  A project without pending/ or ready/ is such a reason, as    *)
(* the loop then keeps the names of the project before it                  *)
(* (server.go:561, 590-631).                                               *)
FailureHasCause ==
    at = "failed" => disturbed # {} \/ \E p \in ProjectSet : dirs[p] \in {1, 2}

=============================================================================
