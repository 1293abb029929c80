------------------------------- MODULE Client -------------------------------
(***************************************************************************)
(* The command-line client (cmd/mistry/main.go and transport.go): it posts *)
(* a job, waits for the answer, if it has a time-out no longer than that,  *)
(* and has scp or rsync fetch the artifacts into a target directory that   *)
(* may hold anything, earlier versions of the artifacts included.          *)
(*                                                                         *)
(* The clients here ask for one and the same job.  The server is what      *)
(* modules WorkerPool and Server leave of it for a client: it refuses,     *)
(* builds the job once for all who wait, answers, dies, or does nothing.   *)
(***************************************************************************)
CONSTANTS
    Clients,       \* runs of the command
    NoWait,        \* those with --no-wait
    ClearTarget,   \* those with --clear-target
    Rsync,         \* those with --transport rsync, the others use scp
    Timed,         \* those with a time-out, the others have --timeout 0 or ""
    Names,         \* paths of files, in the data directory and in the target
    Hidden,        \* those under a top-level name with a leading dot
    DotGlob,       \* the rsync clients whose daemon lets * match these too (it is up to it)
    DirOf,         \* per name its top-level directory, or Top
    Top,           \* the name itself is a top-level one
    Outputs,       \* what a build may leave in its data directory
    OldFiles,      \* the files in a client's target directory before
    SameStat,      \* old files with the size and time of the new ones
    NoReply        \* no answer yet

ASSUME ClientConstants ==
    /\ NoWait \subseteq Clients /\ ClearTarget \subseteq Clients
    /\ Timed \subseteq Clients /\ DotGlob \subseteq Rsync /\ Rsync \subseteq Clients
    /\ Hidden \subseteq Names /\ OldFiles \subseteq Names /\ SameStat \subseteq OldFiles
    /\ Outputs \subseteq SUBSET Names /\ Outputs # {}
    /\ NoReply \notin {"created", "ok", "failed", "error", "overloaded", "reset"}

VARIABLES
    at,        \* where each client is; "zero" and "one" are its exit codes
    reply,     \* the answer on its connection
    target,    \* per client and name: "absent", "old", "part" or "new"
    copying,   \* the files its transport has yet to copy
    deleting,  \* the files rsync --delete has yet to delete
    running,   \* the server is building the job
    ready,     \* what is under ready/: "none", "failed", "errored" or "done"
    data,      \* the files in the data directory there
    accepted,  \* the requests the server has yet to answer
    died       \* the server has died

fetchVars == <<copying, deleting>>
clientVars == <<at, reply, target, fetchVars>>
serverVars == <<running, ready, data, accepted, died>>
allVars == <<clientVars, serverVars>>

OldTarget == [f \in Names |-> IF f \in OldFiles THEN "old" ELSE "absent"]

ClientInit ==
    /\ at = [c \in Clients |-> "start"]
    /\ reply = [c \in Clients |-> NoReply]
    /\ target = [c \in Clients |-> OldTarget]
    /\ copying = [c \in Clients |-> {}]
    /\ deleting = [c \in Clients |-> {}]
    /\ running = FALSE /\ ready = "none" /\ data = {}
    /\ accepted = {}
    /\ died = FALSE

Goto(c, place) == at' = [at EXCEPT ![c] = place]
Send(c, r) == reply' = [reply EXCEPT ![c] = r]
Put(c, f, v) == target' = [target EXCEPT ![c][f] = v]

-----------------------------------------------------------------------------
(* The server.  An "errored" build is one that StartContainer ended with   *)
(* an error: it is published with exit code 0 and served like a success.   *)
Served == ready \in {"done", "errored"}

(* HandleNewJob queues the job; one that does not wait is answered at once. *)
Accept(c) ==
    /\ at[c] = "posted" /\ reply[c] = NoReply /\ c \notin accepted
    /\ accepted' = accepted \cup {c}
    /\ IF c \in NoWait THEN Send(c, "created") ELSE UNCHANGED reply
    /\ UNCHANGED <<at, target, fetchVars, running, ready, data, died>>

(* The queue is full, the request is no good, or nobody listens. *)
Refuse(c) ==
    /\ at[c] = "posted" /\ reply[c] = NoReply /\ c \notin accepted
    /\ \E r \in {"overloaded", "error", "reset"} : Send(c, r)
    /\ UNCHANGED <<at, target, fetchVars, serverVars>>

(* Work builds what the cache does not have; an earlier failure is removed *)
(* at some time before the new build is published.                         *)
BuildStarts ==
    /\ accepted # {} /\ ~running /\ ~Served
    /\ running' = TRUE
    /\ UNCHANGED <<clientVars, ready, data, accepted, died>>

(* The build is published, whatever its exit code, or given up before. *)
BuildEnds ==
    /\ running
    /\ running' = FALSE
    /\ \/ ready' \in {"done", "failed", "errored"} /\ data' \in Outputs
       \/ ready' \in {"none", ready} /\ data' = {}
    /\ UNCHANGED <<clientVars, accepted, died>>

(* The container of an errored build may run on and write. *)
ContainerRunsOn ==
    /\ ready = "errored"
    /\ \E d \in Outputs : data' = data \cup d
    /\ UNCHANGED <<clientVars, running, ready, accepted, died>>

(* writeWorkResult: the BuildInfo of what is under ready/, which may be an *)
(* earlier failure although a build is running, or an error, also when a   *)
(* success has been published.                                             *)
Answer(c) ==
    /\ c \in accepted
    /\ accepted' = accepted \ {c}
    /\ \E r \in {"error"} \cup (IF Served THEN {"ok"} ELSE {})
                \cup (IF ready = "failed" THEN {"failed"} ELSE {}) :
         IF c \in NoWait THEN UNCHANGED reply ELSE Send(c, r)
    /\ UNCHANGED <<at, target, fetchVars, running, ready, data, died>>

(* The server process dies, its connections with it, and comes back. *)
Die ==
    /\ ~died
    /\ died' = TRUE
    /\ running' = FALSE
    /\ reply' = [c \in Clients |->
                   IF at[c] = "posted" /\ reply[c] = NoReply THEN "reset" ELSE reply[c]]
    /\ accepted' = {}
    /\ UNCHANGED <<at, target, fetchVars, ready, data>>

-----------------------------------------------------------------------------
(* Mutant of Post: the target is cleared before the job is posted. *)
ClearThenPost(c) ==
    /\ at[c] = "start"
    /\ target' = [target EXCEPT ![c] = [f \in Names |-> IF c \in ClearTarget THEN "absent" ELSE @[f]]]
    /\ Goto(c, "posted")
    /\ UNCHANGED <<reply, fetchVars, serverVars>>

(* The checks of the arguments, the target directory and sendRequest. *)
Post(c) ==
    /\ at[c] = "start"
    /\ Goto(c, "posted") \/ Goto(c, "one")
    /\ UNCHANGED <<reply, target, fetchVars, serverVars>>

(* Mutant of TimeOut: it only covers the time until the server has the job. *)
TimeOutConnecting(c) ==
    /\ at[c] = "posted" /\ c \in Timed /\ c \notin accepted
    /\ Goto(c, "one")
    /\ UNCHANGED <<reply, target, fetchVars, serverVars>>

(* The time-out of the http.Client, if it is not 0; the server does not    *)
(* notice.                                                                 *)
TimeOut(c) ==
    /\ at[c] = "posted" /\ c \in Timed
    /\ Goto(c, "one")
    /\ UNCHANGED <<reply, target, fetchVars, serverVars>>

(* The answer: any status but 201 is an error, an asynchronous request is  *)
(* done, and only a build with exit code 0 is fetched.                     *)
Receive(c) ==
    /\ at[c] = "posted"
    /\ reply[c] # NoReply
    /\ Goto(c, CASE reply[c] = "created" -> "zero"
                 [] reply[c] = "ok" -> IF c \in ClearTarget \ Rsync THEN "clear" ELSE "list"
                 [] OTHER -> "one")
    /\ UNCHANGED <<reply, target, fetchVars, serverVars>>

(* removeDirContents before scp: entry by entry, giving up on an error. *)
Clear(c) ==
    /\ at[c] = "clear"
    /\ \/ \E f \in Names : target[c][f] # "absent" /\ Put(c, f, "absent") /\ UNCHANGED at
       \/ (\A f \in Names : target[c][f] = "absent") /\ Goto(c, "list") /\ UNCHANGED target
       \/ Goto(c, "one") /\ UNCHANGED target
    /\ UNCHANGED <<reply, fetchVars, serverVars>>

(* What <path>/* matches in the data directory. *)
Matched(c) == IF c \in DotGlob THEN data ELSE data \ Hidden

(* What rsync --delete deletes with such a source: files next to those it  *)
(* transfers in a directory, and not those next to the directory.          *)
Extra(S) == {f \in Names \ S : DirOf[f] # Top /\ \E g \in S : DirOf[g] = DirOf[f]}

(* scp or rsync connects and lists what there is to copy.  It is an error  *)
(* that nothing matches.                                                   *)
List(c) ==
    /\ at[c] = "list"
    /\ \/ /\ Matched(c) # {}
          /\ copying' = [copying EXCEPT ![c] = Matched(c)]
          /\ deleting' = [deleting EXCEPT ![c] =
                            IF c \in ClearTarget \cap Rsync THEN Extra(Matched(c)) ELSE {}]
          /\ Goto(c, "copy")
       \/ Goto(c, "one") /\ UNCHANGED fetchVars
    /\ UNCHANGED <<reply, target, serverVars>>

(* A file is copied over whatever the target has under its name; rsync     *)
(* passes over one that looks the same.                                    *)
Copy(c) ==
    /\ at[c] \in {"copy", "limp"}
    /\ \E f \in copying[c] :
        /\ copying' = [copying EXCEPT ![c] = @ \ {f}]
        /\ \/ Put(c, f, "new")
           \/ c \in Rsync /\ f \in SameStat /\ target[c][f] = "old" /\ UNCHANGED target
    /\ UNCHANGED <<at, reply, deleting, serverVars>>

(* A file cannot be copied: both tools go on and exit with an error in the *)
(* end.  scp writes in place, rsync to a file of another name.             *)
CopyFails(c) ==
    /\ at[c] \in {"copy", "limp"}
    /\ \E f \in copying[c] :
        /\ copying' = [copying EXCEPT ![c] = @ \ {f}]
        /\ UNCHANGED target \/ (c \notin Rsync /\ Put(c, f, "part"))
    /\ Goto(c, "limp")
    /\ UNCHANGED <<reply, deleting, serverVars>>

(* rsync --delete, in any order with the copies. *)
Delete(c) ==
    /\ at[c] \in {"copy", "limp"}
    /\ \E f \in deleting[c] :
        /\ deleting' = [deleting EXCEPT ![c] = @ \ {f}]
        /\ Put(c, f, "absent")
    /\ UNCHANGED <<at, reply, copying, serverVars>>

(* Mutant of TransportEnds: its exit status is not looked at. *)
TransportEndsAnyway(c) ==
    /\ at[c] \in {"copy", "limp"}
    /\ copying[c] = {}
    /\ Goto(c, "zero")
    /\ UNCHANGED <<reply, target, fetchVars, serverVars>>

(* The tool ends, when all is done or because its connection broke, and    *)
(* the client with it.                                                     *)
TransportEnds(c) ==
    /\ at[c] \in {"copy", "limp"}
    /\ \/ at[c] = "copy" /\ copying[c] = {} /\ deleting[c] = {} /\ Goto(c, "zero")
       \/ Goto(c, "one")
    /\ UNCHANGED <<reply, target, fetchVars, serverVars>>

ClientNext ==
    \/ \E c \in Clients :
        \/ Accept(c) \/ Refuse(c) \/ Answer(c)
        \/ Post(c) \/ TimeOut(c) \/ Receive(c) \/ Clear(c)
        \/ List(c) \/ Copy(c) \/ CopyFails(c) \/ Delete(c) \/ TransportEnds(c)
    \/ BuildStarts \/ BuildEnds \/ ContainerRunsOn
    \/ Die

ClientSpec == ClientInit /\ [][ClientNext]_allVars

(***************************************************************************)
(* The client posts, reads an answer that is there, and its time-out, if   *)
(* it has one, comes.  The server owes nothing, nor do scp and rsync:      *)
(* utils.RunCmd waits for them without a time-out.                         *)
(***************************************************************************)
FairClientSpec ==
    /\ ClientSpec
    /\ \A c \in Clients : WF_allVars(Post(c)) /\ WF_allVars(TimeOut(c) \/ Receive(c))

-----------------------------------------------------------------------------
(* Every variable holds a value of its type. *)
ClientTypeOK ==
    /\ at \in [Clients -> {"start", "posted", "clear", "list", "copy", "limp", "zero", "one"}]
    /\ reply \in [Clients -> {NoReply, "created", "ok", "failed", "error", "overloaded", "reset"}]
    /\ target \in [Clients -> [Names -> {"absent", "old", "part", "new"}]]
    /\ copying \in [Clients -> SUBSET Names]
    /\ deleting \in [Clients -> SUBSET Names]
    /\ running \in BOOLEAN
    /\ ready \in {"none", "failed", "errored", "done"}
    /\ data \subseteq Names
    /\ accepted \subseteq Clients
    /\ died \in BOOLEAN

(* A client that waits and exits with 0 was served a build with recorded   *)
(* exit code 0, and if StartContainer had no error in that build, it has   *)
(* every file that <path>/* matches, at least one, over whatever its       *)
(* target held (with rsync, unless the old file looks the same), after     *)
(* whatever time-outs of others, failed builds and deaths of the server.   *)
(* With --clear-target and scp it has nothing else; with rsync nothing     *)
(* else in the directories that were transferred (main.go:268-325,         *)
(* transport.go:34-83).  Top-level dotfiles of the build may be missing.   *)
ZeroMeansArtifacts ==
    \A c \in Clients \ NoWait : at[c] = "zero" =>
        /\ Served
        /\ ready = "done" =>
            /\ Matched(c) # {}
            /\ \A f \in Matched(c) :
                target[c][f] = "new" \/ (c \in Rsync /\ f \in SameStat /\ target[c][f] = "old")
            /\ \A f \in Names \ Matched(c) : target[c][f] \in {"absent", OldTarget[f]}
            /\ c \in ClearTarget \ Rsync => \A f \in Names \ Matched(c) : target[c][f] = "absent"
            /\ c \in ClearTarget => \A f \in Extra(Matched(c)) : target[c][f] = "absent"

(* Nothing in the target directory is touched before a build with recorded *)
(* exit code 0 is there to replace it with: not by a time-out, a refusal,  *)
(* a failed build or a client that does not wait (main.go:268-316,         *)
(* transport.go:34-42).                                                    *)
TargetKeptUntilSuccess ==
    \A c \in Clients : target[c] # OldTarget => Served /\ c \notin NoWait

(* A client does not wait for a server that has answered, has dropped the  *)
(* connection or, if the client has a time-out, does nothing at all: it    *)
(* goes on to fetch or exits (main.go:268-282, 337-359).  Nothing is said  *)
(* of how long fetching takes.                                             *)
WaitingEnds ==
    \A c \in Clients :
        (at[c] = "posted" /\ (c \in Timed \/ reply[c] # NoReply)) ~> (at[c] # "posted")

-----------------------------------------------------------------------------
(* What the repository says and the code does not do. *)

(* With --clear-target nothing that was there before is left               *)
(* (transport.go:22-23).                                                   *)
ClearedTargetIsClean ==
    \A c \in ClearTarget \ NoWait : at[c] = "zero" =>
        \A f \in Names : target[c][f] # "old"

=============================================================================
