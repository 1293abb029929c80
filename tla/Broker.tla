------------------------------- MODULE Broker -------------------------------
(***************************************************************************)
(* Log streaming: HandleServerPush (cmd/mistryd/server.go), the event loop *)
(* of pkg/broker and the tailers of pkg/tailer.                            *)
(*                                                                         *)
(* A browser's connection is a client of the broker.  The first client of  *)
(* a job makes the loop open a tailer of the job's log and start two       *)
(* goroutines: a reader, which sends the lines it finds to the loop, and a *)
(* closer, which closes the file once the last client has left.  The loop  *)
(* passes a line to the clients of the job one after the other.  All       *)
(* channels are unbuffered: a send and its receive are one step, and who   *)
(* sends waits.                                                            *)
(*                                                                         *)
(* A tailer, its two goroutines and its channel in CloseClientC are named  *)
(* by the client that had them made.                                       *)
(***************************************************************************)
EXTENDS Naturals, Sequences, FiniteSets

CONSTANTS
    Jobs,            \* job IDs
    Clients,         \* connections to /log/, each made once
    JobOf,           \* the job a client asks for
    StalledClients,  \* those that keep their connection and do not read it
    MaxLines,        \* bound: lines a build writes to its log
    NoClient         \* no tailer, no channel

ASSUME BrokerConstants ==
    /\ IsFiniteSet(Clients)
    /\ JobOf \in [Clients -> Jobs]
    /\ StalledClients \subseteq Clients
    /\ MaxLines \in Nat
    /\ NoClient \notin Clients

VARIABLES
    build,     \* per job: "bootstrapped" (pending, without a log), "building"
               \* (pending, with a log) or "ready"
    log,       \* the number of lines in the job's log
    conn,      \* the connections: "open" or "closed" by the browser
    handler,   \* where each client's HandleServerPush is
    got,       \* what each client was sent: pairs of a tailer and a line
    clients,   \* br.clients
    count,     \* br.clientsCount
    closeC,    \* br.CloseClientC, by the client the channel was made for
    loop,      \* what ListenForClients is doing
    about,     \* the client or the tailer it is doing it for
    todo,      \* the clients the event at hand is still to be sent to
    facing,    \* the one of them the loop is sending to
    file,      \* the file of each tailer: "none", "open", "closed" or "nil"
    read,      \* the lines its reader has read from the file
    sent,      \* the lines its reader has sent to the loop
    reader,    \* "off", "on" or "end"
    closer,    \* "off", "start", "wait", "close" or "end"
    waitsOn,   \* the channel the closer waits on
    fatal      \* what ended the process, or "no"

envVars == <<build, log, conn>>
clientVars == <<handler, got>>
registryVars == <<clients, count, closeC>>
loopVars == <<loop, about, todo, facing>>
tailVars == <<file, read, sent, reader>>
closerVars == <<closer, waitsOn>>
brokerVars == <<envVars, clientVars, registryVars, loopVars, tailVars, closerVars, fatal>>

ClientsOf(j) == {c \in clients : JobOf[c] = j}

(* NewBroker, before any connection; the jobs' directories exist. *)
BrokerInit ==
    /\ build = [j \in Jobs |-> "bootstrapped"]
    /\ log = [j \in Jobs |-> 0]
    /\ conn = [c \in Clients |-> "open"]
    /\ handler = [c \in Clients |-> "new"]
    /\ got = [c \in Clients |-> <<>>]
    /\ clients = {}
    /\ count = [j \in Jobs |-> 0]
    /\ closeC = [j \in Jobs |-> NoClient]
    /\ loop = "select" /\ about = NoClient /\ todo = {} /\ facing = NoClient
    /\ file = [t \in Clients |-> "none"]
    /\ read = [t \in Clients |-> 0]
    /\ sent = [t \in Clients |-> 0]
    /\ reader = [t \in Clients |-> "off"]
    /\ closer = [t \in Clients |-> "off"]
    /\ waitsOn = [t \in Clients |-> NoClient]
    /\ fatal = "no"

-----------------------------------------------------------------------------
(* The build, as far as its log is concerned: Work creates the log in the  *)
(* pending directory, the container writes to it, and the directory is     *)
(* moved to ready.  An open file can still be read after the move.         *)
CreateLog(j) ==
    /\ build[j] = "bootstrapped"
    /\ build' = [build EXCEPT ![j] = "building"]
    /\ UNCHANGED <<log, conn, clientVars, registryVars, loopVars, tailVars, closerVars, fatal>>

WriteLine(j) ==
    /\ build[j] = "building"
    /\ log[j] < MaxLines
    /\ log' = [log EXCEPT ![j] = @ + 1]
    /\ UNCHANGED <<build, conn, clientVars, registryVars, loopVars, tailVars, closerVars, fatal>>

MoveToReady(j) ==
    /\ build[j] # "ready"
    /\ build' = [build EXCEPT ![j] = "ready"]
    /\ UNCHANGED <<log, conn, clientVars, registryVars, loopVars, tailVars, closerVars, fatal>>

-----------------------------------------------------------------------------
(* HandleServerPush up to its send to NewClients: only a pending job is    *)
(* streamed, any other is a 204.                                           *)
Connect(c) ==
    /\ handler[c] = "new"
    /\ handler' = [handler EXCEPT
                     ![c] = IF build[JobOf[c]] = "ready" THEN "refused" ELSE "joining"]
    /\ UNCHANGED <<envVars, got, registryVars, loopVars, tailVars, closerVars, fatal>>

(* The browser closes the connection; CloseNotify fires. *)
HangUp(c) ==
    /\ handler[c] \in {"joining", "serving", "writing"}
    /\ conn[c] = "open"
    /\ conn' = [conn EXCEPT ![c] = "closed"]
    /\ UNCHANGED <<build, log, clientVars, registryVars, loopVars, tailVars, closerVars, fatal>>

(* Mutant of Write: the handler returns when a write fails, and leaves its *)
(* channel without a receiver.                                             *)
WriteOrReturn(c) ==
    /\ handler[c] = "writing"
    /\ c \notin StalledClients \/ conn[c] = "closed"
    /\ handler' = [handler EXCEPT ![c] = IF conn[c] = "closed" THEN "done" ELSE "serving"]
    /\ UNCHANGED <<envVars, got, registryVars, loopVars, tailVars, closerVars, fatal>>

(* Fprintf and Flush return: the browser took the line, or is gone. *)
Write(c) ==
    /\ handler[c] = "writing"
    /\ c \notin StalledClients \/ conn[c] = "closed"
    /\ handler' = [handler EXCEPT ![c] = "serving"]
    /\ UNCHANGED <<envVars, got, registryVars, loopVars, tailVars, closerVars, fatal>>

(* The handler finds its Data channel closed and returns. *)
Return(c) ==
    /\ handler[c] = "serving"
    /\ c \notin clients
    /\ handler' = [handler EXCEPT ![c] = "done"]
    /\ UNCHANGED <<envVars, got, registryVars, loopVars, tailVars, closerVars, fatal>>

-----------------------------------------------------------------------------
(* Mutant of NewClient: a further client is registered and not counted. *)
NewClientUncounted(c) ==
    LET j == JobOf[c] IN
    /\ loop = "select"
    /\ handler[c] = "joining"
    /\ handler' = [handler EXCEPT ![c] = "serving"]
    /\ clients' = clients \cup {c}
    /\ \/ /\ count[j] > 0
          /\ UNCHANGED <<count, closeC, loop, about>>
       \/ /\ count[j] = 0
          /\ count' = [count EXCEPT ![j] = 1]
          /\ closeC' = [closeC EXCEPT ![j] = c]
          /\ loop' = "open" /\ about' = c
    /\ UNCHANGED <<envVars, got, todo, facing, tailVars, closerVars, fatal>>

(* The loop receives from NewClients.  For a job's first client it stores  *)
(* a new channel in CloseClientC and goes on to open the tailer.           *)
NewClient(c) ==
    LET j == JobOf[c] IN
    /\ loop = "select"
    /\ handler[c] = "joining"
    /\ handler' = [handler EXCEPT ![c] = "serving"]
    /\ clients' = clients \cup {c}
    /\ \/ /\ count[j] > 0
          /\ count' = [count EXCEPT ![j] = @ + 1]
          /\ UNCHANGED <<closeC, loop, about>>
       \/ /\ count[j] = 0
          /\ count' = [count EXCEPT ![j] = 1]
          /\ closeC' = [closeC EXCEPT ![j] = c]
          /\ loop' = "open" /\ about' = c
    /\ UNCHANGED <<envVars, got, todo, facing, tailVars, closerVars, fatal>>

(* tailer.New opens the log in the pending directory and seeks to its end. *)
(* When there is no such file, before the log is created or after the      *)
(* move, the error is logged and the tailer has no file.                   *)
OpenTailer ==
    LET j == JobOf[about] IN
    /\ loop = "open"
    /\ file' = [file EXCEPT ![about] = IF build[j] = "building" THEN "open" ELSE "nil"]
    /\ read' = [read EXCEPT ![about] = log[j]]
    /\ sent' = [sent EXCEPT ![about] = log[j]]
    /\ reader' = [reader EXCEPT ![about] = "on"]
    /\ closer' = [closer EXCEPT ![about] = "start"]
    /\ loop' = "select" /\ about' = NoClient
    /\ UNCHANGED <<envVars, clientVars, registryVars, todo, facing, waitsOn, fatal>>

(* Mutant of ClosingClient: the channel has room for the signal, the loop  *)
(* does not wait for the closer.                                           *)
ClosingClientBuffered(c) ==
    /\ loop = "select"
    /\ c \in clients
    /\ conn[c] = "closed"
    /\ clients' = clients \ {c}
    /\ count' = [count EXCEPT ![JobOf[c]] = @ - 1]
    /\ UNCHANGED <<envVars, clientVars, closeC, loopVars, tailVars, closerVars, fatal>>

(* The loop receives from ClosingClients: it closes the client's Data and  *)
(* forgets it.  After the last client of a job it signals the closer.      *)
ClosingClient(c) ==
    /\ loop = "select"
    /\ c \in clients
    /\ conn[c] = "closed"
    /\ clients' = clients \ {c}
    /\ count' = [count EXCEPT ![JobOf[c]] = @ - 1]
    /\ \/ count[JobOf[c]] = 1 /\ loop' = "signal" /\ about' = c
       \/ count[JobOf[c]] # 1 /\ UNCHANGED <<loop, about>>
    /\ UNCHANGED <<envVars, clientVars, closeC, todo, facing, tailVars, closerVars, fatal>>

(* The send to CloseClientC[id] and the closer that receives it. *)
Signal(t) ==
    /\ loop = "signal"
    /\ closer[t] = "wait"
    /\ waitsOn[t] = closeC[JobOf[about]]
    /\ closer' = [closer EXCEPT ![t] = "close"]
    /\ loop' = "select" /\ about' = NoClient
    /\ UNCHANGED <<envVars, clientVars, registryVars, todo, facing, tailVars, waitsOn, fatal>>

(* The loop receives the next line of a reader from Notifier. *)
Notify(t) ==
    /\ loop = "select"
    /\ reader[t] = "on"
    /\ sent[t] < read[t]
    /\ sent' = [sent EXCEPT ![t] = @ + 1]
    /\ \/ ClientsOf(JobOf[t]) = {} /\ UNCHANGED loopVars
       \/ /\ ClientsOf(JobOf[t]) # {}
          /\ loop' = "broadcast" /\ about' = t /\ todo' = ClientsOf(JobOf[t])
          /\ facing' \in todo'
    /\ UNCHANGED <<envVars, clientVars, registryVars, file, read, reader, closerVars, fatal>>

(* Mutant of Deliver: a client that is busy is skipped. *)
DeliverOrSkip(c) ==
    /\ loop = "broadcast"
    /\ c = facing
    /\ \/ /\ handler[c] = "serving"
          /\ got' = [got EXCEPT ![c] = Append(@, <<about, sent[about]>>)]
          /\ handler' = [handler EXCEPT ![c] = "writing"]
       \/ handler[c] # "serving" /\ UNCHANGED clientVars
    /\ todo' = todo \ {c}
    /\ \/ todo = {c} /\ loop' = "select" /\ about' = NoClient /\ facing' = NoClient
       \/ todo # {c} /\ facing' \in todo \ {c} /\ UNCHANGED <<loop, about>>
    /\ UNCHANGED <<envVars, registryVars, tailVars, closerVars, fatal>>

(* One send of the loop over br.clients, in the order of Go's map: the     *)
(* handler of the client it has come to must receive before it goes on.    *)
Deliver(c) ==
    /\ loop = "broadcast"
    /\ c = facing
    /\ handler[c] = "serving"
    /\ got' = [got EXCEPT ![c] = Append(@, <<about, sent[about]>>)]
    /\ handler' = [handler EXCEPT ![c] = "writing"]
    /\ todo' = todo \ {c}
    /\ \/ todo = {c} /\ loop' = "select" /\ about' = NoClient /\ facing' = NoClient
       \/ todo # {c} /\ facing' \in todo \ {c} /\ UNCHANGED <<loop, about>>
    /\ UNCHANGED <<envVars, registryVars, tailVars, closerVars, fatal>>

-----------------------------------------------------------------------------
(* Tailer.Read under the reader's scanner, which asks for more when it has *)
(* handed out all complete lines: it returns what is there, waits at the   *)
(* end of the file, fails on a closed file (the scanner then ends) and     *)
(* panics without one.                                                     *)
Read(t) ==
    /\ reader[t] = "on"
    /\ sent[t] = read[t]
    /\ \/ /\ file[t] = "open"
          /\ \E n \in (read[t] + 1)..log[JobOf[t]] : read' = [read EXCEPT ![t] = n]
          /\ UNCHANGED <<reader, fatal>>
       \/ /\ file[t] = "closed"
          /\ reader' = [reader EXCEPT ![t] = "end"]
          /\ UNCHANGED <<read, fatal>>
       \/ /\ file[t] = "nil"
          /\ fatal' = "nil tailer"
          /\ UNCHANGED <<read, reader>>
    /\ UNCHANGED <<envVars, clientVars, registryVars, loopVars, file, sent, closerVars>>

(* The closer looks its channel up when it is scheduled.  The loop may be  *)
(* writing the map for another job: the runtime then ends the process if   *)
(* it notices.                                                             *)
LookUpChannel(t) ==
    /\ closer[t] = "start"
    /\ \/ /\ closer' = [closer EXCEPT ![t] = "wait"]
          /\ waitsOn' = [waitsOn EXCEPT ![t] = closeC[JobOf[t]]]
          /\ UNCHANGED fatal
       \/ /\ loop = "open"
          /\ fatal' = "concurrent map read and write"
          /\ UNCHANGED closerVars
    /\ UNCHANGED <<envVars, clientVars, registryVars, loopVars, tailVars>>

(* Mutant of CloseFile: the file is left open. *)
CloseFileNot(t) ==
    /\ closer[t] = "close"
    /\ closer' = [closer EXCEPT ![t] = "end"]
    /\ UNCHANGED <<envVars, clientVars, registryVars, loopVars, tailVars, waitsOn, fatal>>

(* The closer has its signal and calls tl.Close. *)
CloseFile(t) ==
    /\ closer[t] = "close"
    /\ closer' = [closer EXCEPT ![t] = "end"]
    /\ \/ file[t] = "open" /\ file' = [file EXCEPT ![t] = "closed"] /\ UNCHANGED fatal
       \/ file[t] = "nil" /\ fatal' = "nil tailer" /\ UNCHANGED file
    /\ UNCHANGED <<envVars, clientVars, registryVars, loopVars, read, sent, reader, waitsOn>>

-----------------------------------------------------------------------------
(* What the loop does next, whatever channel it is about. *)
LoopStep ==
    \/ \E c \in Clients : NewClient(c) \/ ClosingClient(c) \/ Deliver(c) \/ Signal(c) \/ Notify(c)
    \/ OpenTailer

(* Nothing happens in a process that has ended. *)
BrokerNext ==
    /\ fatal = "no"
    /\ \/ \E j \in Jobs : CreateLog(j) \/ WriteLine(j) \/ MoveToReady(j)
       \/ \E c \in Clients : Connect(c) \/ HangUp(c) \/ Write(c) \/ Return(c)
       \/ \E t \in Clients : Read(t) \/ LookUpChannel(t) \/ CloseFile(t)
       \/ LoopStep

BrokerSpec == BrokerInit /\ [][BrokerNext]_brokerVars

(***************************************************************************)
(* Goroutines are scheduled: the loop, the handlers, the readers and the   *)
(* closers.  A write to a connection returns unless the browser has        *)
(* stalled.  Which ready channel the loop's select prefers is left open.   *)
(* Connections, hang-ups and the builds are not forced.                    *)
(***************************************************************************)
BrokerFairness ==
    /\ WF_brokerVars(fatal = "no" /\ LoopStep)
    /\ \A c \in Clients :
        /\ WF_brokerVars(fatal = "no" /\ (Write(c) \/ Return(c)))
        /\ WF_brokerVars(fatal = "no" /\ Read(c))
        /\ WF_brokerVars(fatal = "no" /\ (LookUpChannel(c) \/ CloseFile(c)))

FairBrokerSpec == BrokerSpec /\ BrokerFairness

-----------------------------------------------------------------------------
(* Every variable holds a value of its Go type. *)
BrokerTypeOK ==
    /\ build \in [Jobs -> {"bootstrapped", "building", "ready"}]
    /\ log \in [Jobs -> Nat]
    /\ conn \in [Clients -> {"open", "closed"}]
    /\ handler \in [Clients -> {"new", "refused", "joining", "serving", "writing", "done"}]
    /\ got \in [Clients -> Seq(Clients \X Nat)]
    /\ clients \subseteq Clients
    /\ count \in [Jobs -> Nat]
    /\ closeC \in [Jobs -> Clients \cup {NoClient}]
    /\ loop \in {"select", "open", "signal", "broadcast"}
    /\ about \in Clients \cup {NoClient}
    /\ loop # "select" => about \in Clients
    /\ todo \subseteq Clients
    /\ facing \in Clients \cup {NoClient}
    /\ loop = "broadcast" => facing \in todo
    /\ file \in [Clients -> {"none", "open", "closed", "nil"}]
    /\ read \in [Clients -> Nat]
    /\ sent \in [Clients -> Nat]
    /\ reader \in [Clients -> {"off", "on", "end"}]
    /\ closer \in [Clients -> {"off", "start", "wait", "close", "end"}]
    /\ waitsOn \in [Clients -> Clients \cup {NoClient}]
    /\ fatal \in {"no", "nil tailer", "concurrent map read and write"}

(* The tailers that serve a job: opened, and not yet told to close. *)
Serving(j) == {t \in Clients : JobOf[t] = j /\ closer[t] \in {"start", "wait"}}

(* The count that decides when a tailer is opened and closed is the number *)
(* of registered clients (broker.go:84-94, 117-126), and a job has one     *)
(* tailer while it has clients and none otherwise, except while the loop   *)
(* is about to open or to close it.                                        *)
OneTailerPerJob ==
    \A j \in Jobs :
        /\ count[j] = Cardinality(ClientsOf(j))
        /\ loop \in {"select", "broadcast"} =>
             Cardinality(Serving(j)) = IF ClientsOf(j) = {} THEN 0 ELSE 1

(* A closer looks its channel up late, by job (broker.go:107), and the     *)
(* next first client of the job replaces the channel: still every closer   *)
(* finds the channel made for it, and the loop's signal goes to the tailer *)
(* of the job whose last client left.                                      *)
CloserHasOwnChannel ==
    /\ \A t \in Clients :
        /\ closer[t] = "start" => closeC[JobOf[t]] = t
        /\ closer[t] = "wait" => waitsOn[t] = t /\ closeC[JobOf[t]] = t
    /\ loop = "signal" => Serving(JobOf[about]) = {closeC[JobOf[about]]}

(* The last line a client was sent of a tailer, if any, is the n-th. *)
SentUpTo(c, t, n) ==
    \A i \in 1..Len(got[c]) : got[c][i][1] = t =>
        \E k \in i..Len(got[c]) : got[c][k] = <<t, n>>

(* What a client is sent are lines of its own job; the lines of one tailer *)
(* come in the order of the log without a gap: between a line and any      *)
(* earlier one of the same tailer is the line before it; and once the loop *)
(* is back at its select no client lacks the last of them                  *)
(* (broker.go:127-132).                                                    *)
LinesInOrder ==
    \A c \in Clients :
        /\ \A k \in 1..Len(got[c]) :
             /\ JobOf[got[c][k][1]] = JobOf[c]
             /\ \A i \in 1..(k - 1) : got[c][i][1] = got[c][k][1] =>
                  \E m \in i..(k - 1) : /\ got[c][m][1] = got[c][k][1]
                                        /\ got[c][m][2] + 1 = got[c][k][2]
        /\ loop = "select" /\ c \in clients => \A t \in Clients : SentUpTo(c, t, sent[t])

(* A browser that hangs up is let go, whatever the loop is busy with       *)
(* (server.go:350-353).                                                    *)
LeavingClientReturns ==
    \A c \in Clients : conn[c] = "closed" ~> handler[c] = "done" \/ fatal # "no"

(* Every line the loop takes up reaches every client that is registered    *)
(* for its job and reads its connection (broker.go:54-55).                 *)
AllClientsReceive ==
    \A c \in Clients \ StalledClients : c \in todo ~> c \notin todo \/ fatal # "no"

(* When the last client of a job has left for good, its files are closed   *)
(* and its goroutines end (broker.go:106-112).                             *)
TailersAreClosed ==
    \A t \in Clients :
        <>[](ClientsOf(JobOf[t]) = {}) =>
            <>[](fatal # "no" \/ (closer[t] \in {"off", "end"} /\ reader[t] # "on"))

-----------------------------------------------------------------------------
(* What the repository says and the code does not do. *)

(* No reader or closer of a tailer uses a file that is not there           *)
(* (tailer.go:21).                                                         *)
TailerHoldsFile == fatal # "nil tailer"

=============================================================================
