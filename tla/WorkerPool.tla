----------------------------- MODULE WorkerPool -----------------------------
(***************************************************************************)
(* The job API of mistryd and its fixed-size pool of workers               *)
(* (cmd/mistryd/server.go, HandleNewJob; cmd/mistryd/worker_pool.go).      *)
(*                                                                         *)
(* A handler turns a request into a Job and offers it to a bounded queue.  *)
(* A worker takes the oldest item, runs Server.Work on it, writes the      *)
(* result to the item's own channel and closes that channel.  The handler  *)
(* of a synchronous request waits on the channel; nobody reads the channel *)
(* of an asynchronous one.  What Work does is left open here: a worker may *)
(* reply with any member of Results.  Module Server fills that in.         *)
(***************************************************************************)
EXTENDS Naturals, Sequences, FiniteSets

CONSTANTS
    Requests,        \* the HTTP requests clients make, each of them once
    AsyncRequests,   \* those whose URL has the "async" query parameter
    Workers,         \* the goroutines NewWorkerPool starts
    Backlog,         \* the capacity of the channel p.queue
    Results,         \* the values of a WorkResult
    NoRequest,       \* a worker that holds no item
    NoResult         \* an empty result channel

ASSUME PoolConstants ==
    /\ AsyncRequests \subseteq Requests
    /\ IsFiniteSet(Workers)
    /\ Workers # {}
    /\ Backlog \in Nat \ {0}
    /\ NoRequest \notin Requests
    /\ NoResult \notin Results

VARIABLES
    server,    \* "up", "stopped" (the queue is closed) or "down" (no process)
    queue,     \* p.queue
    current,   \* the item each worker is busy with
    exited,    \* the workers whose goroutine has returned
    result,    \* what each item's result channel holds
    closed,    \* the items whose result channel is closed
    status,    \* how far the HTTP handler of each request got
    answer     \* the WorkResult each client was sent

poolVars == <<server, queue, current, exited, result, closed, status, answer>>

Statuses == {"new", "refused", "overloaded", "scheduled", "waiting",
             "answered", "lost"}

PoolInit ==
    /\ server = "up"
    /\ queue = <<>>
    /\ current = [w \in Workers |-> NoRequest]
    /\ exited = {}
    /\ result = [r \in Requests |-> NoResult]
    /\ closed = {}
    /\ status = [r \in Requests |-> "new"]
    /\ answer = [r \in Requests |-> NoResult]

Item(q) == {q[i] : i \in 1..Len(q)}

(***************************************************************************)
(* HandleNewJob up to SendWork: a bad method or body, or a project NewJob  *)
(* cannot read, ends the request before it reaches the pool.               *)
(***************************************************************************)
Refuse(r) ==
    /\ server # "down"
    /\ status[r] = "new"
    /\ status' = [status EXCEPT ![r] = "refused"]
    /\ UNCHANGED <<server, queue, current, exited, result, closed, answer>>

(* Mutant of Accept: the queue is one longer than its capacity. *)
AcceptOneTooMany(r) ==
    /\ server = "up" /\ status[r] = "new" /\ Len(queue) <= Backlog
    /\ queue' = Append(queue, r)
    /\ status' = [status EXCEPT
                    ![r] = IF r \in AsyncRequests THEN "scheduled" ELSE "waiting"]
    /\ UNCHANGED <<server, current, exited, result, closed, answer>>

(* SendWork, the case of its select that finds room in the queue. *)
Accept(r) ==
    /\ server = "up"
    /\ status[r] = "new"
    /\ Len(queue) < Backlog
    /\ queue' = Append(queue, r)
    /\ status' = [status EXCEPT
                    ![r] = IF r \in AsyncRequests THEN "scheduled" ELSE "waiting"]
    /\ UNCHANGED <<server, current, exited, result, closed, answer>>

(* SendWork, the default case of its select: the client is sent a 503. *)
Overload(r) ==
    /\ server = "up"
    /\ status[r] = "new"
    /\ Len(queue) >= Backlog
    /\ status' = [status EXCEPT ![r] = "overloaded"]
    /\ UNCHANGED <<server, queue, current, exited, result, closed, answer>>

(* SendWork after Stop: the send on the closed queue panics, and net/http  *)
(* drops the connection of the handler that panicked.                      *)
SendOnClosed(r) ==
    /\ server = "stopped"
    /\ status[r] = "new"
    /\ status' = [status EXCEPT ![r] = "lost"]
    /\ UNCHANGED <<server, queue, current, exited, result, closed, answer>>

(* A worker's range loop receives the next item, also from a closed queue. *)
Take(w) ==
    /\ server # "down"
    /\ w \notin exited
    /\ current[w] = NoRequest
    /\ queue # <<>>
    /\ current' = [current EXCEPT ![w] = Head(queue)]
    /\ queue' = Tail(queue)
    /\ UNCHANGED <<server, exited, result, closed, status, answer>>

(* Mutants of Reply: the channel is not closed; it is closed but empty. *)
ReplyWithoutClose(w, v) ==
    /\ current[w] # NoRequest
    /\ result' = [result EXCEPT ![current[w]] = v]
    /\ current' = [current EXCEPT ![w] = NoRequest]
    /\ UNCHANGED <<server, queue, exited, closed, status, answer>>
ReplyWithoutSend(w, v) ==
    /\ current[w] # NoRequest
    /\ closed' = closed \cup {current[w]}
    /\ current' = [current EXCEPT ![w] = NoRequest]
    /\ UNCHANGED <<server, queue, exited, result, status, answer>>

(* Work has returned v: the worker sends it and closes the channel. *)
Reply(w, v) ==
    /\ current[w] # NoRequest
    /\ result' = [result EXCEPT ![current[w]] = v]
    /\ closed' = closed \cup {current[w]}
    /\ current' = [current EXCEPT ![w] = NoRequest]
    /\ UNCHANGED <<server, queue, exited, status, answer>>

(* FutureWorkResult.Wait returns and writeWorkResult answers the client. *)
Wait(r) ==
    /\ status[r] = "waiting"
    /\ result[r] # NoResult
    /\ answer' = [answer EXCEPT ![r] = result[r]]
    /\ result' = [result EXCEPT ![r] = NoResult]
    /\ status' = [status EXCEPT ![r] = "answered"]
    /\ UNCHANGED <<server, queue, current, exited, closed>>

(* Stop closes the queue; its wg.Wait returns once every worker has exited. *)
Stop ==
    /\ server = "up"
    /\ server' = "stopped"
    /\ UNCHANGED <<queue, current, exited, result, closed, status, answer>>

(* Mutant of Exit: a worker leaves as soon as the queue is closed. *)
ExitBeforeDrained(w) ==
    /\ server = "stopped" /\ w \notin exited /\ current[w] = NoRequest
    /\ exited' = exited \cup {w}
    /\ UNCHANGED <<server, queue, current, result, closed, status, answer>>

(* The range loop of work ends on a queue that is closed and drained. *)
Exit(w) ==
    /\ server = "stopped"
    /\ w \notin exited
    /\ current[w] = NoRequest
    /\ queue = <<>>
    /\ exited' = exited \cup {w}
    /\ UNCHANGED <<server, queue, current, result, closed, status, answer>>

(* The requests whose work is accepted and not yet done. *)
InProgress ==
    {r \in Requests : status[r] \in {"waiting", "scheduled"} /\ r \notin closed}

(***************************************************************************)
(* The process dies.  Nothing of the pool is persisted: the queue, the     *)
(* items being worked on and the open connections are gone.                *)
(***************************************************************************)
PoolCrash ==
    /\ server # "down"
    /\ server' = "down"
    /\ queue' = <<>>
    /\ current' = [w \in Workers |-> NoRequest]
    /\ exited' = {}
    /\ result' = [r \in Requests |-> NoResult]
    /\ status' = [r \in Requests |->
                    IF status[r] = "waiting" \/ r \in InProgress
                    THEN "lost" ELSE status[r]]
    /\ UNCHANGED <<closed, answer>>

(* NewServer makes a new pool with an empty queue. *)
NewWorkerPool ==
    /\ server = "down"
    /\ server' = "up"
    /\ UNCHANGED <<queue, current, exited, result, closed, status, answer>>

PoolNext ==
    \/ \E r \in Requests : Refuse(r) \/ Accept(r) \/ Overload(r) \/ SendOnClosed(r) \/ Wait(r)
    \/ \E w \in Workers : Take(w) \/ Exit(w)
    \/ \E w \in Workers, v \in Results : Reply(w, v)
    \/ Stop
    \/ PoolCrash
    \/ NewWorkerPool

PoolSpec == PoolInit /\ [][PoolNext]_poolVars

(***************************************************************************)
(* Goroutines are scheduled: a worker that can receive, return or exit     *)
(* does, and so does a handler whose channel holds a result.  That Work    *)
(* returns at all is an assumption here and a question in module Server.   *)
(***************************************************************************)
PoolFairness ==
    /\ \A w \in Workers : WF_poolVars(Take(w) \/ Exit(w) \/ \E v \in Results : Reply(w, v))
    /\ \A r \in Requests : WF_poolVars(Wait(r))

FairPoolSpec == PoolSpec /\ PoolFairness

-----------------------------------------------------------------------------
(* Every variable holds a value of its Go type; the queue respects its     *)
(* capacity (worker_pool.go:63).                                           *)
PoolTypeOK ==
    /\ server \in {"up", "stopped", "down"}
    /\ queue \in Seq(Requests) /\ Len(queue) <= Backlog
    /\ current \in [Workers -> Requests \cup {NoRequest}]
    /\ exited \subseteq Workers
    /\ result \in [Requests -> Results \cup {NoResult}]
    /\ closed \subseteq Requests
    /\ status \in [Requests -> Statuses]
    /\ answer \in [Requests -> Results \cup {NoResult}]

(* The three places an accepted item can be in, none of them twice. *)
NeverQueuedTwice == \A i, j \in 1..Len(queue) : queue[i] = queue[j] => i = j
NeverTakenTwice ==
    \A v, w \in Workers : current[v] = current[w] /\ current[v] # NoRequest => v = w

(* No accepted item is dropped or worked on twice: the work a handler was  *)
(* promised is in the queue, with one worker, or its channel is closed,    *)
(* and it is in one of the three places only.  The two panics that         *)
(* worker_pool.go:29 and :107 call impossible are impossible: a worker     *)
(* never replies to a channel already written, a handler never waits on a  *)
(* channel that is closed and empty.                                       *)
OneReplyPerItem ==
    /\ NeverQueuedTwice
    /\ NeverTakenTwice
    /\ \A r \in Requests :
        /\ status[r] \in {"waiting", "scheduled"} =>
             r \in Item(queue) \cup closed \/ \E w \in Workers : current[w] = r
        /\ r \in Item(queue) => r \notin closed /\ \A w \in Workers : current[w] # r
        /\ r \in closed => \A w \in Workers : current[w] # r
        /\ status[r] = "waiting" /\ r \in closed => result[r] # NoResult

(* A 503 is the only back-pressure: the work the server has accepted and   *)
(* not finished never exceeds the backlog plus one item per worker         *)
(* (worker_pool.go:49, "if exceeded, sending new work ... returns an       *)
(* error").                                                                *)
BoundedWork == Cardinality(InProgress) <= Backlog + Cardinality(Workers)

(* A handler that waits is answered unless the process dies                *)
(* (server.go:151), and asynchronous work is done although nobody waits.   *)
AcceptedIsFinished ==
    \A r \in Requests :
        /\ status[r] = "waiting" ~> status[r] \in {"answered", "lost"}
        /\ status[r] = "scheduled" ~> r \in closed \/ status[r] = "lost"

(* Stop returns, and not before the backlog is drained: every worker exits *)
(* and no accepted item is left behind (worker_pool.go:73).                *)
StopDrains ==
    server = "stopped" ~>
        \/ server = "down"
        \/ exited = Workers /\ queue = <<>> /\ InProgress = {}

=============================================================================
