# A TLA+ development of mistry

mistry is a build server. A client posts a job (a project, a group and
parameters); the server `mistryd` builds the project's docker image, runs a
container on a fresh build directory and keeps the artifacts, which the client
fetches. Identical requests are *coalesced* into one build, successful results
are *cached*, and a job of a group is built *incrementally* on a copy of the
group's latest success. Browsers list the jobs and follow their logs.

This directory models the server with everything that runs beside its workers
(log streaming, web view, docker daemon, image rebuild) and the command-line
client, model-checks it with TLC on small instances and proves its main safety
properties with TLAPS for every instance. Paths below are relative to `src/`.

## 1. Inventory

| Component | State | Operations | Interacts with |
|---|---|---|---|
| Job API (`cmd/mistryd/server.go`, `HandleNewJob`) | one handler per request | refuse, accept, 503, wait, answer | pool (a bounded channel, a result channel per item) |
| Worker pool (`worker_pool.go`) | queue, workers, result channels | `NewWorkerPool`, `SendWork`, `work`, `Wait`, `Stop` | calls `Server.Work` |
| `JobQueue` (`job_queue.go`) | set of job IDs under a mutex | `Add`, `Delete` | shared by all workers |
| `ProjectQueue` (`project_queue.go`) | a map of mutexes and a mutex for it | `Lock`, `Unlock` | `BootstrapProject`, the 'latest' links |
| `Server.Work` (`worker.go`) | program point, `BuildInfo`, `err` of each worker | coalesce, look up, remove, bootstrap, build, persist, move, link | all of the above, the disk, docker |
| Job (`job.go`) | identity and paths of a job | `NewJob`, `CloneSrcPath`, `BootstrapBuildDir`, `ReadJobBuildInfo`, `GetState` | the disk |
| Docker side (`job.go`, `BuildImage`, `StartContainer`, `renameIfExists`) | image tag per project, container name per job | build, rename leftovers, create, start, follow, inspect, remove | the docker daemon, which outlives the server |
| Image rebuild (`server.go`, `RebuildImages`, `dockerPruneUnused`) | - | rebuild images, prune containers and images | a second process on the same daemon |
| Build directory | `pending/<id>`, `ready/<id>`, `latest`, `groups/<g>` | mkdir, copy, write, rename, remove, symlink | survives the process |
| Start-up (`main.go`, `PruneZombieBuilds`) | - | remove `pending/*`, start the server | the disk |
| Filesystem adapters (`pkg/filesystem`) | - | `Create`, `Clone`, `Remove` (plain, btrfs) | the disk |
| Log streaming (`pkg/broker`, `pkg/tailer`, `HandleServerPush`) | clients, counts, a channel per job, tailers | connect, leave, open, read, broadcast, close | reads `pending/<id>/out.log` |
| Web view (`HandleIndex`, `getJobs`, `HandleShowJob`) | - | list and show jobs | reads the build directory without locks |
| Client (`cmd/mistry`) | target directory | parse arguments, post, wait, clear, copy | the job API, rsync or scp |
| Configuration, metrics, utilities | - | - | - |

What is hard here: workers that share a directory tree with no lock but the
JobQueue entry; a waiter that learns of the end of a build by polling the disk;
deferred functions whose order matters; calls that fail in the middle and leave a
directory half made or half removed; a process that may die between any two of
these steps while its containers run on; goroutines that wait for each other on
unbuffered channels; readers of the directories that take no lock at all.
`PROJECT.json` lists the hazards line by line.

What makes the components correct:

- pool: an accepted item is worked on exactly once and replied to exactly once,
  accepted work is bounded, `Stop` drains;
- coalescing: one build of an ID at a time; waiters are answered; waiters never
  take up the whole pool;
- cache: a success is permanent and never rebuilt; a failure is never served by
  the cache;
- publication: links lead to complete successes; moves never collide; a client
  told of success finds the artifacts; what is cloned is complete;
- restart: what a crash leaves behind, on disk or in docker, does no harm;
- locks: one holder per project, nobody waits for ever;
- log streaming: one tailer per job as long as it has clients; lines complete and
  in order; nobody is kept;
- web view: a listing that succeeds is complete, a job that exists is found;
- docker: a build gets the exit code of its own container, its image is there;
- identity: equal jobs have equal IDs, different jobs different ones;
- client: exit code 0 means that all files the fetched pattern matches are there,
  and nothing is destroyed before there is a build to fetch.

## 2. Modules

| Module | What it is |
|---|---|
| `WorkerPool` | job API and pool, with what Work returns left open |
| `Server` | extends `WorkerPool` with `Server.Work`, JobQueue, disk, faults, crash and restart |
| `BuildStore` | abstract specification of the build directory, implemented by `Server` |
| `ProjectQueue`, `ProjectMutex` | the map of mutexes with `BootstrapProject`, and the mutex per project it implements |
| `Docker` | docker daemon, docker side of a build, rebuild command |
| `Broker` | log streaming |
| `WebView` | listing and showing jobs among the steps of the workers |
| `JobID`, `ClientArgs`, `JobRequest` | the seed of a job's ID; the client's parameters; the two composed |
| `Client` | the client against a server that may do anything a server does |
| `MC...` | instances for TLC |
| `...Proofs` | theorems and proofs |

### WorkerPool

`queue` is the channel `p.queue`, `result[r]` and `closed` the buffered result
channel of an item, `current[w]` the item a worker is busy with, `status[r]` and
`answer[r]` how far the HTTP handler of request `r` got and what it sent.
`Refuse`, `Accept`, `Overload`, `SendOnClosed` and `Wait` are the ways through
`HandleNewJob`; `Take`, `Reply` and `Exit` the loop of `work`; `Stop` closes the
queue. `PoolCrash` and `NewWorkerPool` are the death and the start of the
process; nothing of the pool is persisted. A send on the closed queue panics;
net/http recovers the panic and drops the connection (`"lost"`).

### Server

`pc[w]` is the worker's place in `Work`; an action is the code between two
points at which another worker can interfere, usually one system call with the
code around it:

| Actions | `worker.go` |
|---|---|
| `StartWork`, `FinishWork` | 23-38; the pool's `work`, `writeWorkResult` |
| `Add`, `Coalesce`, `ExitCode` | 40-78, 307-313 |
| `LookUp`, `UnlinkFile`, `Remove` | 80-106 |
| `StatProject`, `BootstrapProject`, `CloneSrcPath`, `BootstrapBuildDir` | 108-128, 276-303, `job.go` 338-395 |
| `PersistPending`, `WriteParams` | 130-134, 190-202 |
| `BuildImage`, `StartContainer`, `ReadJobLogs` | 215-272, `job.go` 146-240 |
| `Close`, `PersistFinal`, `Rename`, `RemoveLink`, `Symlink`, `Delete` | the deferred functions in the order they run: 220-230 and 203-213, 178-188, 137-147, 149-167, 169-173, 43 |
| `Crash`, `Prune`, `StartServer` | process death, `PruneZombieBuilds`, `StartServer` |

Abstractions:

- A build directory is `[files, exit, err]`: which of `build_info.json` and
  `out.log` can be read, and the exit code and error `build_info.json` records.
  Nothing else in the directory is read back by the server.
- `os.RemoveAll` is not atomic (`UnlinkFile`, then `Remove`), so a waiter can
  read a directory that is being removed. A btrfs subvolume is deleted at once,
  which is `Remove` without an `UnlinkFile`.
- A failing write of `build_info.json` may have truncated it.
- `fs.Clone` onto a leftover directory copies *into* it and succeeds; `fs.Create`
  fails on it.
- At most `MaxFaults` calls fail, each at one of the named `FaultPoints`. An
  error that needs no fault (a leftover directory, an unreadable result) is an
  ordinary disjunct. An error of the docker client, of the image build or of its
  inspection is one fault point, as `Work` treats them alike.
- Of a result with an error the client sees only the error
  (`writeWorkResult`), so `FinishWork` keeps only that.
- A removal that fails during start-up ends the process, which leaves the model
  where it was, down; a `pending/` that cannot be listed is skipped (the fault
  `"prune"`).
- A ticker tick that finds no ready path changes nothing and is a stutter.
- The project's lock is the set `locked`, which is what `ProjectMutex` promises.
- `fresh` is a history variable: the waiters whose owner's build has ended. Only
  the property `CoalescedIsFresh` reads it.

`cfg` files set `Results <- BuildInfo`: what a worker of the pool replies is what
`Work` returned (assumption `ServerTypes`).

### BuildStore

Per job ID `"absent"`, `"failed"` or `"done"`, the set of IDs being built and the
links. A failure may be discarded by the build that replaces it, a success
never; links are only set to a success; a crash forgets what was building.
`Server!Store` is the refinement mapping: an ID is done when the cache would
serve it, failed when the ready path holds anything else, and building from the
lookup to the move.

### ProjectQueue and ProjectMutex

`ProjectQueue.Lock` and `Unlock` call by call: `mu` is the mutex of the map,
`made[p]` the map (a `sync.Mutex` is named by its project and the worker that
made it, so that two mutexes of a project would be two), `held` who holds each.
Under the lock `BootstrapProject` makes its directories; `EnsureDirExists` is a
`Stat` and a `Mkdir` with room in between. The `Stat` or `Mkdir` of an `Unlucky`
worker may fail by itself. The refinement mapping `Owner` takes the worker between the
return of `Lock` and the call of `Unlock` for the owner.

### Docker

One step per call to the daemon. Containers are numbered in the order they are
created; `named` are those that have the job's own name and not the one
`renameIfExists` gives; `matches[j]` is the list it works through, which may
contain containers pruned since. `tag[p]` is the one tag all jobs of a project
share, `VersionOf[j]` the version of the project's files the job's ID stands for.
`BuildImage` starts an attempt without a result. `Crash` ends the server and leaves
the daemon; a result of its lifetime is lost unless its build had been published. `cut` is a history variable: the jobs whose
present `renameIfExists` met an error of the daemon, as opposed to a container
that is gone. `Rebuild`, `RebuildImage`,
`PruneContainers` and `PruneImages` are the other process; a failing image build
ends it or not, as with and without `--fail-fast`. Work does not build a job again
whose result was 0 (module `Server`). Bounds: `MaxContainers`, `MaxFaults`,
`MaxCrashes`, `MaxRebuilds`.

### Broker

The loop of `ListenForClients` (`loop`, `about`, `todo`, `facing`), the handlers
of `HandleServerPush`, and per tailer its reader and its closer. A tailer with
its goroutines and its entry in `CloseClientC` is named by the client that had it
made. Channels are unbuffered, so a send and its receive are one step. `got[c]`
is what a client was sent, as pairs of a tailer and a line. The closer's late
lookup in `CloseClientC` is a step of its own (`LookUpChannel`); when the loop is
then writing the map for another job, the Go runtime may end the process, which
`fatal` records, like the call of a method of a nil file. `StalledClients` keep
their connection open without reading it.

### WebView

A job's directory goes through the states Work gives it, as far as the web view
can tell them apart; `getJobs`, `GetState` and `ReadJobBuildInfo` take one file
system call per step. `now` is the place in `Projects` of the project `getJobs`
has come to and `left` the places of those after it. `pendingJobs` and `readyJobs` keep their names from one
project to the next, as the Go variables do. `due`, `discarded`, `disturbed` and
`showDue` are history variables that say what a listing or a page owes its
reader.

### JobID, ClientArgs, JobRequest

`JobID` puts the seed of the hash together as `NewJob` does, so strings are
sequences of characters there, a character being a number; the hash is taken to
be injective. The map of parameters is visited in any order, and `sort.Strings` is
what it promises, a permutation in ascending order (`Sortings`). In `ClientArgs` a
user writes parameters one after the other (`Write`), maybe a last name without a
value, and enters the command (`Enter`); then `parseDynamicArgs` reads it word by
word. A word is the sequence of its pieces between `=` signs. `JobRequest` posts
what the one has parsed to the other and compares it with an arbitrary second
request.

### Client

Client runs for one job against a server reduced to what `WorkerPool` and
`Server` leave of it for a client: it refuses, builds once for all who wait,
answers, dies and comes back, or does nothing. Its answers are as untidy as the
server's: an error although a success has been published, an earlier failure
although a build is running, and exit code 0 for a build that StartContainer ended
with an error (`ready = "errored"`), whose container may even run on and write.

`target[c]` says for each file name whether the target directory has no such
file, the old one, a part or the new one; the names of old files may be those of
artifacts. The source of a fetch is the pattern `<path>/*` (`main.go:316`). It does
not match top-level dotfiles (`Hidden`), except perhaps with an rsync daemon, which
matches patterns by itself (`DotGlob`); when it matches nothing, both tools fail.
scp clears the target before (`Clear`) and writes in place; rsync passes over files
of the same size and time (`SameStat`), and its `--delete` with such a source
deletes only inside the directories it transfers (`Extra`). After a file that
cannot be copied both go on (`"limp"`) and exit with an error. What scp and rsync
do is not in the repository: it is modelled from their manuals, as far as the
arguments in `transport.go` ask for it.

## 3. What is checked

Passing runs:

| Run | Instance | Shows |
|---|---|---|
| `pool` | 5 requests (one asynchronous), 2 workers, queue of 1; Stop and crash anywhere | `OneReplyPerItem`, `BoundedWork`, `AcceptedIsFinished`, `StopDrains` |
| `server_safety` | 2 workers, 3 identical requests and 1 other job of the project and group, 1 fault anywhere, 1 crash anywhere, symmetry of the identical requests and of the workers | the invariants and action properties of `Server`, `ImplementsStore` |
| `server_liveness` | the same with 2 identical requests, 1 fault anywhere, no crash | `WaitingIsAnswered`, `OwnershipEnds` |
| `broker_safety` | 2 jobs, 3 clients of which one stalls, 1 line | `OneTailerPerJob`, `CloserHasOwnChannel` |
| `broker_liveness` | 1 job, 2 clients, 2 lines, nobody stalls | `LinesInOrder`, `LeavingClientReturns`, `AllClientsReceive`, `TailersAreClosed` |
| `web_view` | 2 projects with a job each, one of them shown | `ListingIsComplete`, `FailureHasCause`, `ExistingJobIsFound` |
| `docker` | 2 jobs of a project, 3 containers, 1 fault, 1 crash, 1 rebuild with newer files, symmetry of the jobs | `LeftoversDoNotBlock`, `ImageIsThere`, `ExitCodeIsOwn`, `ExitCodeIsReturned` |
| `project_queue` | 2 workers (one unlucky), 2 projects, bootstraps without end | `BootstrapSucceeds`, `ImplementsMutex`, `BootstrapReturns` |
| `client` | 3 clients: scp and rsync with `--clear-target`, the latter without a time-out, one `--no-wait`; 5 file names, 3 of them in the target before; builds that leave 3 files, only a dotfile, or none | `ZeroMeansArtifacts`, `TargetKeptUntilSuccess`, `WaitingEnds` |
| `job_request` | lines of up to 2 parameters in both forms; names that are prefixes of each other and also values; a value with an `=`; an opaque parameter | `SameJobSameId`, `OneDifferenceTells`, `LineNamesItsJob` |

Why the bounds are enough to be interesting. Two workers are needed for any
race, and with two a waiter and an owner fill the pool; three identical requests
give a failed build, its rebuild and a waiter that meets the earlier failure; the
fourth request has a different ID under the same link, so it competes for the
mutex and the link and is cloned from. Five requests exceed what a queue of one
and two workers hold. One fault and one crash combine with each other and with
every interleaving. Three clients of the broker give a second tailer of a job
while the first is being closed and the map written for another job. Two projects
are needed for names to be carried from one to the next. With three containers, a
fault and a crash a job lists two leftovers, a renamed and a named one, before it
creates the third; with a prune in between, renaming meets one that has gone, and under the
mutant that renames the oldest first the name is then still taken. Of the client's
files one is artifact and old file at once, one is an old file next to it, one an
old file at the top, one a dotfile.

`CHECK_DEADLOCK FALSE` where there is an end: in the server's, broker's, docker's
and client's runs requests, connections, containers and commands are finite, and
`job_request` ends with two IDs. The pool's, web view's and project queue's runs
check for deadlock: their processes go on.

The type invariants of the proved modules other than `Server`, `OneHolder` and
`SuccessIsNotRebuilt` are left to the proofs (the last two also follow from
`ImplementsMutex` and `ImplementsStore`). Any of them can be checked by naming it
in the cfg.

Each property of a passing run has a mutant: a variant of one action with a
plausible mistake (a queue one too long, a channel not closed, a job queue that
does not say the ID is taken, a lookup that removes successes, a start that does
not prune, a map read without its mutex, names that are not sorted, ...) under
which TLC finds the property violated.

### Fairness

- `FairPoolSpec`: each worker and each handler whose channel holds a result takes
  its steps; that Work returns is an assumption there.
- `FairSpec` (`Server`): weak fairness of each worker's steps *that do not fail*
  (`Works /\ WorkerStep`) and of the handlers. Goroutines are scheduled, and the
  only lock they wait for, the project's mutex, is held over a few system calls.
  For `StartContainer` it includes that docker answers and that containers end;
  `Work` has no time-out of its own. Requests, faults, crashes and restarts are
  not forced.
- `FairBrokerSpec`: weak fairness of the loop, of every handler, reader and
  closer. Which ready channel the loop's `select` takes is left open, and nothing
  forces connections, hang-ups, log lines or the write of a stalled client.
- `FairQueueSpec`: strong fairness of waiting for a mutex, as `sync.Mutex` hands
  the lock over to a goroutine it has starved; weak fairness of the rest.
- `FairClientSpec`: the client posts, reads an answer that is there, and its
  time-out comes if it has one (60 minutes by default, none with `--timeout 0` or
  `""`). The server owes nothing, nor do scp and rsync, for which `utils.RunCmd`
  waits without a time-out: `WaitingEnds` is about the wait for the server only.

`WaitingIsAnswered` says exactly who is left waiting: nobody, unless a failing
call ended the owner before it moved anything to ready.

### Where the code and its comments disagree

Two runs are expected to fail, each stating what a comment or document of the
repository says:

- `container_error_cached` (`SuccessMeansNoError`): `StartContainer` returns exit
  code 0 together with its errors; the failed build is published with exit code 0
  and served to the next request, and to waiters, as a success. (A cached result
  carries the text in `ErrBuild`, which the client does not look at; a coalesced
  one does not.)
- `stale_coalesce` (`CoalescedIsFresh`): a waiter polls the ready path while an
  earlier failed build is still there and reports that as the result of the build
  it waits for.

The models also reach the following. The passing properties are stated so that
they say when it happens; definitions in the sections headed "What the repository
says and the code does not do" state the opposite and can be checked by naming
them in a cfg.

- A waiter whose owner failed before the move to ready polls for ever
  (`worker.go:48-77`); another request for the job may rescue it.
- `BootstrapBuildDir` does not clean up after an error (`job.go:356` says it
  does), and later builds of the job fail on the leftover until a restart.
- A build that failed before its log was created is published without one; the
  lookup needs the log, and no later request restarts the build
  (`worker.go:83-90`).
- A client that asks for the log before it exists or while the build is moved
  makes a tailer without a file, whose reader panics (`broker.go:96-105`;
  `TailerHoldsFile`).
- A client that does not read its connection stops the broker's loop for all
  (`broker.go:128-131`; add a stalled client to the instance of
  `AllClientsReceive`).
- A listing fails when a build is moved while it is read, and when a project has
  no `pending/` or `ready/` and inherits the names of the one before it
  (`server.go:561-631`).
- The rebuild command may prune a container that has ended before its exit code is
  read; `StartContainer` returns while its container runs on when the output
  cannot be followed (`job.go:210-229`).
- A container may be created from the image the rebuild command, or a job with
  other files of the project, has just tagged (`job.go:133, 183`; `RunsOwnVersion`).
- Parameters `{a: "b"}` and `{ab: ""}` have one seed (`job.go:121`;
  `DifferentParamsTell`).
- With rsync old files next to the artifacts survive `--clear-target`
  (`transport.go:78`, `ClearedTargetIsClean`).
- Top-level dotfiles of a build are not fetched, a build without other files
  cannot be fetched at all, and a client may exit with 0 on a build that
  StartContainer ended with an error (`main.go:304-316`).
- A client without a time-out waits for a silent server for ever, and any client
  for an scp or rsync that hangs (`main.go:190-195, 338`, `utils.go:52-56`).
- `--foo=x=y` sends the value `x`, `--foo x=y` sends `x=y` (`main.go:373-374`;
  `LineNamesItsJob` is about lines without the first, `Plain`).

## 4. What is proved

TLAPS checks, for every value of the constants:

- `ServerProofs`, of the pool: `PoolTypeCorrect`, `EveryItemRepliedOnce`,
  `WorkIsBounded`; of the server: `TypeCorrect`, `OneBuilderPerJob`, `PoolIsNeverSeized`,
  `LinksNeverDangle`, `ReportedArtifactsExist`, `CloneSourcesAreComplete`,
  `TargetsAreFree`, `SuccessNeverLost`, `ServerImplementsStore`,
  `NothingIsRebuilt`, `NothingLeftPending`, `SuccessKeepsItsLink`,
  `LookUpNeverFails`;
- `BuildStoreProofs`: `OutcomesAreFinal`, `LinksAreSafe`, `DoneIsFinal`;
- `ProjectQueueProofs`: `QueueTypeCorrect`, `OneHolderPerProject`,
  `BootstrapsSucceed`, `QueueImplementsMutex`;
- `BrokerProofs`: `BrokerTypeCorrect`, `TailersFollowClients`,
  `SignalsReachTheirTailer`, `LinesComeInOrder`;
- `WebViewProofs`: `WebTypeCorrect`, `IndexIsComplete`, `IndexFailsForAReason`,
  `JobPageIsFound`;
- `DockerProofs`: `DockerTypeCorrect`, `ImagesAreThere`, `ExitCodesAreOwn`,
  `LeftoversNeverBlock`, `ExitCodesAreReturned`;
- `ClientProofs`: `ClientTypeCorrect`, `ExitZeroMeansArtifacts`, `TargetIsKept`;
- `JobRequestProofs`: `SameJobsShareTheirId`, `OneDifferenceChangesTheId`,
  `CommandLinesNameTheirJob`.

Assumptions: `PoolConstants` (finitely many workers, at least one, a queue of at
least one), `ServerConstants` (jobs, projects and groups are functions of the
request and the ID; exit codes are 0..255), `ServerTypes`, `QueueConstants`,
`BrokerConstants` (finitely many clients), `DockerConstants`, `ClientConstants`,
`WebConstants` (`ReadDir` lists distinct names, and a job has one project),
`IdConstants` (names, values and files are strings), `RequestConstants` (so are
the names and values on a command line, and the pieces of a value).
TLC evaluates them on every run. The theorems about the abstract store have its
constants' types as their hypothesis (`StoreConstants`).

**Pool.** `OneReplyPerItem` is not inductive: a request that is still new might
already be queued, or its channel closed. `PoolInv` adds `WorkIsAccepted`, that
whatever is queued, with a worker or closed was accepted, and that a channel with
a result is closed. `WorkIsBounded` then follows in each state: unfinished items
are among those queued or with a worker, of which there are at most `Len(queue)`
and one per worker.

**Server.** None of the properties is inductive by itself. `Inv` joins

- `PoolInv`, so that a worker's item is its own,
- `WorkerInv(w)`, what a worker may rely on at each program point: an owner's ID
  is in the job queue; from the removal on the ready path holds no success, after
  it the path is free until the move; the pending directory exists from the first
  persist on; at the link its own result is a complete success; a result about to
  be replied is backed by the disk; a clone source is a complete success and
  another job's,
- `BuildExclusion` and `QueuedIsOwned` (an ID is in the job queue exactly as long
  as a worker owns it, which gives `SomeoneCanWork`: a worker begins to wait only
  for an ID that another worker owns, and an owner does not wait),
- `LockExclusion` (the workers between removing and making a link hold the mutex
  of different projects),
- `LinksAreGood`, `ReportsHold` (results in channels and answers are backed by
  the disk) and `DownIsIdle`.

The argument rests on two frame facts, `WorkFrame`: a step of a worker changes
only the directories of its own ID, and never a success; so whatever another
worker relies on is kept (`BuildExclusion`), and whatever a link, an answer or a
clone source relies on is kept (successes are permanent). Each action then only
has to re-establish its own worker's `WorkerInv`.

**Refinement.** `Inv` gives the guards of the abstract actions: `LookUp` begins a
build, `Remove` discards a failure, `Rename` publishes, every error return
abandons, `RemoveLink` and `Symlink` move the link, `Crash` loses the running
builds, everything else is a stutter (`UnlinkFile` too: a failure that loses
files stays a failure). The abstract store never builds what it has, so
`SuccessIsNotRebuilt` carries over.

**Server without faults.** `Inv` holds whatever fails, so it says nothing of what
is left in `pending/` or of a link that is missing. `FaultFreeInv` adds what is
known while no call has failed: no error is under way (`ErrFree`), each pending
directory has its builder (`PendingHasBuilder`; the restart prunes before it
serves, so deaths do not matter); and, as long as the process has not died
either, each published success has its link or a worker that is about to make it
(`SuccessIsLinked`), and only a worker in `os.RemoveAll` leaves a ready directory
incomplete (`ReadyIsComplete`). `CleanStep` sums up what a worker's step does
when nothing fails; the lemma about it needs `Inv`, which says that no `Mkdir`,
`Rename` or `Symlink` finds its target taken.

**Project queue.** `LockInv`: the holder of `q.mu` is the one worker between its
lock and its unlock; a mutex in the map is never replaced, and whoever is past the lookup has
the one the map holds; a worker between `Lock` and `Unlock` is the one `held`
names. Hence `OneHolder`, with which `Owner` is well defined and
`Lock` and `Unlock` are the abstract steps. `BootInv` adds that the directories
before `step` exist and that the one about to be made does not, which only the
lock protects.

**Broker.** `BrokerInv` joins the types, `Counted` (a count is the number of
registered clients), `Registered` (a registered client's handler is serving or
writing) and `TailerInv` (a job with clients has a tailer, whose closer was made
for the channel in the map). A channel is only replaced when the count is 0, and
then the loop has already handed the signal to the old closer, which is why the
late lookup is harmless. `LinesInv` adds what each registered client was sent of
each tailer: everything up to the line at hand, or up to the one before it for the
clients the loop has still to come to (`UpToDate`); a client that joins was sent
nothing before (`NothingSent`), and a tailer that is opened, which sets its place
to the end of the log, has sent nothing to anyone (`OpenedBefore`).

**Web view.** `WebInv` joins the types, `DiskInv` (a job has a directory only
where its project has both), `ListInv`, `QuietInv` and `ShowInv`. Of `ListInv`,
`ReadOnce` says that a job that has been seen under `ready/` stays there, so that
an entry read from `pending/` and one read from `ready/` exclude each other unless
the build was removed; `NotMissed` follows a job that was there from the beginning
from point to point: it is in a project still to come, or on one of the two lists,
or has moved to `ready/` before that is listed, or has its entry. `QuietInv` says
that the lists are the names on the disk as long as nothing is disturbed.
`ShowInv` says that a job `GetState` did not find under `pending/` is under
`ready/`.

**Docker.** `ImageIsThere` follows from `BuiltIsTagged` and `UsedIsKept`;
`ExitCodeIsOwn` needs `OwnInv`, that the container StartContainer works on is one
its job created, started and, by the time it is inspected, ended;
`LeftoversDoNotBlock` needs `FreeInv`: containers are created in order, the one
with a job's own name is the newest of the job, and while the job renames it is on
the list, so that a pruned container, at which the renaming stops, is never in
front of it. This holds whatever has failed before, as a container is only created
when the name is free. `ExitCodeIsReturned` needs `OwnInv` and `QuietInv`: while nothing
fails and nobody rebuilds, a job has no container before it creates one, only the
job itself removes it, and not before it has been inspected.

**Client.** `ClientInv` adds `AnswersAreTrue` (nothing is built while there is
something to serve, so that what was served stays, `ServedStays`; `ok` goes only
to clients that wait), `FetchesServed` (only such a client clears or copies),
`ClearedBefore` (until the transport starts, files are as they were or gone, and
all gone if scp was to clear) and `Copies`: while no file has failed, everything
has been copied and deleted but what the transport has yet to do (`DoneBut`), which
is nothing when it ends.

**Job ID and command line.** What sorting, appending and parsing compute for
sequences of any length would need induction over the data, whose library theorems
the installed provers cannot instantiate. The loops are the induction instead:
`RequestInv` says at each of their steps what has been computed so far.

- `KeysInv`: while `NewJob` collects, `keys` and the names still to be visited are
  without repetition the names that count; after the sort they are in ascending
  order, so that the next name is always the least of those left (`HeadIsFirst`),
  and the least is unique (`FirstIsUnique`).
- `FirstInv`: the seeds that the first call goes through form a trace, a function
  from the set of names still left to the seed at that point (`IsTrace`).
- `SecondInv`: the second call is compared with that trace. Let `d` be any string,
  and let the two jobs agree on all parameters but `d`. As long as neither has
  come to `d` they have appended the same to what they began with (`BeforeD`);
  afterwards the same before `d`, each its own mark, and the same since (`AfterD`).
- `SeedsInv`: so two finished seeds are the same around project and group, the
  mark of `d` and the files, for one `p` and one `q`. For jobs that agree on
  everything the seeds are equal; if they differ in one place, cancelling on both
  sides leaves that difference (`CatCancels`, `MarkCancels`, `StartCancels`). Two differences at
  once do not cancel, and indeed `{a: "b"}` and `{ab: ""}` collide.
- `ArgsInv`: the words still to be read are those that follow the first `n`
  parameters of the line, for some `n` (`AreCuts`), and the map holds the last
  values among these `n` (`IsParsed`). A word that is a value is therefore never
  read as a name, whatever it looks like.
- `PostedInv`: after the post the line is not read any further, and the parameters
  of the first job are those parsed.

Each of the inductive invariants was also checked by TLC on the run's instance
before it was proved (of `RequestInv`, whose traces and cuts are quantified over
all functions, the parts without them).

Only model-checked: the liveness properties (`AcceptedIsFinished`, `StopDrains`,
`WaitingIsAnswered`, `OwnershipEnds`, `LeavingClientReturns`, `AllClientsReceive`,
`TailersAreClosed`, `BootstrapReturns`, `WaitingEnds`), as fairness is out of the
prover's reach. The two runs that are expected to fail are not theorems.

## 5. Not modelled, and what is left

Left out for good: metrics (counters that the program never reads), log lines,
HTML and browser code, wording of messages, the `contrib/` script, which works on
the directories from outside, and configuration parsing (straight-line checks;
its defaults are the assumptions on `Workers` and `Backlog`). `PathIsDir` and
`RunCmd` are single calls and `Tar` a walk without state. Of the client, flag
parsing by the cli library and the files behind `@` values are left out, and the
JSON encoding of strings is taken to lose nothing; of the filesystem adapters, the
registry and the btrfs commands.

Simplified, with no effect on the properties as stated:

- `PruneZombieBuilds` visits the projects that `getProjects` lists; the model's
  projects all have a Dockerfile, so a project that has lost it, and is not pruned,
  does not occur.
- A failed `Clone` leaves an empty directory or all of the base, never a part: the
  server reads nothing back from a directory that was not moved to ready.
- A log line is as long as it is: `bufio.Scanner`'s limit of 64 KiB, and the log
  and `build_info.json` that an incremental build starts with as copies of its
  base's, are left out of `Broker` and `WebView`.

What could follow: theorems that bound what the model reaches beyond its
properties, such as when a waiter may be left without an answer, or which pairs of
different jobs share a seed.
