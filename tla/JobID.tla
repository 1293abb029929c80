------------------------------- MODULE JobID -------------------------------
(***************************************************************************)
(* The ID of a job (cmd/mistryd/job.go, NewJob): a hash of a seed that     *)
(* NewJob puts together from the project, the group, the parameters and    *)
(* the project's files.  Go visits the parameters in any order; they are   *)
(* sorted by name, and those whose name begins with "_" are left out.      *)
(*                                                                         *)
(* Here the seed itself is of interest, so strings are sequences of        *)
(* characters, a character is a number, and "_" is the number 0.  The hash *)
(* is taken to tell all seeds apart.  Two calls of NewJob are made, one    *)
(* after the other, and their results compared.  Module JobRequest says    *)
(* where their arguments come from.                                        *)
(***************************************************************************)
EXTENDS Naturals, Sequences, Functions

CONSTANTS
    ProjectNames, GroupNames, ParamNames, ParamValues,
    Tars    \* the contents of a project's directory

(* Strings, as sequences of characters. *)
Text == Seq(Nat)

ASSUME IdConstants ==
    \A S \in {ProjectNames, GroupNames, ParamNames, ParamValues, Tars} : S \subseteq Text

Calls == {1, 2}

(* The arguments of NewJob; a parameter that is not given has no entry. *)
Params == UNION {[names -> ParamValues] : names \in SUBSET ParamNames}
Jobs == [project : ProjectNames, group : GroupNames, params : Params, tar : Tars]

VARIABLES
    job,     \* the arguments of each call
    at,      \* where each call is
    unseen,  \* the parameters its first loop has yet to visit
    keys,    \* its variable keys
    seed     \* its variable seed

idVars == <<job, at, unseen, keys, seed>>

Underscore == 0
Opaque(k) == k # <<>> /\ Head(k) = Underscore

(* The order of strings: after some equal characters s ends, or goes on    *)
(* with the smaller one.                                                   *)
Less(s, t) ==
    \E n \in 0..Len(s) :
        /\ n < Len(t)
        /\ \A i \in 1..n : s[i] = t[i]
        /\ n = Len(s) \/ s[n + 1] < t[n + 1]

(* What sort.Strings may make of s: the same strings in ascending order. *)
Sortings(s) ==
    {t \in {[i \in DOMAIN s |-> s[p[i]]] : p \in Bijection(DOMAIN s, DOMAIN s)} :
        \A i, j \in DOMAIN s : i < j => Less(t[i], t[j]) \/ t[i] = t[j]}

IdInit ==
    /\ job = [c \in Calls |-> <<>>]
    /\ at = [c \in Calls |-> "new"]
    /\ unseen = [c \in Calls |-> {}]
    /\ keys = [c \in Calls |-> <<>>]
    /\ seed = [c \in Calls |-> <<>>]

(* The second call begins when the first has its ID. *)
Turn(c) == c = 1 \/ at[1] = "done"

(* The call. *)
NewJob(c, j) ==
    /\ Turn(c) /\ at[c] = "new"
    /\ job' = [job EXCEPT ![c] = j]
    /\ at' = [at EXCEPT ![c] = "collect"]
    /\ unseen' = [unseen EXCEPT ![c] = DOMAIN j.params]
    /\ UNCHANGED <<keys, seed>>

(* The loop over the parameters, in any order. *)
Collect(c) ==
    /\ Turn(c) /\ at[c] = "collect"
    /\ \E k \in unseen[c] :
        /\ unseen' = [unseen EXCEPT ![c] = @ \ {k}]
        /\ keys' = IF Opaque(k) THEN keys ELSE [keys EXCEPT ![c] = Append(@, k)]
    /\ UNCHANGED <<job, at, seed>>

(* Mutant of SortKeys: the keys stay in the order they were visited. *)
SortNothing(c) ==
    /\ Turn(c) /\ at[c] = "collect" /\ unseen[c] = {}
    /\ seed' = [seed EXCEPT ![c] = job[c].project \o job[c].group]
    /\ at' = [at EXCEPT ![c] = "append"]
    /\ UNCHANGED <<job, unseen, keys>>

(* sort.Strings, and the seed begins with the project and the group. *)
SortKeys(c) ==
    /\ Turn(c) /\ at[c] = "collect" /\ unseen[c] = {}
    /\ \E sorted \in Sortings(keys[c]) : keys' = [keys EXCEPT ![c] = sorted]
    /\ seed' = [seed EXCEPT ![c] = job[c].project \o job[c].group]
    /\ at' = [at EXCEPT ![c] = "append"]
    /\ UNCHANGED <<job, unseen>>

(* Mutant of AppendParam: the value is forgotten. *)
AppendName(c) ==
    /\ Turn(c) /\ at[c] = "append" /\ keys[c] # <<>>
    /\ seed' = [seed EXCEPT ![c] = @ \o Head(keys[c])]
    /\ keys' = [keys EXCEPT ![c] = Tail(@)]
    /\ UNCHANGED <<job, at, unseen>>

(* The loop over the sorted names: name and value, nothing in between. *)
AppendParam(c) ==
    /\ Turn(c) /\ at[c] = "append" /\ keys[c] # <<>>
    /\ seed' = [seed EXCEPT ![c] = @ \o Head(keys[c]) \o job[c].params[Head(keys[c])]]
    /\ keys' = [keys EXCEPT ![c] = Tail(@)]
    /\ UNCHANGED <<job, at, unseen>>

(* The files come last. *)
AppendTar(c) ==
    /\ Turn(c) /\ at[c] = "append" /\ keys[c] = <<>>
    /\ seed' = [seed EXCEPT ![c] = @ \o job[c].tar]
    /\ at' = [at EXCEPT ![c] = "done"]
    /\ UNCHANGED <<job, unseen, keys>>

(* The steps of a call that has begun. *)
NewJobStep(c) == Collect(c) \/ SortKeys(c) \/ AppendParam(c) \/ AppendTar(c)

-----------------------------------------------------------------------------
Done == \A c \in Calls : at[c] = "done"
SameId == seed[1] = seed[2]

(* The parameters that matter to the build. *)
Relevant(params) == [k \in {n \in DOMAIN params : ~Opaque(n)} |-> params[k]]

SameJob == /\ job[1].project = job[2].project
           /\ job[1].group = job[2].group
           /\ job[1].tar = job[2].tar
           /\ Relevant(job[1].params) = Relevant(job[2].params)

(* Requests for the same job have the same ID, in whatever order the       *)
(* parameters are visited and whatever the opaque ones say                 *)
(* (job.go:106-117).                                                       *)
SameJobSameId == Done /\ SameJob => SameId

(* The mark a parameter leaves in the seed: none if it is not there, nor   *)
(* if its name and its value are both empty.                               *)
Mark(params, k) == IF k \in DOMAIN Relevant(params) THEN k \o params[k] ELSE <<>>

(* Two jobs that differ in one thing, be it the project, the group, the    *)
(* files, a parameter that only one of them has and that leaves a mark, or *)
(* the value of one parameter, have different IDs (job_test.go,            *)
(* TestJobID).                                                             *)
OneDifferenceTells ==
    LET r == Relevant(job[1].params)
        s == Relevant(job[2].params)
        fields == {f \in {"project", "group", "tar"} : job[1][f] # job[2][f]}
        names == {k \in DOMAIN r \cup DOMAIN s :
                    k \in DOMAIN r \cap DOMAIN s => r[k] # s[k]}
        OneField == names = {} /\ \E f \in fields : fields = {f}
        OneParam == fields = {} /\ \E k \in names :
                      /\ names = {k}
                      /\ \/ k \in DOMAIN r \cap DOMAIN s
                         \/ Mark(job[1].params, k) # Mark(job[2].params, k)
    IN  Done /\ (OneField \/ OneParam) => ~SameId

-----------------------------------------------------------------------------
(* What the repository says and the code does not do. *)

(* Jobs with different parameters have different IDs (job_test.go:27).     *)
DifferentParamsTell ==
    Done /\ Relevant(job[1].params) # Relevant(job[2].params) => ~SameId

=============================================================================
