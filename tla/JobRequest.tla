----------------------------- MODULE JobRequest -----------------------------
(***************************************************************************)
(* From the command line to the ID of the job: what parseDynamicArgs       *)
(* (module ClientArgs) reads is posted as the parameters of a JobRequest,  *)
(* from which HandleNewJob calls NewJob (module JobID).  A second request  *)
(* for any job is posted by someone who does not use the client.           *)
(***************************************************************************)
EXTENDS JobID, ClientArgs, SequencesExt

requestVars == <<idVars, argsVars>>

Equals == 7  \* the character "="

(* A value as the string it is, and the map that is sent. *)
String(value) ==
    value[1] \o FlattenSeq([i \in 1..(Len(value) - 1) |-> <<Equals>> \o value[i + 1]])
Strings(params) == [k \in DOMAIN params |-> String(params[k])]

(* The pieces of a value are strings, and so is the whole. *)
ASSUME RequestConstants ==
    /\ Names \subseteq Text
    /\ \A v \in Values : v \in Seq(Text) /\ v # <<>> /\ String(v) \in Text

RequestInit == IdInit /\ ArgsInit

(* The client posts its request when its command line is read. *)
Post ==
    /\ entered /\ words = <<>>
    /\ \E p \in ProjectNames, g \in GroupNames, t \in Tars :
         NewJob(1, [project |-> p, group |-> g, params |-> Strings(parsed), tar |-> t])
    /\ UNCHANGED argsVars

PostOther == \E j \in Jobs : NewJob(2, j) /\ UNCHANGED argsVars

RequestNext ==
    \/ ArgsNext /\ UNCHANGED idVars
    \/ Post \/ PostOther
    \/ (\E c \in Calls : NewJobStep(c)) /\ UNCHANGED argsVars

RequestSpec == RequestInit /\ [][RequestNext]_requestVars

-----------------------------------------------------------------------------
(* A command line names the job it describes: whoever asks for the same    *)
(* project, group, files and parameters, in another order, by other forms  *)
(* or with other opaque parameters, has the same ID and so finds the       *)
(* client's result; and whoever asks for one different value does not      *)
(* (cmd/mistry/main.go:258, job.go:106-126).                                *)
LineNamesItsJob ==
    LET meant == Relevant(Strings(Meaning))
        asked == Relevant(job[2].params)
    IN  Done /\ Plain /\ (\A f \in {"project", "group", "tar"} : job[1][f] = job[2][f]) =>
          /\ asked = meant => SameId
          /\ DOMAIN asked = DOMAIN meant
             /\ (\E k \in DOMAIN meant : \A n \in DOMAIN meant : asked[n] # meant[n] <=> n = k)
               => ~SameId

=============================================================================
