---------------------------- MODULE ClientProofs ----------------------------
(***************************************************************************)
(* Proofs about the command-line client: what an exit with 0 says of the   *)
(* target directory, and that the directory is left alone until there is a *)
(* build to fetch, for every set of clients, flags and files.              *)
(***************************************************************************)
EXTENDS Client, TLAPS

LEMMA ClientTypeInit == ClientInit => ClientTypeOK
<1>1. OldTarget \in [Names -> {"absent", "old", "part", "new"}]
  BY DEF OldTarget
<1> QED
  BY <1>1 DEF ClientInit, ClientTypeOK

LEMMA PutType ==
    ASSUME ClientTypeOK, NEW c \in Clients, NEW f \in Names,
           NEW v \in {"absent", "part", "new"}, Put(c, f, v)
    PROVE  target' \in [Clients -> [Names -> {"absent", "old", "part", "new"}]]
<1>1. [target[c] EXCEPT ![f] = v] \in [Names -> {"absent", "old", "part", "new"}]
  BY DEF ClientTypeOK
<1> QED
  BY <1>1 DEF ClientTypeOK, Put

(* What a single Put changes. *)
LEMMA PutChanges ==
    ASSUME ClientTypeOK, NEW c \in Clients, NEW f \in Names, NEW v, Put(c, f, v)
    PROVE  /\ target'[c][f] = v
           /\ \A g \in Names \ {f} : target'[c][g] = target[c][g]
           /\ \A d \in Clients \ {c} : target'[d] = target[d]
  BY DEF ClientTypeOK, Put

LEMMA ClientTypeStep == ClientTypeOK /\ [ClientNext]_allVars => ClientTypeOK'
<1> SUFFICES ASSUME ClientTypeOK, [ClientNext]_allVars PROVE ClientTypeOK'
  OBVIOUS
<1> USE DEF Goto, Send, clientVars, fetchVars, serverVars
<1>1. ASSUME NEW c \in Clients, Accept(c) PROVE ClientTypeOK'
  BY <1>1 DEF Accept, ClientTypeOK
<1>2. ASSUME NEW c \in Clients, Refuse(c) PROVE ClientTypeOK'
  BY <1>2 DEF Refuse, ClientTypeOK
<1>3. ASSUME NEW c \in Clients, Answer(c) PROVE ClientTypeOK'
  <2>1. reply' \in [Clients -> {NoReply, "created", "ok", "failed", "error", "overloaded", "reset"}]
    BY <1>3 DEF Answer, ClientTypeOK
  <2> QED
    BY <1>3, <2>1 DEF Answer, ClientTypeOK
<1>4. ASSUME NEW c \in Clients, Post(c) \/ TimeOut(c) \/ Receive(c) \/ TransportEnds(c)
      PROVE  ClientTypeOK'
  BY <1>4 DEF Post, TimeOut, Receive, TransportEnds, ClientTypeOK
<1>5. ASSUME NEW c \in Clients, Clear(c) PROVE ClientTypeOK'
  <2>1. target' \in [Clients -> [Names -> {"absent", "old", "part", "new"}]]
    BY <1>5, PutType DEF Clear, ClientTypeOK
  <2> QED
    BY <1>5, <2>1 DEF Clear, ClientTypeOK
<1>6. ASSUME NEW c \in Clients, List(c) PROVE ClientTypeOK'
  <2>1. Matched(c) \in SUBSET Names /\ Extra(Matched(c)) \in SUBSET Names
    BY DEF Matched, Extra, ClientTypeOK
  <2>2. copying' \in [Clients -> SUBSET Names] /\ deleting' \in [Clients -> SUBSET Names]
    <3>1. CASE UNCHANGED <<copying, deleting>>
      BY <3>1 DEF ClientTypeOK
    <3>2. CASE \E S, D \in SUBSET Names : /\ copying' = [copying EXCEPT ![c] = S]
                                          /\ deleting' = [deleting EXCEPT ![c] = D]
      BY <3>2 DEF ClientTypeOK
    <3> QED
      BY <1>6, <2>1, <3>1, <3>2 DEF List
  <2>3. at' \in [Clients -> {"start", "posted", "clear", "list", "copy", "limp", "zero", "one"}]
    BY <1>6 DEF List, ClientTypeOK
  <2> QED
    BY <1>6, <2>2, <2>3 DEF List, ClientTypeOK
<1>7. ASSUME NEW c \in Clients, Copy(c) \/ CopyFails(c) \/ Delete(c) PROVE ClientTypeOK'
  <2>1. \A f \in copying[c] \cup deleting[c] : f \in Names
    BY DEF ClientTypeOK
  <2>2. target' \in [Clients -> [Names -> {"absent", "old", "part", "new"}]]
    <3>1. CASE UNCHANGED target
      BY <3>1 DEF ClientTypeOK
    <3>2. CASE \E f \in Names, v \in {"absent", "part", "new"} : Put(c, f, v)
      BY <3>2, PutType
    <3> QED
      BY <1>7, <2>1, <3>1, <3>2 DEF Copy, CopyFails, Delete
  <2>3. copying' \in [Clients -> SUBSET Names] /\ deleting' \in [Clients -> SUBSET Names]
    BY <1>7 DEF Copy, CopyFails, Delete, ClientTypeOK
  <2>4. at' \in [Clients -> {"start", "posted", "clear", "list", "copy", "limp", "zero", "one"}]
    BY <1>7 DEF Copy, CopyFails, Delete, ClientTypeOK
  <2> QED
    BY <1>7, <2>2, <2>3, <2>4 DEF Copy, CopyFails, Delete, ClientTypeOK
<1>8. CASE BuildStarts \/ BuildEnds \/ ContainerRunsOn
  BY <1>8, ClientConstants DEF BuildStarts, BuildEnds, ContainerRunsOn, ClientTypeOK
<1>9. CASE Die
  BY <1>9 DEF Die, ClientTypeOK
<1>10. CASE UNCHANGED allVars
  BY <1>10 DEF allVars, ClientTypeOK
<1> QED
  BY <1>1, <1>2, <1>3, <1>4, <1>5, <1>6, <1>7, <1>8, <1>9, <1>10 DEF ClientNext

-----------------------------------------------------------------------------
(* A build is only under way while there is nothing to serve, so that what *)
(* was served once stays.  What an answer says: "created" goes only to     *)
(* those who do not wait, "ok" only to those who do and only about what is *)
(* served.                                                                 *)
AnswersAreTrue ==
    /\ running => ~Served
    /\ \A c \in Clients :
        /\ reply[c] = "created" => c \in NoWait
        /\ reply[c] = "ok" => Served /\ c \notin NoWait

(* A client fetches only what is served. *)
Fetching(c) == at[c] \in {"clear", "list", "copy", "limp"}
FetchesServed == \A c \in Clients : Fetching(c) => Served /\ c \notin NoWait

(* Until scp or rsync starts, files are as they were or have been cleared, *)
(* and all of them have when scp is to find an empty directory.            *)
Kept(c, f) == target[c][f] \in {"absent", OldTarget[f]}
ClearedBefore(c) ==
    /\ at[c] \in {"start", "posted", "clear", "list"} => \A f \in Names : Kept(c, f)
    /\ at[c] = "list" /\ c \in ClearTarget \ Rsync => \A f \in Names : target[c][f] = "absent"

(* What has been done while the transport has yet to copy C and delete D. *)
Fetched(c, f) ==
    target[c][f] = "new" \/ (c \in Rsync /\ f \in SameStat /\ target[c][f] = "old")
DoneBut(c, C, D) ==
    /\ Matched(c) # {}
    /\ \A f \in Matched(c) \ C : Fetched(c, f)
    /\ \A f \in Names \ Matched(c) : Kept(c, f)
    /\ c \in ClearTarget \ Rsync => \A f \in Names \ Matched(c) : target[c][f] = "absent"
    /\ c \in ClearTarget => \A f \in Extra(Matched(c)) \ D : target[c][f] = "absent"
Copies(c) ==
    at[c] = "copy" /\ ready = "done" =>
        /\ copying[c] \subseteq Matched(c) /\ deleting[c] \subseteq Extra(Matched(c))
        /\ DoneBut(c, copying[c], deleting[c])
Finished(c) == at[c] = "zero" /\ c \notin NoWait => Served /\ (ready = "done" => DoneBut(c, {}, {}))

ClientInv ==
    /\ ClientTypeOK /\ AnswersAreTrue /\ FetchesServed /\ TargetKeptUntilSuccess
    /\ \A c \in Clients : ClearedBefore(c) /\ Copies(c) /\ Finished(c)

LEMMA FinishedMeansArtifacts == (\A c \in Clients : Finished(c)) => ZeroMeansArtifacts
  BY DEF Finished, DoneBut, Fetched, Kept, ZeroMeansArtifacts

LEMMA ClientInvInit == ClientInit => ClientInv
<1> SUFFICES ASSUME ClientInit PROVE ClientInv
  OBVIOUS
<1>1. \A c \in Clients : target[c] = OldTarget /\ at[c] = "start" /\ reply[c] = NoReply
  BY DEF ClientInit
<1>2. AnswersAreTrue /\ FetchesServed /\ TargetKeptUntilSuccess
  BY <1>1, ClientConstants
  DEF ClientInit, AnswersAreTrue, FetchesServed, Fetching, TargetKeptUntilSuccess, Served
<1>3. \A c \in Clients : ClearedBefore(c) /\ Copies(c) /\ Finished(c)
  BY <1>1 DEF ClearedBefore, Kept, Copies, Finished
<1> QED
  BY <1>2, <1>3, ClientTypeInit DEF ClientInv

(* What is served is kept by every step, and its data directory too when   *)
(* StartContainer had no error.                                            *)
LEMMA ServedStays ==
    ASSUME ClientInv, [ClientNext]_allVars, Served
    PROVE  UNCHANGED ready /\ (ready = "done" => UNCHANGED data)
<1>1. ~running
  BY DEF ClientInv, AnswersAreTrue
<1>2. ~BuildEnds /\ ~BuildStarts
  BY <1>1 DEF BuildEnds, BuildStarts
<1>3. CASE \E c \in Clients : Accept(c) \/ Refuse(c) \/ Answer(c) \/ Post(c) \/ TimeOut(c) \/ Receive(c)
  BY <1>3 DEF Accept, Refuse, Answer, Post, TimeOut, Receive, serverVars
<1>4. CASE \E c \in Clients : Clear(c) \/ List(c) \/ Copy(c) \/ CopyFails(c) \/ Delete(c) \/ TransportEnds(c)
  BY <1>4 DEF Clear, List, Copy, CopyFails, Delete, TransportEnds, serverVars
<1>5. CASE ContainerRunsOn \/ Die \/ UNCHANGED allVars
  BY <1>5 DEF ContainerRunsOn, Die, allVars, serverVars
<1> QED
  BY <1>2, <1>3, <1>4, <1>5 DEF ClientNext

(* A step that leaves a client and its target where they were keeps what   *)
(* is said of the client.                                                  *)
LEMMA ClientUndisturbed ==
    ASSUME ClientInv, [ClientNext]_allVars, NEW c \in Clients,
           at'[c] = at[c], target'[c] = target[c], copying'[c] = copying[c],
           deleting'[c] = deleting[c]
    PROVE  ClearedBefore(c)' /\ Copies(c)' /\ Finished(c)'
<1>1. ClearedBefore(c) /\ Copies(c) /\ Finished(c) /\ (Fetching(c) => Served)
  BY DEF ClientInv, FetchesServed
<1>2. ClearedBefore(c)'
  BY <1>1 DEF ClearedBefore, Kept
<1>3. ASSUME at[c] = "copy" \/ (at[c] = "zero" /\ c \notin NoWait), ready' = "done"
      PROVE  Served /\ ready = "done" /\ UNCHANGED <<ready, data>>
  BY <1>1, <1>3, ServedStays DEF Finished, Fetching
<1>4. ASSUME NEW C, NEW D, UNCHANGED data, DoneBut(c, C, D) PROVE DoneBut(c, C, D)'
  BY <1>4 DEF DoneBut, Matched, Extra, Fetched, Kept
<1>5. Copies(c)'
  <2> SUFFICES ASSUME at[c] = "copy", ready' = "done"
               PROVE  /\ copying[c] \subseteq Matched(c)' /\ deleting[c] \subseteq Extra(Matched(c))'
                      /\ DoneBut(c, copying[c], deleting[c])'
    BY DEF Copies, DoneBut, Fetched, Kept, Matched, Extra
  <2>1. ready = "done" /\ UNCHANGED data
    BY <1>3
  <2>2. Matched(c)' = Matched(c) /\ Extra(Matched(c))' = Extra(Matched(c))
    BY <2>1 DEF Matched, Extra
  <2> QED
    BY <1>1, <1>4, <2>1, <2>2 DEF Copies, DoneBut, Fetched, Kept, Matched, Extra
<1>6. Finished(c)'
  <2> SUFFICES ASSUME at[c] = "zero", c \notin NoWait
               PROVE  Served' /\ (ready' = "done" => DoneBut(c, {}, {})')
    BY DEF Finished
  <2>1. Served /\ Served'
    BY <1>1, ServedStays DEF Finished, Served
  <2> QED
    BY <1>1, <1>3, <1>4, <2>1 DEF Finished
<1> QED
  BY <1>2, <1>5, <1>6

(* A step of a client: what is to be shown of it and of the others. *)
LEMMA ClientInvOf ==
    ASSUME ClientInv, [ClientNext]_allVars, NEW c \in Clients,
           UNCHANGED <<reply, running, ready>>,
           \A d \in Clients \ {c} : at'[d] = at[d] /\ target'[d] = target[d]
                /\ copying'[d] = copying[d] /\ deleting'[d] = deleting[d],
           Fetching(c)' => Served /\ c \notin NoWait,
           target'[c] # target[c] => Served /\ c \notin NoWait,
           ClearedBefore(c)' /\ Copies(c)' /\ Finished(c)'
    PROVE  ClientInv'
<1>1. ClientTypeOK'
  BY ClientTypeStep DEF ClientInv
<1>2. AnswersAreTrue'
  BY DEF ClientInv, AnswersAreTrue, Served
<1>3. FetchesServed'
  BY DEF ClientInv, FetchesServed, Fetching, Served
<1>4. TargetKeptUntilSuccess'
  BY DEF ClientInv, TargetKeptUntilSuccess, Served
<1>5. ASSUME NEW d \in Clients PROVE ClearedBefore(d)' /\ Copies(d)' /\ Finished(d)'
  BY ClientUndisturbed
<1> QED
  BY <1>1, <1>2, <1>3, <1>4, <1>5 DEF ClientInv

LEMMA GotoMoves ==
    ASSUME ClientTypeOK, NEW c \in Clients, NEW p, Goto(c, p)
    PROVE  at'[c] = p /\ \A d \in Clients \ {c} : at'[d] = at[d]
  BY DEF ClientTypeOK, Goto

LEMMA ClientInvStep == ClientInv /\ [ClientNext]_allVars => ClientInv'
<1> SUFFICES ASSUME ClientInv, [ClientNext]_allVars PROVE ClientInv'
  OBVIOUS
<1>0. ClientTypeOK /\ ClientTypeOK'
  BY ClientTypeStep DEF ClientInv
<1>a. /\ AnswersAreTrue /\ FetchesServed /\ TargetKeptUntilSuccess
      /\ \A c \in Clients : ClearedBefore(c) /\ Copies(c) /\ Finished(c)
  BY DEF ClientInv
(* Steps of the server: no client moves. *)
<1>1. ASSUME UNCHANGED <<at, target, fetchVars>>, AnswersAreTrue', Served => Served'
      PROVE  ClientInv'
  <2>1. FetchesServed' /\ TargetKeptUntilSuccess'
    BY <1>1, <1>a DEF FetchesServed, Fetching, TargetKeptUntilSuccess
  <2>2. ASSUME NEW c \in Clients PROVE ClearedBefore(c)' /\ Copies(c)' /\ Finished(c)'
    BY <1>1, ClientUndisturbed DEF fetchVars
  <2> QED
    BY <1>0, <1>1, <2>1, <2>2 DEF ClientInv
<1>2. ASSUME NEW c \in Clients, Accept(c) \/ Refuse(c) PROVE ClientInv'
  <2>1. AnswersAreTrue'
    BY <1>2, <1>0, <1>a, ClientConstants DEF Accept, Refuse, AnswersAreTrue, Served, Send, serverVars, ClientTypeOK
  <2> QED
    BY <1>1, <1>2, <2>1 DEF Accept, Refuse, Served, serverVars
<1>3. ASSUME NEW c \in Clients, Answer(c) PROVE ClientInv'
  <2>1. AnswersAreTrue'
    BY <1>3, <1>0, <1>a DEF Answer, AnswersAreTrue, Served, Send, ClientTypeOK
  <2> QED
    BY <1>1, <1>3, <2>1 DEF Answer, Served
<1>4. CASE BuildStarts \/ BuildEnds \/ ContainerRunsOn \/ Die \/ UNCHANGED allVars
  <2>1. AnswersAreTrue' /\ (Served => Served')
    <3>1. CASE BuildStarts \/ BuildEnds \/ ContainerRunsOn
      BY <1>a, <3>1 DEF BuildStarts, BuildEnds, ContainerRunsOn, AnswersAreTrue, Served, clientVars
    <3>2. CASE Die
      BY <1>a, <3>2 DEF Die, AnswersAreTrue, Served
    <3>3. CASE UNCHANGED allVars
      BY <1>a, <3>3 DEF allVars, clientVars, serverVars, AnswersAreTrue, Served
    <3> QED
      BY <1>4, <3>1, <3>2, <3>3
  <2> QED
    BY <1>1, <1>4, <2>1
    DEF BuildStarts, BuildEnds, ContainerRunsOn, Die, allVars, clientVars
(* Steps of a client. *)
<1>5. ASSUME NEW c \in Clients, Post(c) \/ TimeOut(c) \/ Receive(c) PROVE ClientInv'
  <2>1. /\ UNCHANGED <<reply, running, ready, target, copying, deleting>>
        /\ \A d \in Clients \ {c} : at'[d] = at[d]
    BY <1>5, <1>0, GotoMoves DEF Post, TimeOut, Receive, serverVars, fetchVars
  <2>2. /\ at[c] \in {"start", "posted"}
        /\ \/ at'[c] \in {"posted", "one"}
           \/ reply[c] = "created" /\ at'[c] = "zero"
           \/ reply[c] = "ok" /\ at'[c] = "clear"
           \/ reply[c] = "ok" /\ at'[c] = "list" /\ c \notin ClearTarget \ Rsync
    BY <1>5, <1>0, GotoMoves DEF Post, TimeOut, Receive
  <2>3. Fetching(c)' => Served /\ c \notin NoWait
    BY <1>a, <2>2 DEF AnswersAreTrue, Fetching
  <2>4. ClearedBefore(c)'
    BY <1>a, <2>1, <2>2 DEF ClearedBefore, Kept
  <2>5. Copies(c)' /\ Finished(c)'
    BY <1>a, <2>2 DEF Copies, Finished, AnswersAreTrue
  <2> QED
    BY <2>1, <2>3, <2>4, <2>5, ClientInvOf
<1>6. ASSUME NEW c \in Clients, Clear(c) PROVE ClientInv'
  <2>1. Served /\ c \notin NoWait /\ UNCHANGED <<reply, running, ready, copying, deleting>>
    BY <1>6, <1>a DEF Clear, FetchesServed, Fetching, serverVars, fetchVars
  <2>2. \A d \in Clients \ {c} : at'[d] = at[d] /\ target'[d] = target[d]
    BY <1>6, <1>0, GotoMoves, PutChanges DEF Clear
  <2>3. \A f \in Names : target'[c][f] \in {"absent", target[c][f]}
    BY <1>6, <1>0, PutChanges DEF Clear
  <2>4. /\ at'[c] \in {"clear", "list", "one"}
        /\ at'[c] = "list" => \A f \in Names : target'[c][f] = "absent"
    BY <1>6, <1>0, GotoMoves DEF Clear
  <2>5. ClearedBefore(c)'
    BY <1>6, <1>a, <2>3, <2>4 DEF ClearedBefore, Kept, Clear
  <2>6. Copies(c)' /\ Finished(c)'
    BY <2>4 DEF Copies, Finished
  <2> QED
    BY <2>1, <2>2, <2>5, <2>6, ClientInvOf
<1>7. ASSUME NEW c \in Clients, List(c) PROVE ClientInv'
  <2>1. /\ Served /\ c \notin NoWait /\ at[c] = "list"
        /\ UNCHANGED <<reply, running, ready, data, target>>
    BY <1>7, <1>a DEF List, FetchesServed, Fetching, serverVars
  <2>2. \A d \in Clients \ {c} : at'[d] = at[d] /\ copying'[d] = copying[d] /\ deleting'[d] = deleting[d]
    BY <1>7, <1>0, GotoMoves DEF List, fetchVars, ClientTypeOK
  <2>3. \/ at'[c] = "one"
        \/ /\ at'[c] = "copy" /\ Matched(c) # {} /\ copying'[c] = Matched(c)
           /\ deleting'[c] = IF c \in ClearTarget \cap Rsync THEN Extra(Matched(c)) ELSE {}
    BY <1>7, <1>0, GotoMoves DEF List, ClientTypeOK
  <2>4. ClearedBefore(c)' /\ Finished(c)'
    BY <2>3 DEF ClearedBefore, Finished
  <2>5. Copies(c)'
    <3> SUFFICES ASSUME at'[c] = "copy" PROVE Copies(c)'
      BY DEF Copies
    <3>1. Matched(c)' = Matched(c) /\ Extra(Matched(c))' = Extra(Matched(c))
      BY <2>1 DEF Matched, Extra
    <3>2. Extra(Matched(c)) \subseteq Names
      BY DEF Extra
    <3>3. /\ \A f \in Names : Kept(c, f)
          /\ c \in ClearTarget \ Rsync => \A f \in Names : target[c][f] = "absent"
      BY <1>a, <2>1 DEF ClearedBefore
    <3>4. /\ copying'[c] \subseteq Matched(c)' /\ deleting'[c] \subseteq Extra(Matched(c))'
          /\ Matched(c)' # {}
      BY <2>3, <3>1
    <3>5. /\ \A f \in Matched(c)' \ copying'[c] : Fetched(c, f)'
          /\ \A f \in Names \ Matched(c)' : Kept(c, f)'
      BY <2>1, <2>3, <3>1, <3>3 DEF Kept
    <3>6. /\ c \in ClearTarget \ Rsync => \A f \in Names \ Matched(c)' : target'[c][f] = "absent"
          /\ c \in ClearTarget => \A f \in Extra(Matched(c))' \ deleting'[c] : target'[c][f] = "absent"
      BY <2>1, <2>3, <3>1, <3>2, <3>3
    <3> QED
      BY <3>4, <3>5, <3>6 DEF Copies, DoneBut
  <2> QED
    BY <2>1, <2>2, <2>3, <2>4, <2>5, ClientInvOf DEF Fetching
<1>8. ASSUME NEW c \in Clients, Copy(c) \/ Delete(c) PROVE ClientInv'
  <2>1. /\ Served /\ c \notin NoWait /\ at[c] \in {"copy", "limp"}
        /\ UNCHANGED <<at, reply, running, ready, data>>
    BY <1>8, <1>a DEF Copy, Delete, FetchesServed, Fetching, serverVars
  <2>2. copying[c] \subseteq Names /\ deleting[c] \subseteq Names
    BY <1>0 DEF ClientTypeOK
  <2>3. \A d \in Clients \ {c} : target'[d] = target[d] /\ copying'[d] = copying[d] /\ deleting'[d] = deleting[d]
    BY <1>8, <1>0, <2>2, PutChanges DEF Copy, Delete, ClientTypeOK
  <2>4. ClearedBefore(c)' /\ Finished(c)'
    BY <2>1 DEF ClearedBefore, Finished
  <2>5. Copies(c)'
    <3> SUFFICES ASSUME at[c] = "copy", ready = "done" PROVE Copies(c)'
      BY <2>1 DEF Copies
    <3>1. Matched(c)' = Matched(c) /\ Extra(Matched(c))' = Extra(Matched(c))
      BY <2>1 DEF Matched, Extra
    <3>2. /\ copying[c] \subseteq Matched(c) /\ deleting[c] \subseteq Extra(Matched(c))
          /\ DoneBut(c, copying[c], deleting[c])
      BY <1>a DEF Copies
    <3>3. Extra(Matched(c)) \subseteq Names \ Matched(c)
      BY DEF Extra
    <3>4. ASSUME NEW f \in copying[c], copying'[c] = copying[c] \ {f}, UNCHANGED deleting,
                 target'[c][f] = "new" \/ (c \in Rsync /\ f \in SameStat /\ target'[c][f] = "old"),
                 \A g \in Names \ {f} : target'[c][g] = target[c][g]
          PROVE  Copies(c)'
      <4>1. copying'[c] \subseteq Matched(c) /\ deleting'[c] \subseteq Extra(Matched(c))
        BY <3>2, <3>4
      <4>2. \A g \in Matched(c) \ copying'[c] : Fetched(c, g)'
        <5>1. Matched(c) \subseteq Names
          BY <1>0 DEF Matched, ClientTypeOK
        <5> QED
          BY <3>2, <3>4, <5>1 DEF DoneBut, Fetched
      <4>3. \A g \in Names \ Matched(c) : target'[c][g] = target[c][g]
        BY <3>2, <3>4
      <4> QED
        BY <3>1, <3>2, <3>3, <3>4, <4>1, <4>2, <4>3 DEF Copies, DoneBut, Kept
    <3>5. ASSUME NEW f \in deleting[c], deleting'[c] = deleting[c] \ {f}, UNCHANGED copying,
                 target'[c][f] = "absent", \A g \in Names \ {f} : target'[c][g] = target[c][g]
          PROVE  Copies(c)'
      <4>1. copying'[c] \subseteq Matched(c) /\ deleting'[c] \subseteq Extra(Matched(c))
        BY <3>2, <3>5
      <4>2. f \in Names \ Matched(c)
        BY <3>2, <3>3
      <4>3. \A g \in Matched(c) \ copying'[c] : Fetched(c, g)'
        <5>1. Matched(c) \subseteq Names
          BY <1>0 DEF Matched, ClientTypeOK
        <5> QED
          BY <3>2, <3>5, <4>2, <5>1 DEF DoneBut, Fetched
      <4>4. \A g \in Names : target'[c][g] = target[c][g] \/ target'[c][g] = "absent"
        BY <3>5
      <4>5. \A g \in Extra(Matched(c)) \ deleting'[c] : g = f \/ g \in Extra(Matched(c)) \ deleting[c]
        BY <3>5
      <4>6. \A g \in Names \ Matched(c) : Kept(c, g)'
        BY <3>2, <4>4 DEF DoneBut, Kept
      <4>7. /\ c \in ClearTarget \ Rsync => \A g \in Names \ Matched(c) : target'[c][g] = "absent"
            /\ c \in ClearTarget => \A g \in Extra(Matched(c)) \ deleting'[c] : target'[c][g] = "absent"
        BY <3>2, <3>3, <3>5, <4>4, <4>5 DEF DoneBut
      <4> QED
        BY <3>1, <3>2, <4>1, <4>3, <4>6, <4>7 DEF Copies, DoneBut
    <3>6. ASSUME Copy(c) PROVE Copies(c)'
      <4>1. PICK f \in copying[c] :
               /\ copying' = [copying EXCEPT ![c] = @ \ {f}]
               /\ Put(c, f, "new")
                  \/ (c \in Rsync /\ f \in SameStat /\ target[c][f] = "old" /\ UNCHANGED target)
        BY <3>6 DEF Copy
      <4>2. copying'[c] = copying[c] \ {f} /\ UNCHANGED deleting
        BY <3>6, <1>0, <4>1 DEF Copy, ClientTypeOK
      <4>3. /\ target'[c][f] = "new" \/ (c \in Rsync /\ f \in SameStat /\ target'[c][f] = "old")
            /\ \A g \in Names \ {f} : target'[c][g] = target[c][g]
        BY <1>0, <2>2, <4>1, PutChanges
      <4> QED
        BY <3>4, <4>2, <4>3
    <3>7. ASSUME Delete(c) PROVE Copies(c)'
      <4>1. PICK f \in deleting[c] : /\ deleting' = [deleting EXCEPT ![c] = @ \ {f}]
                                     /\ Put(c, f, "absent")
        BY <3>7 DEF Delete
      <4>2. deleting'[c] = deleting[c] \ {f} /\ UNCHANGED copying
        BY <3>7, <1>0, <4>1 DEF Delete, ClientTypeOK
      <4>3. target'[c][f] = "absent" /\ \A g \in Names \ {f} : target'[c][g] = target[c][g]
        BY <1>0, <2>2, <4>1, PutChanges
      <4> QED
        BY <3>5, <4>2, <4>3
    <3> QED
      BY <1>8, <3>6, <3>7
  <2> QED
    BY <2>1, <2>3, <2>4, <2>5, ClientInvOf
<1>9. ASSUME NEW c \in Clients, CopyFails(c) PROVE ClientInv'
  <2>1. /\ Served /\ c \notin NoWait /\ at'[c] = "limp"
        /\ UNCHANGED <<reply, running, ready, deleting>>
    BY <1>9, <1>0, <1>a, GotoMoves DEF CopyFails, FetchesServed, Fetching, serverVars
  <2>2. copying[c] \subseteq Names
    BY <1>0 DEF ClientTypeOK
  <2>3. \A d \in Clients \ {c} : at'[d] = at[d] /\ target'[d] = target[d] /\ copying'[d] = copying[d]
    BY <1>9, <1>0, <2>2, GotoMoves, PutChanges DEF CopyFails, ClientTypeOK
  <2>4. ClearedBefore(c)' /\ Copies(c)' /\ Finished(c)'
    BY <2>1 DEF ClearedBefore, Copies, Finished
  <2> QED
    BY <2>1, <2>3, <2>4, ClientInvOf
<1>10. ASSUME NEW c \in Clients, TransportEnds(c) PROVE ClientInv'
  <2>1. /\ Served /\ c \notin NoWait
        /\ UNCHANGED <<reply, running, ready, data, target, copying, deleting>>
    BY <1>10, <1>a DEF TransportEnds, FetchesServed, Fetching, serverVars, fetchVars
  <2>2. /\ \A d \in Clients \ {c} : at'[d] = at[d]
        /\ \/ at'[c] = "one"
           \/ at'[c] = "zero" /\ at[c] = "copy" /\ copying[c] = {} /\ deleting[c] = {}
    BY <1>10, <1>0, GotoMoves DEF TransportEnds
  <2>3. ClearedBefore(c)' /\ Copies(c)' /\ ~Fetching(c)'
    BY <2>2 DEF ClearedBefore, Copies, Fetching
  <2>4. Finished(c)'
    <3> SUFFICES ASSUME at'[c] = "zero", ready = "done" PROVE DoneBut(c, {}, {})'
      BY <2>1 DEF Finished, Served
    <3>1. DoneBut(c, {}, {})
      BY <1>a, <2>2 DEF Copies
    <3> QED
      BY <2>1, <3>1 DEF DoneBut, Matched, Extra, Fetched, Kept
  <2> QED
    BY <2>1, <2>2, <2>3, <2>4, ClientInvOf
<1> QED
  BY <1>2, <1>3, <1>4, <1>5, <1>6, <1>7, <1>8, <1>9, <1>10 DEF ClientNext

LEMMA ClientInvariant == ClientSpec => []ClientInv
  BY ClientInvInit, ClientInvStep, PTL DEF ClientSpec

(* Every variable of the clients and of their server keeps its type. *)
THEOREM ClientTypeCorrect == ClientSpec => []ClientTypeOK
  BY ClientTypeInit, ClientTypeStep, PTL DEF ClientSpec

(* A waiting client that exits with 0 was served a build with recorded     *)
(* exit code 0 and, unless StartContainer had an error in it, has all that *)
(* the pattern <path>/* matches, whatever its target held, and with        *)
(* --clear-target what each transport leaves (main.go:268-325,             *)
(* transport.go:34-83).                                                    *)
THEOREM ExitZeroMeansArtifacts == ClientSpec => []ZeroMeansArtifacts
<1>1. ClientInv => ZeroMeansArtifacts
  BY FinishedMeansArtifacts DEF ClientInv
<1> QED
  BY <1>1, ClientInvariant, PTL

(* The target directory is not touched before there is a build with        *)
(* recorded exit code 0 to replace it with (main.go:304-316,               *)
(* transport.go:34-42).                                                    *)
THEOREM TargetIsKept == ClientSpec => []TargetKeptUntilSuccess
<1>1. ClientInv => TargetKeptUntilSuccess
  BY DEF ClientInv
<1> QED
  BY <1>1, ClientInvariant, PTL

=============================================================================
