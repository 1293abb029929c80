---------------------------- MODULE BrokerProofs ----------------------------
(***************************************************************************)
(* Proofs about the log streaming: types, one tailer per job with clients, *)
(* the right channel for every closer, and the order of the lines, for     *)
(* every number of clients, jobs and lines and however the clients come,   *)
(* go and stall.                                                           *)
(***************************************************************************)
EXTENDS Broker, FiniteSetTheorems, TLAPS

(* The counter of a job is the number of its registered clients, and a     *)
(* client that has yet to register is not.                                 *)
Counted == \A j \in Jobs : count[j] = Cardinality(ClientsOf(j))
Registered == \A c \in clients : handler[c] \in {"serving", "writing"}

LEMMA ClientsAreFinite ==
    ASSUME BrokerTypeOK, NEW j \in Jobs
    PROVE  /\ IsFiniteSet(ClientsOf(j))
           /\ Cardinality(ClientsOf(j)) \in Nat
           /\ Cardinality(ClientsOf(j)) = 0 <=> ClientsOf(j) = {}
<1>1. ClientsOf(j) \subseteq Clients
  BY DEF ClientsOf, BrokerTypeOK
<1>2. IsFiniteSet(ClientsOf(j))
  BY <1>1, BrokerConstants, FS_Subset
<1> QED
  BY <1>2, FS_CardinalityType, FS_EmptySet

LEMMA AppendLine ==
    ASSUME NEW S, NEW q \in Seq(S), NEW e \in S
    PROVE  Append(q, e) \in Seq(S)
  OBVIOUS

(* The type invariant, by the group of variables that change together. *)
EnvOK ==
    /\ build \in [Jobs -> {"bootstrapped", "building", "ready"}]
    /\ log \in [Jobs -> Nat]
    /\ conn \in [Clients -> {"open", "closed"}]
HandlerOK ==
    handler \in [Clients -> {"new", "refused", "joining", "serving", "writing", "done"}]
GotOK == got \in [Clients -> Seq(Clients \X Nat)]
RegistryOK ==
    /\ clients \subseteq Clients
    /\ count \in [Jobs -> Nat]
    /\ closeC \in [Jobs -> Clients \cup {NoClient}]
LoopOK ==
    /\ loop \in {"select", "open", "signal", "broadcast"}
    /\ about \in Clients \cup {NoClient}
    /\ loop # "select" => about \in Clients
    /\ todo \subseteq Clients
    /\ facing \in Clients \cup {NoClient}
    /\ loop = "broadcast" => facing \in todo
TailOK ==
    /\ file \in [Clients -> {"none", "open", "closed", "nil"}]
    /\ read \in [Clients -> Nat]
    /\ sent \in [Clients -> Nat]
    /\ reader \in [Clients -> {"off", "on", "end"}]
CloserOK ==
    /\ closer \in [Clients -> {"off", "start", "wait", "close", "end"}]
    /\ waitsOn \in [Clients -> Clients \cup {NoClient}]
FatalOK == fatal \in {"no", "nil tailer", "concurrent map read and write"}

LEMMA TypeParts ==
    BrokerTypeOK <=> /\ EnvOK /\ HandlerOK /\ GotOK /\ RegistryOK
                     /\ LoopOK /\ TailOK /\ CloserOK /\ FatalOK
  BY DEF BrokerTypeOK, EnvOK, HandlerOK, GotOK, RegistryOK, LoopOK, TailOK, CloserOK, FatalOK

LEMMA UnchangedParts ==
    /\ EnvOK /\ UNCHANGED envVars => EnvOK'
    /\ HandlerOK /\ UNCHANGED handler => HandlerOK'
    /\ GotOK /\ UNCHANGED got => GotOK'
    /\ RegistryOK /\ UNCHANGED registryVars => RegistryOK'
    /\ LoopOK /\ UNCHANGED loopVars => LoopOK'
    /\ TailOK /\ UNCHANGED tailVars => TailOK'
    /\ CloserOK /\ UNCHANGED closerVars => CloserOK'
    /\ FatalOK /\ UNCHANGED fatal => FatalOK'
  BY DEF EnvOK, HandlerOK, GotOK, RegistryOK, LoopOK, TailOK, CloserOK, FatalOK,
         envVars, registryVars, loopVars, tailVars, closerVars

LEMMA BrokerTypeInit == BrokerInit => BrokerTypeOK
  BY BrokerConstants DEF BrokerInit, BrokerTypeOK

LEMMA BrokerTypeStep ==
    ASSUME BrokerTypeOK, Counted, [BrokerNext]_brokerVars
    PROVE  BrokerTypeOK'
<1>0. /\ EnvOK /\ HandlerOK /\ GotOK /\ RegistryOK
      /\ LoopOK /\ TailOK /\ CloserOK /\ FatalOK
  BY TypeParts
<1>a. EnvOK' /\ HandlerOK' /\ GotOK' /\ RegistryOK' /\ LoopOK' /\ TailOK' /\ CloserOK' /\ FatalOK'
      => BrokerTypeOK'
  BY DEF BrokerTypeOK, EnvOK, HandlerOK, GotOK, RegistryOK, LoopOK, TailOK, CloserOK, FatalOK
<1> USE <1>0, BrokerConstants, UnchangedParts
    DEF clientVars
<1>1. ASSUME NEW j \in Jobs, CreateLog(j) \/ WriteLine(j) \/ MoveToReady(j)
      PROVE  BrokerTypeOK'
  <2>1. EnvOK'
    BY <1>1 DEF CreateLog, WriteLine, MoveToReady, EnvOK
  <2> QED
    BY <1>1, <1>a, <2>1 DEF CreateLog, WriteLine, MoveToReady
<1>2. ASSUME NEW c \in Clients, HangUp(c) PROVE BrokerTypeOK'
  <2>1. EnvOK'
    BY <1>2 DEF HangUp, EnvOK
  <2> QED
    BY <1>2, <1>a, <2>1 DEF HangUp
<1>3. ASSUME NEW c \in Clients, Connect(c) \/ Write(c) \/ Return(c) PROVE BrokerTypeOK'
  <2>1. HandlerOK'
    BY <1>3 DEF Connect, Write, Return, HandlerOK
  <2> QED
    BY <1>3, <1>a, <2>1 DEF Connect, Write, Return
<1>4. ASSUME NEW t \in Clients, Read(t) PROVE BrokerTypeOK'
  <2>1. TailOK'
    <3>1. /\ log[JobOf[t]] \in Nat /\ read[t] \in Nat
          /\ \A n \in (read[t] + 1)..log[JobOf[t]] : n \in Nat
      BY DEF EnvOK, TailOK
    <3>2. read' \in [Clients -> Nat]
      BY <1>4, <3>1 DEF Read, TailOK
    <3> QED
      BY <1>4, <3>2 DEF Read, TailOK
  <2>2. FatalOK'
    BY <1>4 DEF Read, FatalOK
  <2> QED
    BY <1>4, <1>a, <2>1, <2>2 DEF Read
<1>5. ASSUME NEW t \in Clients, LookUpChannel(t) PROVE BrokerTypeOK'
  <2>1. closeC[JobOf[t]] \in Clients \cup {NoClient}
    BY DEF RegistryOK
  <2>2. CloserOK'
    BY <1>5, <2>1 DEF LookUpChannel, CloserOK, closerVars
  <2>3. FatalOK'
    BY <1>5 DEF LookUpChannel, FatalOK
  <2> QED
    BY <1>5, <1>a, <2>2, <2>3 DEF LookUpChannel
<1>6. ASSUME NEW t \in Clients, CloseFile(t) PROVE BrokerTypeOK'
  <2>1. CloserOK' /\ FatalOK' /\ TailOK'
    BY <1>6 DEF CloseFile, CloserOK, FatalOK, TailOK
  <2> QED
    BY <1>6, <1>a, <2>1 DEF CloseFile
<1>7. ASSUME NEW c \in Clients, NewClient(c) PROVE BrokerTypeOK'
  <2>1. HandlerOK'
    BY <1>7 DEF NewClient, HandlerOK
  <2>2. RegistryOK'
    BY <1>7 DEF NewClient, RegistryOK
  <2>3. LoopOK'
    BY <1>7 DEF NewClient, LoopOK
  <2> QED
    BY <1>7, <1>a, <2>1, <2>2, <2>3 DEF NewClient
<1>8. ASSUME NEW c \in Clients, ClosingClient(c) PROVE BrokerTypeOK'
  <2>1. ClientsOf(JobOf[c]) # {}
    BY <1>8 DEF ClosingClient, ClientsOf
  <2>2. count[JobOf[c]] \in Nat \ {0}
    BY <2>1, ClientsAreFinite DEF Counted
  <2>3. RegistryOK'
    BY <1>8, <2>2 DEF ClosingClient, RegistryOK
  <2>4. LoopOK'
    BY <1>8 DEF ClosingClient, LoopOK
  <2> QED
    BY <1>8, <1>a, <2>3, <2>4 DEF ClosingClient
<1>9. ASSUME NEW c \in Clients, Deliver(c) PROVE BrokerTypeOK'
  <2>1. <<about, sent[about]>> \in Clients \X Nat
    BY <1>9 DEF Deliver, LoopOK, TailOK
  <2>2. GotOK'
    BY <1>9, <2>1, AppendLine DEF Deliver, GotOK
  <2>3. HandlerOK'
    BY <1>9 DEF Deliver, HandlerOK
  <2>4. LoopOK'
    BY <1>9 DEF Deliver, LoopOK
  <2> QED
    BY <1>9, <1>a, <2>2, <2>3, <2>4 DEF Deliver
<1>10. ASSUME NEW t \in Clients, Signal(t) PROVE BrokerTypeOK'
  <2>1. LoopOK'
    BY <1>10 DEF Signal, LoopOK
  <2>2. CloserOK'
    BY <1>10 DEF Signal, CloserOK
  <2> QED
    BY <1>10, <1>a, <2>1, <2>2 DEF Signal
<1>11. ASSUME NEW t \in Clients, Notify(t) PROVE BrokerTypeOK'
  <2>1. LoopOK'
    BY <1>11 DEF Notify, LoopOK, RegistryOK, ClientsOf, loopVars
  <2>2. TailOK'
    BY <1>11 DEF Notify, TailOK
  <2> QED
    BY <1>11, <1>a, <2>1, <2>2 DEF Notify
<1>12. CASE OpenTailer
  <2>1. LoopOK'
    BY <1>12 DEF OpenTailer, LoopOK
  <2>2. TailOK'
    BY <1>12 DEF OpenTailer, LoopOK, TailOK, EnvOK
  <2>3. CloserOK'
    BY <1>12 DEF OpenTailer, CloserOK
  <2> QED
    BY <1>12, <1>a, <2>1, <2>2, <2>3 DEF OpenTailer
<1>13. CASE UNCHANGED brokerVars
  BY <1>13, <1>a DEF brokerVars
<1> QED
  BY <1>1, <1>2, <1>3, <1>4, <1>5, <1>6, <1>7, <1>8, <1>9, <1>10, <1>11, <1>12, <1>13
  DEF BrokerNext, LoopStep

-----------------------------------------------------------------------------
LEMMA CountedStep ==
    ASSUME BrokerTypeOK, Counted, Registered, [BrokerNext]_brokerVars
    PROVE  Counted' /\ Registered'
<1>0. /\ count \in [Jobs -> Nat] /\ clients \subseteq Clients
      /\ HandlerOK /\ JobOf \in [Clients -> Jobs]
  BY BrokerConstants DEF BrokerTypeOK, HandlerOK
<1> USE <1>0 DEF HandlerOK
<1>1. ASSUME NEW c \in Clients, NewClient(c) PROVE Counted' /\ Registered'
  <2> DEFINE j == JobOf[c]
  <2>1. c \notin ClientsOf(j) /\ j \in Jobs
    BY <1>1 DEF NewClient, Registered, ClientsOf
  <2>2. /\ ClientsOf(j)' = ClientsOf(j) \cup {c}
        /\ \A i \in Jobs \ {j} : ClientsOf(i)' = ClientsOf(i)
    BY <1>1 DEF NewClient, ClientsOf
  <2>3. count[j] \in Nat /\ count' = [count EXCEPT ![j] = count[j] + 1]
    BY <1>1, <2>1 DEF NewClient
  <2>4. Cardinality(ClientsOf(j) \cup {c}) = Cardinality(ClientsOf(j)) + 1
    BY <2>1, ClientsAreFinite, FS_AddElement
  <2>5. Counted'
    BY <2>1, <2>2, <2>3, <2>4 DEF Counted
  <2>6. Registered'
    BY <1>1 DEF NewClient, Registered
  <2> QED
    BY <2>5, <2>6
<1>2. ASSUME NEW c \in Clients, ClosingClient(c) PROVE Counted' /\ Registered'
  <2> DEFINE j == JobOf[c]
  <2>1. c \in ClientsOf(j) /\ j \in Jobs
    BY <1>2 DEF ClosingClient, ClientsOf
  <2>2. /\ ClientsOf(j)' = ClientsOf(j) \ {c}
        /\ \A i \in Jobs \ {j} : ClientsOf(i)' = ClientsOf(i)
    BY <1>2 DEF ClosingClient, ClientsOf
  <2>3. count[j] \in Nat /\ count' = [count EXCEPT ![j] = count[j] - 1]
    BY <1>2, <2>1 DEF ClosingClient
  <2>4. Cardinality(ClientsOf(j) \ {c}) = Cardinality(ClientsOf(j)) - 1
    BY <2>1, ClientsAreFinite, FS_RemoveElement
  <2>5. Counted'
    BY <2>1, <2>2, <2>3, <2>4 DEF Counted
  <2>6. Registered'
    BY <1>2 DEF ClosingClient, Registered, clientVars
  <2> QED
    BY <2>5, <2>6
<1>3. ASSUME UNCHANGED <<clients, count>>,
             \A c \in clients : handler'[c] \in {"serving", "writing"}
      PROVE  Counted' /\ Registered'
  BY <1>3 DEF Counted, Registered, ClientsOf
<1>4. ASSUME UNCHANGED <<clients, count, handler>> PROVE Counted' /\ Registered'
  BY <1>3, <1>4 DEF Registered
<1> USE DEF registryVars, clientVars
<1>5. ASSUME NEW j \in Jobs, CreateLog(j) \/ WriteLine(j) \/ MoveToReady(j)
      PROVE  Counted' /\ Registered'
  BY <1>4, <1>5 DEF CreateLog, WriteLine, MoveToReady
<1>6. ASSUME NEW c \in Clients,
             HangUp(c) \/ Read(c) \/ LookUpChannel(c) \/ CloseFile(c) \/ Signal(c) \/ Notify(c)
      PROVE  Counted' /\ Registered'
  BY <1>4, <1>6 DEF HangUp, Read, LookUpChannel, CloseFile, Signal, Notify
<1>7. ASSUME NEW c \in Clients, Connect(c) \/ Write(c) \/ Return(c) \/ Deliver(c)
      PROVE  Counted' /\ Registered'
  <2>1. UNCHANGED <<clients, count>>
    BY <1>7 DEF Connect, Write, Return, Deliver
  <2>2. \A d \in clients : handler'[d] \in {"serving", "writing"}
    BY <1>7 DEF Connect, Write, Return, Deliver, Registered
  <2> QED
    BY <1>3, <2>1, <2>2
<1>8. CASE OpenTailer
  BY <1>4, <1>8 DEF OpenTailer
<1>9. CASE UNCHANGED brokerVars
  BY <1>4, <1>9 DEF brokerVars
<1> QED
  BY <1>1, <1>2, <1>5, <1>6, <1>7, <1>8, <1>9 DEF BrokerNext, LoopStep

-----------------------------------------------------------------------------
(* A job has a tailer: it has clients and the loop is not about to open    *)
(* one, or the loop is about to tell the tailer to close.                  *)
Active(j) ==
    \/ count[j] > 0 /\ ~(loop = "open" /\ JobOf[about] = j)
    \/ loop = "signal" /\ JobOf[about] = j

(* A tailer that serves its job is the one CloseClientC was filled for,    *)
ServesItsJob ==
    \A t \in Clients : closer[t] \in {"start", "wait"} =>
        Active(JobOf[t]) /\ closeC[JobOf[t]] = t
(* and every active job has it.                                            *)
IsServed ==
    \A j \in Jobs : Active(j) =>
        /\ closeC[j] \in Clients /\ JobOf[closeC[j]] = j
        /\ closer[closeC[j]] \in {"start", "wait"}
OpensFirst ==
    loop = "open" => /\ count[JobOf[about]] > 0
                     /\ closeC[JobOf[about]] = about /\ closer[about] = "off"
                     /\ handler[about] \notin {"new", "refused", "joining"}
ClosesLast == loop = "signal" => count[JobOf[about]] = 0
WaitsOnOwn == \A t \in Clients : closer[t] = "wait" => waitsOn[t] = t
TailerMadeOnce ==
    \A t \in Clients : handler[t] \in {"new", "refused", "joining"} => closer[t] = "off"

TailerInv ==
    ServesItsJob /\ IsServed /\ OpensFirst /\ ClosesLast /\ WaitsOnOwn /\ TailerMadeOnce
BrokerInv == BrokerTypeOK /\ Counted /\ Registered /\ TailerInv

LEMMA BrokerInvInit == BrokerInit => BrokerInv
<1> SUFFICES ASSUME BrokerInit PROVE BrokerInv
  OBVIOUS
<1>1. BrokerTypeOK
  BY BrokerTypeInit
<1>2. \A j \in Jobs : ClientsOf(j) = {}
  BY DEF BrokerInit, ClientsOf
<1>3. Counted /\ Registered
  BY <1>2, FS_EmptySet DEF BrokerInit, Counted, Registered
<1>4. TailerInv
  BY BrokerConstants
  DEF BrokerInit, TailerInv, ServesItsJob, IsServed, OpensFirst, ClosesLast, WaitsOnOwn,
      TailerMadeOnce, Active
<1> QED
  BY <1>1, <1>3, <1>4 DEF BrokerInv

(* Steps that leave the tailers and what the loop does with them alone. *)
LEMMA TailerFrame ==
    ASSUME TailerInv, UNCHANGED <<count, closeC, closer, waitsOn>>,
           loop = "open" => about \in Clients,
           UNCHANGED <<loop, about>> \/ {loop, loop'} \subseteq {"select", "broadcast"},
           \A t \in Clients : handler'[t] \in {"new", "refused", "joining"} =>
                               handler[t] \in {"new", "refused", "joining"}
    PROVE  TailerInv'
  BY DEF TailerInv, ServesItsJob, IsServed, OpensFirst, ClosesLast, WaitsOnOwn,
         TailerMadeOnce, Active

LEMMA TailerStep ==
    ASSUME BrokerInv, [BrokerNext]_brokerVars
    PROVE  TailerInv'
<1>0. /\ ServesItsJob /\ IsServed /\ OpensFirst /\ ClosesLast /\ WaitsOnOwn /\ TailerMadeOnce
      /\ TailerInv
  BY DEF BrokerInv, TailerInv
<1>a. /\ count \in [Jobs -> Nat] /\ closeC \in [Jobs -> Clients \cup {NoClient}]
      /\ JobOf \in [Clients -> Jobs] /\ NoClient \notin Clients
      /\ loop # "select" => about \in Clients
      /\ HandlerOK /\ CloserOK
  BY BrokerConstants DEF BrokerInv, BrokerTypeOK, HandlerOK, CloserOK
<1>b. \A c \in clients : handler[c] \in {"serving", "writing"}
  BY DEF BrokerInv, Registered
<1> USE <1>0, <1>a, <1>b DEF HandlerOK, CloserOK
<1>1. ASSUME NEW c \in Clients, NewClient(c) PROVE TailerInv'
  <2>1. ServesItsJob'
    BY <1>1 DEF NewClient, closerVars,
       ServesItsJob, OpensFirst, ClosesLast, TailerMadeOnce, Active
  <2>2. IsServed'
    BY <1>1 DEF NewClient, closerVars,
       ServesItsJob, IsServed, OpensFirst, ClosesLast, TailerMadeOnce, Active
  <2>3. OpensFirst'
    BY <1>1 DEF NewClient, closerVars,
       OpensFirst, TailerMadeOnce
  <2>4. ClosesLast'
    BY <1>1 DEF NewClient, closerVars,
       ClosesLast
  <2>5. WaitsOnOwn'
    BY <1>1 DEF NewClient, closerVars,
       ServesItsJob, WaitsOnOwn
  <2>6. TailerMadeOnce'
    BY <1>1 DEF NewClient, closerVars,
       OpensFirst, TailerMadeOnce
  <2> QED
    BY <2>1, <2>2, <2>3, <2>4, <2>5, <2>6 DEF TailerInv
<1>2. ASSUME NEW c \in Clients, ClosingClient(c) PROVE TailerInv'
  <2>1. ServesItsJob'
    BY <1>2 DEF ClosingClient, clientVars, closerVars,
       ServesItsJob, OpensFirst, ClosesLast, TailerMadeOnce, Active
  <2>2. IsServed'
    BY <1>2 DEF ClosingClient, clientVars, closerVars,
       ServesItsJob, IsServed, OpensFirst, ClosesLast, TailerMadeOnce, Active
  <2>3. OpensFirst'
    BY <1>2 DEF ClosingClient, clientVars, closerVars,
       OpensFirst, TailerMadeOnce
  <2>4. ClosesLast'
    BY <1>2 DEF ClosingClient, clientVars, closerVars,
       ClosesLast
  <2>5. WaitsOnOwn'
    BY <1>2 DEF ClosingClient, clientVars, closerVars,
       ServesItsJob, WaitsOnOwn
  <2>6. TailerMadeOnce'
    BY <1>2 DEF ClosingClient, clientVars, closerVars,
       OpensFirst, TailerMadeOnce
  <2> QED
    BY <2>1, <2>2, <2>3, <2>4, <2>5, <2>6 DEF TailerInv
<1>3. ASSUME NEW t \in Clients, Signal(t) PROVE TailerInv'
  <2>1. ServesItsJob'
    BY <1>3 DEF Signal, clientVars, registryVars,
       ServesItsJob, OpensFirst, ClosesLast, TailerMadeOnce, Active, WaitsOnOwn, IsServed
  <2>2. IsServed'
    BY <1>3 DEF Signal, clientVars, registryVars,
       ServesItsJob, IsServed, OpensFirst, ClosesLast, TailerMadeOnce, Active, WaitsOnOwn
  <2>3. OpensFirst'
    BY <1>3 DEF Signal, clientVars, registryVars,
       OpensFirst, TailerMadeOnce
  <2>4. ClosesLast'
    BY <1>3 DEF Signal, clientVars, registryVars,
       ClosesLast
  <2>5. WaitsOnOwn'
    BY <1>3 DEF Signal, clientVars, registryVars,
       ServesItsJob, WaitsOnOwn
  <2>6. TailerMadeOnce'
    BY <1>3 DEF Signal, clientVars, registryVars,
       OpensFirst, TailerMadeOnce
  <2> QED
    BY <2>1, <2>2, <2>3, <2>4, <2>5, <2>6 DEF TailerInv
<1>4. CASE OpenTailer
  <2>1. ServesItsJob'
    BY <1>4 DEF OpenTailer, clientVars, registryVars,
       ServesItsJob, OpensFirst, ClosesLast, TailerMadeOnce, Active
  <2>2. IsServed'
    BY <1>4 DEF OpenTailer, clientVars, registryVars,
       ServesItsJob, IsServed, OpensFirst, ClosesLast, TailerMadeOnce, Active
  <2>3. OpensFirst'
    BY <1>4 DEF OpenTailer, clientVars, registryVars,
       OpensFirst, TailerMadeOnce
  <2>4. ClosesLast'
    BY <1>4 DEF OpenTailer, clientVars, registryVars,
       ClosesLast
  <2>5. WaitsOnOwn'
    BY <1>4 DEF OpenTailer, clientVars, registryVars,
       ServesItsJob, WaitsOnOwn
  <2>6. TailerMadeOnce'
    BY <1>4 DEF OpenTailer, clientVars, registryVars,
       OpensFirst, TailerMadeOnce
  <2> QED
    BY <2>1, <2>2, <2>3, <2>4, <2>5, <2>6 DEF TailerInv
<1>5. ASSUME NEW t \in Clients, LookUpChannel(t) PROVE TailerInv'
  <2>1. CASE UNCHANGED closerVars
    BY <1>5, <2>1, TailerFrame DEF LookUpChannel, clientVars, registryVars, loopVars, closerVars
  <2>2. CASE /\ closer' = [closer EXCEPT ![t] = "wait"]
             /\ waitsOn' = [waitsOn EXCEPT ![t] = closeC[JobOf[t]]]
    <3>1. closer[t] = "start" /\ closeC[JobOf[t]] = t
      BY <1>5 DEF LookUpChannel, ServesItsJob
    <3>2. UNCHANGED <<count, closeC, loop, about, handler>>
      BY <1>5 DEF LookUpChannel, clientVars, registryVars, loopVars
    <3>3. \A u \in Clients : closer'[u] \in {"start", "wait"} <=> closer[u] \in {"start", "wait"}
      BY <2>2, <3>1
    <3>4. \A j : Active(j)' <=> Active(j)
      BY <3>2 DEF Active
    <3>5. ServesItsJob' /\ IsServed'
      BY <3>2, <3>3, <3>4 DEF ServesItsJob, IsServed
    <3>6. WaitsOnOwn'
      BY <2>2, <3>1 DEF WaitsOnOwn
    <3>7. OpensFirst' /\ ClosesLast' /\ TailerMadeOnce'
      BY <2>2, <3>1, <3>2 DEF OpensFirst, ClosesLast, TailerMadeOnce
    <3> QED
      BY <3>5, <3>6, <3>7 DEF TailerInv
  <2> QED
    BY <1>5, <2>1, <2>2 DEF LookUpChannel
<1>6. ASSUME NEW t \in Clients, CloseFile(t) PROVE TailerInv'
  <2>1. ServesItsJob'
    BY <1>6 DEF CloseFile, clientVars, registryVars, loopVars,
       ServesItsJob, OpensFirst, ClosesLast, TailerMadeOnce, Active
  <2>2. IsServed'
    BY <1>6 DEF CloseFile, clientVars, registryVars, loopVars,
       ServesItsJob, IsServed, OpensFirst, ClosesLast, TailerMadeOnce, Active
  <2>3. OpensFirst'
    BY <1>6 DEF CloseFile, clientVars, registryVars, loopVars,
       OpensFirst, TailerMadeOnce
  <2>4. ClosesLast'
    BY <1>6 DEF CloseFile, clientVars, registryVars, loopVars,
       ClosesLast
  <2>5. WaitsOnOwn'
    BY <1>6 DEF CloseFile, clientVars, registryVars, loopVars,
       ServesItsJob, WaitsOnOwn
  <2>6. TailerMadeOnce'
    BY <1>6 DEF CloseFile, clientVars, registryVars, loopVars,
       OpensFirst, TailerMadeOnce
  <2> QED
    BY <2>1, <2>2, <2>3, <2>4, <2>5, <2>6 DEF TailerInv
<1> USE TailerFrame DEF clientVars, registryVars, closerVars, loopVars
<1>7. ASSUME NEW j \in Jobs, CreateLog(j) \/ WriteLine(j) \/ MoveToReady(j) PROVE TailerInv'
  BY <1>7 DEF CreateLog, WriteLine, MoveToReady
<1>8. ASSUME NEW c \in Clients, Connect(c) \/ HangUp(c) \/ Write(c) \/ Return(c)
      PROVE  TailerInv'
  BY <1>8 DEF Connect, HangUp, Write, Return
<1>9. ASSUME NEW t \in Clients, Read(t) PROVE TailerInv'
  BY <1>9 DEF Read
<1>10. ASSUME NEW t \in Clients, Notify(t) PROVE TailerInv'
  BY <1>10 DEF Notify
<1>11. ASSUME NEW c \in Clients, Deliver(c) PROVE TailerInv'
  BY <1>11 DEF Deliver
<1>12. CASE UNCHANGED brokerVars
  BY <1>12 DEF brokerVars
<1> QED
  BY <1>1, <1>2, <1>3, <1>4, <1>5, <1>6, <1>7, <1>8, <1>9, <1>10, <1>11, <1>12
  DEF BrokerNext, LoopStep

LEMMA BrokerInvariant == BrokerSpec => []BrokerInv
<1>1. BrokerInv /\ [BrokerNext]_brokerVars => BrokerInv'
  BY BrokerTypeStep, CountedStep, TailerStep DEF BrokerInv
<1> QED
  BY <1>1, BrokerInvInit, PTL DEF BrokerSpec

-----------------------------------------------------------------------------
(* Every variable of the broker keeps its type; no counter of clients      *)
(* falls below zero (broker.go:122-123).                                   *)
THEOREM BrokerTypeCorrect == BrokerSpec => []BrokerTypeOK
<1>1. BrokerInv => BrokerTypeOK
  BY DEF BrokerInv
<1> QED
  BY <1>1, BrokerInvariant, PTL

(* A job with clients has one tailer, a job without has none               *)
(* (broker.go:84-126).                                                     *)
THEOREM TailersFollowClients == BrokerSpec => []OneTailerPerJob
<1>1. BrokerInv => OneTailerPerJob
  <2> SUFFICES ASSUME BrokerInv, NEW j \in Jobs
               PROVE  /\ count[j] = Cardinality(ClientsOf(j))
                      /\ loop \in {"select", "broadcast"} =>
                           Cardinality(Serving(j)) = IF ClientsOf(j) = {} THEN 0 ELSE 1
    BY DEF OneTailerPerJob
  <2>1. count[j] = Cardinality(ClientsOf(j)) /\ (count[j] = 0 <=> ClientsOf(j) = {}) /\ count[j] \in Nat
    BY ClientsAreFinite DEF BrokerInv, Counted
  <2>2. ASSUME loop \in {"select", "broadcast"}, ClientsOf(j) = {} PROVE Cardinality(Serving(j)) = 0
    <3>1. Serving(j) = {}
      BY <2>1, <2>2 DEF BrokerInv, TailerInv, ServesItsJob, Active, Serving
    <3> QED
      BY <3>1, FS_EmptySet
  <2>3. ASSUME loop \in {"select", "broadcast"}, ClientsOf(j) # {} PROVE Cardinality(Serving(j)) = 1
    <3>1. Active(j)
      BY <2>1, <2>3 DEF Active
    <3>2. Serving(j) = {closeC[j]}
      BY <3>1 DEF BrokerInv, TailerInv, ServesItsJob, IsServed, Serving
    <3> QED
      BY <3>2, FS_Singleton
  <2> QED
    BY <2>1, <2>2, <2>3
<1> QED
  BY <1>1, BrokerInvariant, PTL

(* Every closer waits on the channel that was made for it, and the loop's  *)
(* signal reaches the tailer of the job whose last client left             *)
(* (broker.go:106-107, 124-125).                                           *)
THEOREM SignalsReachTheirTailer == BrokerSpec => []CloserHasOwnChannel
<1>1. BrokerInv => CloserHasOwnChannel
  <2> SUFFICES ASSUME BrokerInv PROVE CloserHasOwnChannel
    OBVIOUS
  <2>1. \A t \in Clients :
          /\ closer[t] = "start" => closeC[JobOf[t]] = t
          /\ closer[t] = "wait" => waitsOn[t] = t /\ closeC[JobOf[t]] = t
    BY DEF BrokerInv, TailerInv, ServesItsJob, WaitsOnOwn
  <2>2. ASSUME loop = "signal" PROVE Serving(JobOf[about]) = {closeC[JobOf[about]]}
    <3>1. Active(JobOf[about]) /\ JobOf[about] \in Jobs
      BY <2>2, BrokerConstants DEF Active, BrokerInv, BrokerTypeOK
    <3> QED
      BY <3>1 DEF BrokerInv, TailerInv, ServesItsJob, IsServed, Serving
  <2> QED
    BY <2>1, <2>2 DEF CloserHasOwnChannel
<1> QED
  BY <1>1, BrokerInvariant, PTL

-----------------------------------------------------------------------------
(* The lines of a tailer.  A client that waits for the line at hand was    *)
(* sent every line up to the one before it, any other registered client    *)
(* all of them; a client that has yet to register was sent nothing; and no *)
(* line comes from a tailer that has yet to be opened, whose place in the  *)
(* log is then the end of the file.                                        *)
InOrder(c) ==
    \A k \in 1..Len(got[c]) :
        /\ JobOf[got[c][k][1]] = JobOf[c]
        /\ \A i \in 1..(k - 1) : got[c][i][1] = got[c][k][1] =>
             \E m \in i..(k - 1) : /\ got[c][m][1] = got[c][k][1]
                                   /\ got[c][m][2] + 1 = got[c][k][2]
UpToDate(c, t) ==
    IF c \in todo /\ t = about THEN \E n \in Nat : n + 1 = sent[t] /\ SentUpTo(c, t, n)
                               ELSE SentUpTo(c, t, sent[t])
NothingSent(c) == handler[c] \in {"new", "joining"} => got[c] = <<>>
OpenedBefore(c) == \A i \in 1..Len(got[c]) : closer[got[c][i][1]] # "off"
Broadcasts ==
    /\ loop # "broadcast" => todo = {}
    /\ loop = "broadcast" => todo \subseteq ClientsOf(JobOf[about]) /\ closer[about] # "off"
ReadersAreMade == \A t \in Clients : reader[t] # "off" => closer[t] # "off"

LinesInv ==
    /\ \A c \in Clients : InOrder(c) /\ NothingSent(c) /\ OpenedBefore(c)
    /\ \A c \in clients, t \in Clients : UpToDate(c, t)
    /\ Broadcasts /\ ReadersAreMade

LEMMA LinesInvImplies == LinesInv => LinesInOrder
<1> SUFFICES ASSUME LinesInv, NEW c \in Clients
             PROVE  /\ InOrder(c)
                    /\ loop = "select" /\ c \in clients => \A t \in Clients : SentUpTo(c, t, sent[t])
  BY DEF LinesInOrder, InOrder
<1>1. InOrder(c)
  BY DEF LinesInv
<1>2. ASSUME loop = "select", c \in clients, NEW t \in Clients PROVE SentUpTo(c, t, sent[t])
  BY <1>2 DEF LinesInv, UpToDate, Broadcasts
<1> QED
  BY <1>1, <1>2

LEMMA LinesInit == BrokerInit => LinesInv
  BY DEF BrokerInit, LinesInv, InOrder, NothingSent, OpenedBefore, Broadcasts, ReadersAreMade

(* A client that was sent nothing of a tailer is up to date with it. *)
LEMMA NothingOfTailer ==
    ASSUME NEW c, NEW t, \A i \in 1..Len(got[c]) : got[c][i][1] # t, NEW n
    PROVE  SentUpTo(c, t, n)
  BY DEF SentUpTo

(* What a client was sent changes in Deliver alone. *)
LEMMA GotKept ==
    ASSUME UNCHANGED got, NEW c
    PROVE  /\ InOrder(c) => InOrder(c)'
           /\ \A t, n : SentUpTo(c, t, n) => SentUpTo(c, t, n)'
  BY DEF InOrder, SentUpTo

LEMMA LinesAreTyped ==
    ASSUME BrokerTypeOK, NEW c \in Clients
    PROVE  /\ got[c] \in Seq(Clients \X Nat) /\ Len(got[c]) \in Nat
           /\ \A i \in 1..Len(got[c]) : got[c][i][1] \in Clients /\ got[c][i][2] \in Nat
<1>0. got \in [Clients -> Seq(Clients \X Nat)]
  BY DEF BrokerTypeOK
<1>1. got[c] \in Seq(Clients \X Nat) /\ Len(got[c]) \in Nat
  BY <1>0
<1>2. ASSUME NEW i \in 1..Len(got[c]) PROVE got[c][i] \in Clients \X Nat
  BY <1>1
<1> QED
  BY <1>1, <1>2

(* Steps that send, count and open nothing. *)
LEMMA LinesFrame ==
    ASSUME LinesInv, UNCHANGED <<got, todo, sent>>, clients' \subseteq clients,
           \A c \in Clients : handler'[c] \in {"new", "joining"} =>
                               handler[c] \in {"new", "joining"},
           UNCHANGED <<loop, about>> \/ {loop, loop'} \subseteq {"select", "open", "signal"},
           loop = "broadcast" => clients' = clients /\ about \in Clients,
           \A t \in Clients : closer[t] # "off" => closer'[t] # "off",
           \A t \in Clients : reader[t] = "off" => reader'[t] = "off",
           BrokerTypeOK
    PROVE  LinesInv'
<1>1. ASSUME NEW c \in Clients PROVE InOrder(c)' /\ NothingSent(c)' /\ OpenedBefore(c)'
  <2>1. InOrder(c) /\ NothingSent(c) /\ OpenedBefore(c)
    BY DEF LinesInv
  <2>2. InOrder(c)'
    BY <2>1, GotKept
  <2>3. NothingSent(c)'
    BY <2>1 DEF NothingSent
  <2>4. \A i \in 1..Len(got[c]) : got[c][i][1] \in Clients
    BY LinesAreTyped
  <2>5. OpenedBefore(c)'
    BY <2>1, <2>4 DEF OpenedBefore
  <2> QED
    BY <2>2, <2>3, <2>5
<1>2. Broadcasts'
  BY DEF LinesInv, Broadcasts, ClientsOf
<1>3. ASSUME NEW c \in clients', NEW t \in Clients PROVE UpToDate(c, t)'
  <2>1. UpToDate(c, t)
    BY DEF LinesInv
  <2>2. c \in todo' /\ t = about' <=> c \in todo /\ t = about
    BY DEF LinesInv, Broadcasts
  <2> QED
    BY <2>1, <2>2, GotKept DEF UpToDate
<1>4. ReadersAreMade'
  BY DEF LinesInv, ReadersAreMade
<1> QED
  BY <1>1, <1>2, <1>3, <1>4 DEF LinesInv

(* A line is appended for a client that was sent all lines before it. *)
LEMMA LineAppended ==
    ASSUME BrokerTypeOK, NEW c \in Clients, NEW t \in Clients, NEW n \in Nat,
           got'[c] = Append(got[c], <<t, n + 1>>)
    PROVE  /\ InOrder(c) /\ SentUpTo(c, t, n) /\ JobOf[t] = JobOf[c] => InOrder(c)'
           /\ SentUpTo(c, t, n + 1)'
           /\ \A u \in Clients \ {t} : \A m : SentUpTo(c, u, m) => SentUpTo(c, u, m)'
           /\ OpenedBefore(c) /\ closer[t] # "off" /\ UNCHANGED closer => OpenedBefore(c)'
<1> DEFINE q == got[c]
           e == <<t, n + 1>>
<1>1. /\ q \in Seq(Clients \X Nat) /\ Len(q) \in Nat
      /\ \A i \in 1..Len(q) : q[i][1] \in Clients /\ q[i][2] \in Nat
  BY LinesAreTyped
<1>2. e \in Clients \X Nat /\ e[1] = t /\ e[2] = n + 1
  OBVIOUS
<1>3. /\ Len(got'[c]) = Len(q) + 1 /\ got'[c][Len(q) + 1] = e
      /\ \A i \in 1..Len(q) : got'[c][i] = q[i]
  BY <1>1, <1>2
<1>4. \A i \in 1..Len(got'[c]) : i \in 1..Len(q) \/ i = Len(q) + 1
  BY <1>1, <1>3
<1> HIDE DEF q, e
<1>5. ASSUME InOrder(c), SentUpTo(c, t, n), JobOf[t] = JobOf[c] PROVE InOrder(c)'
  <2> SUFFICES ASSUME NEW k \in 1..Len(got'[c])
               PROVE  /\ JobOf[got'[c][k][1]] = JobOf[c]
                      /\ \A i \in 1..(k - 1) : got'[c][i][1] = got'[c][k][1] =>
                           \E m \in i..(k - 1) : /\ got'[c][m][1] = got'[c][k][1]
                                                 /\ got'[c][m][2] + 1 = got'[c][k][2]
    BY DEF InOrder
  <2>1. CASE k \in 1..Len(q)
    <3>1. /\ JobOf[q[k][1]] = JobOf[c]
          /\ \A i \in 1..(k - 1) : q[i][1] = q[k][1] =>
               \E m \in i..(k - 1) : q[m][1] = q[k][1] /\ q[m][2] + 1 = q[k][2]
      BY <1>5, <2>1 DEF InOrder, q
    <3>2. \A i \in 1..(k - 1) : i \in 1..Len(q) /\ \A m \in i..(k - 1) : m \in 1..Len(q)
      <4>1. Len(q) \in Nat /\ k \in 1..Len(q)
        BY <1>1, <2>1
      <4> QED
        BY <4>1
    <3>3. got'[c][k] = q[k] /\ \A i \in 1..(k - 1) : got'[c][i] = q[i]
      BY <1>3, <2>1, <3>2
    <3>4. ASSUME NEW i \in 1..(k - 1), q[i][1] = q[k][1]
          PROVE  \E m \in i..(k - 1) : got'[c][m][1] = q[k][1] /\ got'[c][m][2] + 1 = q[k][2]
      <4>1. PICK m \in i..(k - 1) : q[m][1] = q[k][1] /\ q[m][2] + 1 = q[k][2]
        BY <3>1, <3>4
      <4>2. got'[c][m] = q[m]
        BY <1>3, <3>2
      <4> QED
        BY <4>1, <4>2
    <3> QED
      BY <3>1, <3>3, <3>4
  <2>2. CASE k = Len(q) + 1
    <3>1. got'[c][k] = e /\ k - 1 = Len(q)
      BY <1>1, <1>3, <2>2
    <3>2. ASSUME NEW i \in 1..Len(q), q[i][1] = t
          PROVE  \E m \in i..Len(q) : q[m][1] = t /\ q[m][2] + 1 = n + 1
      <4>1. PICK m \in i..Len(q) : q[m] = <<t, n>>
        BY <1>5, <3>2 DEF SentUpTo, q
      <4> QED
        BY <4>1
    <3>3. \A i \in 1..Len(q) : \A m \in i..Len(q) : m \in 1..Len(q)
      BY <1>1
    <3>4. got'[c][k][1] = t /\ got'[c][k][2] = n + 1
      BY <1>2, <3>1
    <3>5. ASSUME NEW i \in 1..Len(q), got'[c][i][1] = t
          PROVE  \E m \in i..Len(q) : got'[c][m][1] = t /\ got'[c][m][2] + 1 = n + 1
      <4>1. PICK m \in i..Len(q) : q[m][1] = t /\ q[m][2] + 1 = n + 1
        BY <1>3, <3>2, <3>5
      <4>2. got'[c][m] = q[m]
        BY <1>3, <3>3
      <4> QED
        BY <4>1, <4>2
    <3> QED
      BY <1>5, <3>1, <3>4, <3>5
  <2> QED
    BY <1>4, <2>1, <2>2
<1>6. SentUpTo(c, t, n + 1)'
  <2> SUFFICES ASSUME NEW i \in 1..Len(got'[c])
               PROVE  \E k \in i..Len(got'[c]) : got'[c][k] = <<t, n + 1>>
    BY DEF SentUpTo
  <2>1. Len(q) + 1 \in i..Len(got'[c])
    BY <1>1, <1>3
  <2> QED
    BY <1>3, <2>1 DEF e
<1>7. ASSUME NEW u \in Clients \ {t}, NEW m, SentUpTo(c, u, m) PROVE SentUpTo(c, u, m)'
  <2> SUFFICES ASSUME NEW i \in 1..Len(got'[c]), got'[c][i][1] = u
               PROVE  \E k \in i..Len(got'[c]) : got'[c][k] = <<u, m>>
    BY DEF SentUpTo
  <2>1. i \in 1..Len(q) /\ q[i][1] = u
    BY <1>2, <1>3, <1>4
  <2>2. PICK k \in i..Len(q) : q[k] = <<u, m>>
    BY <1>7, <2>1 DEF SentUpTo, q
  <2>3. k \in 1..Len(q) /\ k \in i..Len(got'[c])
    <3>1. Len(q) \in Nat /\ Len(got'[c]) = Len(q) + 1 /\ i \in 1..Len(q)
      BY <1>1, <1>3, <2>1
    <3> QED
      BY <3>1
  <2>4. got'[c][k] = <<u, m>>
    BY <1>3, <2>2, <2>3
  <2> QED
    BY <2>3, <2>4
<1>8. ASSUME OpenedBefore(c), closer[t] # "off", UNCHANGED closer PROVE OpenedBefore(c)'
  <2> SUFFICES ASSUME NEW i \in 1..Len(got'[c]) PROVE closer[got'[c][i][1]] # "off"
    BY <1>8 DEF OpenedBefore
  <2>1. CASE i \in 1..Len(q)
    BY <1>3, <1>8, <2>1 DEF OpenedBefore, q
  <2>2. CASE i = Len(q) + 1
    BY <1>2, <1>3, <1>8, <2>2
  <2> QED
    BY <1>4, <2>1, <2>2
<1> QED
  BY <1>5, <1>6, <1>7, <1>8

LEMMA LinesStep ==
    ASSUME BrokerInv, LinesInv, [BrokerNext]_brokerVars
    PROVE  LinesInv'
<1>0. /\ BrokerTypeOK /\ HandlerOK /\ GotOK /\ RegistryOK /\ LoopOK /\ TailOK /\ CloserOK
      /\ Registered /\ OpensFirst
  BY TypeParts DEF BrokerInv, TailerInv
<1>a. /\ \A c \in Clients : InOrder(c) /\ NothingSent(c) /\ OpenedBefore(c)
      /\ \A c \in clients, t \in Clients : UpToDate(c, t)
      /\ Broadcasts /\ ReadersAreMade
  BY DEF LinesInv
<1>b. loop = "broadcast" => about \in Clients
  BY <1>0 DEF LoopOK
<1>1. ASSUME NEW j \in Jobs, CreateLog(j) \/ WriteLine(j) \/ MoveToReady(j) PROVE LinesInv'
  <2>1. UNCHANGED <<handler, got, clients, loop, about, todo, sent, reader, closer>>
    BY <1>1 DEF CreateLog, WriteLine, MoveToReady, clientVars, registryVars, loopVars, tailVars,
                closerVars
  <2> QED
    BY <1>0, <1>b, <2>1, LinesFrame
<1>2. ASSUME NEW c \in Clients, Connect(c) \/ HangUp(c) \/ Write(c) \/ Return(c) PROVE LinesInv'
  <2>1. UNCHANGED <<got, clients, loop, about, todo, sent, reader, closer>>
    BY <1>2 DEF Connect, HangUp, Write, Return, clientVars, registryVars, loopVars, tailVars,
                closerVars
  <2>2. \A k \in Clients : handler'[k] \in {"new", "joining"} => handler[k] \in {"new", "joining"}
    BY <1>0, <1>2 DEF Connect, HangUp, Write, Return, clientVars, HandlerOK
  <2> QED
    BY <1>0, <1>b, <2>1, <2>2, LinesFrame
<1>3. ASSUME NEW t \in Clients, Read(t) \/ LookUpChannel(t) \/ CloseFile(t) PROVE LinesInv'
  <2>1. UNCHANGED <<handler, got, clients, loop, about, todo, sent>>
    BY <1>3 DEF Read, LookUpChannel, CloseFile, clientVars, registryVars, loopVars, tailVars
  <2>2. \A u \in Clients : closer[u] # "off" => closer'[u] # "off"
    BY <1>0, <1>3 DEF Read, LookUpChannel, CloseFile, closerVars, CloserOK
  <2>3. \A u \in Clients : reader[u] = "off" => reader'[u] = "off"
    BY <1>0, <1>3 DEF Read, LookUpChannel, CloseFile, tailVars, TailOK
  <2> QED
    BY <1>0, <1>b, <2>1, <2>2, <2>3, LinesFrame
<1>4. ASSUME NEW c \in Clients, ClosingClient(c) \/ Signal(c) PROVE LinesInv'
  <2>1. /\ UNCHANGED <<handler, got, todo, sent, reader>> /\ clients' \subseteq clients
        /\ loop \in {"select", "signal"} /\ loop' \in {"select", "signal"}
    BY <1>4 DEF ClosingClient, Signal, clientVars, registryVars, tailVars
  <2>2. \A u \in Clients : closer[u] # "off" => closer'[u] # "off"
    BY <1>0, <1>4 DEF ClosingClient, Signal, closerVars, CloserOK
  <2> QED
    BY <1>0, <2>1, <2>2, LinesFrame
<1>5. ASSUME NEW c \in Clients, NewClient(c) PROVE LinesInv'
  <2>1. /\ UNCHANGED <<got, todo, sent, reader, closer>> /\ clients' = clients \cup {c}
        /\ loop = "select" /\ loop' \in {"select", "open"} /\ handler[c] = "joining"
        /\ handler' = [handler EXCEPT ![c] = "serving"]
    BY <1>5 DEF NewClient, tailVars, closerVars
  <2>2. todo = {} /\ got[c] = <<>>
    BY <1>a, <2>1 DEF Broadcasts, NothingSent
  <2>3. ASSUME NEW k \in Clients PROVE InOrder(k)' /\ NothingSent(k)' /\ OpenedBefore(k)'
    <3>1. InOrder(k)'
      BY <1>a, <2>1, GotKept
    <3>2. NothingSent(k)'
      BY <1>0, <1>a, <2>1 DEF NothingSent, HandlerOK
    <3>3. OpenedBefore(k)'
      BY <1>a, <2>1 DEF OpenedBefore
    <3> QED
      BY <3>1, <3>2, <3>3
  <2>4. ASSUME NEW k \in clients', NEW t \in Clients PROVE UpToDate(k, t)'
    <3>1. SentUpTo(k, t, sent[t])
      <4>1. CASE k = c
        <5>1. Len(got[c]) = 0
          BY <2>2
        <5> QED
          BY <4>1, <5>1 DEF SentUpTo
      <4>2. CASE k \in clients
        BY <1>a, <2>2, <4>2 DEF UpToDate
      <4> QED
        BY <2>1, <4>1, <4>2
    <3> QED
      BY <2>1, <2>2, <3>1 DEF UpToDate, SentUpTo
  <2>5. Broadcasts' /\ ReadersAreMade'
    BY <1>a, <2>1, <2>2 DEF Broadcasts, ReadersAreMade
  <2> QED
    BY <2>3, <2>4, <2>5 DEF LinesInv
<1>6. CASE OpenTailer
  <2>1. /\ UNCHANGED <<handler, got, clients, todo>> /\ loop = "open" /\ loop' = "select"
        /\ sent' = [sent EXCEPT ![about] = log[JobOf[about]]]
        /\ reader' = [reader EXCEPT ![about] = "on"]
        /\ closer' = [closer EXCEPT ![about] = "start"]
    BY <1>6 DEF OpenTailer, clientVars, registryVars
  <2>2. about \in Clients /\ closer[about] = "off" /\ todo = {}
    BY <1>0, <1>a, <2>1 DEF LoopOK, OpensFirst, Broadcasts
  <2>3. closer'[about] = "start" /\ \A t \in Clients : closer[t] # "off" => closer'[t] # "off"
    BY <1>0, <2>1, <2>2 DEF CloserOK
  <2>4. ASSUME NEW k \in Clients PROVE InOrder(k)' /\ NothingSent(k)' /\ OpenedBefore(k)'
    <3>1. InOrder(k)'
      BY <1>a, <2>1, GotKept
    <3>2. NothingSent(k)'
      BY <1>a, <2>1 DEF NothingSent
    <3>3. \A i \in 1..Len(got[k]) : got[k][i][1] \in Clients
      BY <1>0, LinesAreTyped
    <3>4. OpenedBefore(k)'
      BY <1>a, <2>1, <2>3, <3>3 DEF OpenedBefore
    <3> QED
      BY <3>1, <3>2, <3>4
  <2>5. ASSUME NEW k \in clients', NEW t \in Clients PROVE UpToDate(k, t)'
    <3>0. k \in clients /\ k \in Clients
      BY <1>0, <2>1 DEF RegistryOK
    <3>1. CASE t = about
      <4>1. \A i \in 1..Len(got[k]) : got[k][i][1] # about
        BY <1>a, <2>2, <3>0 DEF OpenedBefore
      <4>2. SentUpTo(k, about, sent'[about])
        BY <4>1, NothingOfTailer
      <4> QED
        BY <2>1, <2>2, <3>1, <4>2 DEF UpToDate, SentUpTo
    <3>2. CASE t # about
      <4>1. sent'[t] = sent[t]
        BY <1>0, <2>1, <3>2 DEF TailOK
      <4>2. SentUpTo(k, t, sent[t])
        BY <1>a, <2>2, <3>0 DEF UpToDate
      <4> QED
        BY <2>1, <2>2, <4>1, <4>2 DEF UpToDate, SentUpTo
    <3> QED
      BY <3>1, <3>2
  <2>6. Broadcasts'
    BY <2>1, <2>2 DEF Broadcasts
  <2>7. ReadersAreMade'
    BY <1>0, <1>a, <2>1, <2>2, <2>3 DEF ReadersAreMade, TailOK
  <2> QED
    BY <2>4, <2>5, <2>6, <2>7 DEF LinesInv
<1>7. ASSUME NEW t \in Clients, Notify(t) PROVE LinesInv'
  <2>1. /\ UNCHANGED <<handler, got, clients, reader, closer>> /\ loop = "select"
        /\ reader[t] = "on" /\ sent' = [sent EXCEPT ![t] = @ + 1]
    BY <1>7 DEF Notify, clientVars, registryVars, closerVars
  <2>2. closer[t] # "off" /\ todo = {}
    BY <1>a, <2>1 DEF ReadersAreMade, Broadcasts
  <2>3. \/ ClientsOf(JobOf[t]) = {} /\ loop' = "select" /\ todo' = {}
        \/ loop' = "broadcast" /\ about' = t /\ todo' = ClientsOf(JobOf[t])
    BY <1>7, <2>1, <2>2 DEF Notify, loopVars
  <2>4. sent[t] \in Nat /\ sent'[t] = sent[t] + 1 /\ \A u \in Clients \ {t} : sent'[u] = sent[u]
    BY <1>0, <2>1 DEF TailOK
  <2>5. ASSUME NEW k \in Clients PROVE InOrder(k)' /\ NothingSent(k)' /\ OpenedBefore(k)'
    BY <1>a, <2>1, GotKept DEF NothingSent, OpenedBefore
  <2>6. ASSUME NEW k \in clients', NEW u \in Clients PROVE UpToDate(k, u)'
    <3>0. k \in clients /\ k \in Clients
      BY <1>0, <2>1 DEF RegistryOK
    <3>1. SentUpTo(k, u, sent[u])
      BY <1>a, <2>2, <3>0 DEF UpToDate
    <3>2. CASE u # t
      <4>1. sent'[u] = sent[u] /\ ~(k \in todo' /\ u = about')
        BY <2>3, <2>4, <3>2
      <4> QED
        BY <2>1, <3>1, <4>1 DEF UpToDate, SentUpTo
    <3>3. CASE u = t /\ JobOf[k] = JobOf[t]
      <4>1. k \in todo' /\ u = about'
        BY <2>3, <3>0, <3>3 DEF ClientsOf
      <4>2. sent[u] \in Nat /\ sent[u] + 1 = sent'[u]
        BY <2>4, <3>3
      <4> QED
        BY <2>1, <3>1, <4>1, <4>2 DEF UpToDate, SentUpTo
    <3>4. CASE u = t /\ JobOf[k] # JobOf[t]
      <4>1. k \notin todo'
        BY <2>3, <3>4 DEF ClientsOf
      <4>2. \A i \in 1..Len(got[k]) : got[k][i][1] # t
        BY <1>a, <3>0, <3>4 DEF InOrder
      <4>3. SentUpTo(k, t, sent'[t])
        BY <4>2, NothingOfTailer
      <4> QED
        BY <2>1, <3>4, <4>1, <4>3 DEF UpToDate, SentUpTo
    <3> QED
      BY <3>2, <3>3, <3>4
  <2>7. Broadcasts' /\ ReadersAreMade'
    BY <1>a, <2>1, <2>2, <2>3 DEF Broadcasts, ReadersAreMade, ClientsOf
  <2> QED
    BY <2>5, <2>6, <2>7 DEF LinesInv
<1>8. ASSUME NEW c \in Clients, Deliver(c) PROVE LinesInv'
  <2>1. /\ UNCHANGED <<clients, sent, reader, closer>> /\ loop = "broadcast" /\ c = facing
        /\ handler[c] = "serving" /\ handler' = [handler EXCEPT ![c] = "writing"]
        /\ got' = [got EXCEPT ![c] = Append(@, <<about, sent[about]>>)]
        /\ todo' = todo \ {c}
    BY <1>8 DEF Deliver, registryVars, tailVars, closerVars
  <2>2. /\ about \in Clients /\ c \in todo /\ c \in clients /\ JobOf[c] = JobOf[about]
        /\ closer[about] # "off" /\ todo \subseteq ClientsOf(JobOf[about])
    BY <1>0, <1>a, <2>1 DEF LoopOK, Broadcasts, ClientsOf
  <2>3. \/ todo' = {} /\ loop' = "select"
        \/ loop' = "broadcast" /\ about' = about
    BY <1>8, <2>1 DEF Deliver
  <2>a. PICK t \in Clients : t = about
    BY <2>2
  <2>4. PICK n \in Nat : n + 1 = sent[t] /\ SentUpTo(c, t, n)
    BY <1>a, <2>2, <2>a DEF UpToDate
  <2>5. /\ got'[c] = Append(got[c], <<t, n + 1>>)
        /\ \A k \in Clients \ {c} : got'[k] = got[k]
    BY <1>0, <2>1, <2>4, <2>a DEF GotOK
  <2>6. /\ InOrder(c)' /\ OpenedBefore(c)'
        /\ SentUpTo(c, t, n + 1)'
        /\ \A u \in Clients \ {t} : \A m : SentUpTo(c, u, m) => SentUpTo(c, u, m)'
    <3>1. InOrder(c) /\ OpenedBefore(c) /\ SentUpTo(c, t, n) /\ JobOf[t] = JobOf[c]
          /\ closer[t] # "off" /\ UNCHANGED closer
      BY <1>a, <2>1, <2>2, <2>4, <2>a
    <3> QED
      BY <1>0, <2>5, <3>1, LineAppended
  <2>7. ASSUME NEW k \in Clients PROVE InOrder(k)' /\ NothingSent(k)' /\ OpenedBefore(k)'
    <3>1. NothingSent(k)'
      BY <1>0, <1>a, <2>1, <2>5 DEF NothingSent, HandlerOK
    <3>2. CASE k # c
      BY <1>a, <2>1, <2>5, <3>1, <3>2 DEF InOrder, OpenedBefore
    <3> QED
      BY <2>6, <3>1, <3>2
  <2>8. ASSUME NEW k \in clients', NEW u \in Clients PROVE UpToDate(k, u)'
    <3>0. k \in clients /\ k \in Clients /\ UpToDate(k, u)
      BY <1>0, <1>a, <2>1 DEF RegistryOK
    <3>1. CASE k # c
      <4>1. got'[k] = got[k] /\ (k \in todo' <=> k \in todo) /\ (k \in todo' => about' = about)
        BY <2>1, <2>3, <2>5, <3>0, <3>1
      <4> QED
        BY <2>1, <3>0, <4>1 DEF UpToDate, SentUpTo
    <3>2. CASE k = c /\ u = t
      <4>1. c \notin todo' /\ sent'[t] = n + 1
        BY <2>1, <2>4
      <4> QED
        BY <2>6, <3>2, <4>1 DEF UpToDate, SentUpTo
    <3>3. CASE k = c /\ u # t
      <4>1. c \notin todo' /\ sent'[u] = sent[u] /\ SentUpTo(c, u, sent[u])
        BY <2>1, <2>a, <3>0, <3>3 DEF UpToDate
      <4>2. PICK m : m = sent[u]
        OBVIOUS
      <4>3. SentUpTo(c, u, m)'
        BY <2>6, <3>3, <4>1, <4>2
      <4> QED
        BY <3>3, <4>1, <4>2, <4>3 DEF UpToDate, SentUpTo
    <3> QED
      BY <3>1, <3>2, <3>3
  <2>9. Broadcasts' /\ ReadersAreMade'
    BY <1>a, <2>1, <2>2, <2>3 DEF Broadcasts, ReadersAreMade, ClientsOf
  <2> QED
    BY <2>7, <2>8, <2>9 DEF LinesInv
<1>9. CASE UNCHANGED brokerVars
  <2>1. UNCHANGED <<handler, got, clients, loop, about, todo, sent, reader, closer>>
    BY <1>9 DEF brokerVars, clientVars, registryVars, loopVars, tailVars, closerVars
  <2> QED
    BY <1>0, <1>b, <2>1, LinesFrame
<1> QED
  BY <1>1, <1>2, <1>3, <1>4, <1>5, <1>6, <1>7, <1>8, <1>9 DEF BrokerNext, LoopStep

(* What a client is sent are lines of its own job, those of one tailer in  *)
(* the order of the log, none left out and none twice; and none is missing *)
(* when the loop is back at its select (broker.go:127-132).                *)
THEOREM LinesComeInOrder == BrokerSpec => []LinesInOrder
<1>1. BrokerInv /\ LinesInv /\ [BrokerNext]_brokerVars => LinesInv'
  BY LinesStep
<1> QED
  BY <1>1, BrokerInvariant, LinesInit, LinesInvImplies, PTL DEF BrokerSpec

=============================================================================
