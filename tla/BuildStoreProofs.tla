-------------------------- MODULE BuildStoreProofs --------------------------
(***************************************************************************)
(* Proofs about the abstract build store, for every set of job IDs and     *)
(* links.  By ServerImplementsStore (module ServerProofs) they are facts   *)
(* about the directories that mistryd keeps.                               *)
(***************************************************************************)
EXTENDS BuildStore, TLAPS

(* The links are safe only because a success is not discarded, and a       *)
(* success stays one only because nothing is built for its ID.             *)
StoreInv == StoreTypeOK /\ LinksLeadToSuccess /\ DoneIsNotBuilt

LEMMA StoreInvInit == StoreConstants /\ StoreInit => StoreInv
  BY DEF StoreConstants, StoreInit, StoreInv, StoreTypeOK, LinksLeadToSuccess, DoneIsNotBuilt

LEMMA StoreInvStep == StoreConstants /\ StoreInv /\ [StoreNext]_storeVars => StoreInv'
<1> SUFFICES ASSUME StoreConstants, StoreInv, [StoreNext]_storeVars PROVE StoreInv'
  OBVIOUS
<1> USE DEF StoreConstants, StoreInv, StoreTypeOK, LinksLeadToSuccess, DoneIsNotBuilt
<1>1. ASSUME NEW i \in Ids, Begin(i) PROVE StoreInv'
  BY <1>1 DEF Begin
<1>2. ASSUME NEW i \in Ids, Discard(i) PROVE StoreInv'
  BY <1>2 DEF Discard
<1>3. ASSUME NEW i \in Ids, Publish(i) PROVE StoreInv'
  BY <1>3 DEF Publish
<1>4. ASSUME NEW i \in Ids, Abandon(i) PROVE StoreInv'
  BY <1>4 DEF Abandon
<1>5. ASSUME NEW i \in Ids, PointTo(i) PROVE StoreInv'
  BY <1>5 DEF PointTo
<1>6. ASSUME NEW l \in Links, Unlink(l) PROVE StoreInv'
  BY <1>6 DEF Unlink
<1>7. CASE LoseBuilds
  BY <1>7 DEF LoseBuilds
<1>8. CASE UNCHANGED storeVars
  BY <1>8 DEF storeVars
<1> QED
  BY <1>1, <1>2, <1>3, <1>4, <1>5, <1>6, <1>7, <1>8 DEF StoreNext

LEMMA StoreInvariant == ASSUME StoreConstants PROVE StoreSpec => []StoreInv
<1>1. StoreInit => StoreInv
  BY StoreInvInit
<1>2. StoreInv /\ [StoreNext]_storeVars => StoreInv'
  BY StoreInvStep
<1> QED
  BY <1>1, <1>2, PTL DEF StoreSpec

(* Every ID has one outcome or none, whatever is built, published, linked  *)
(* and lost (worker.go:137-147).                                           *)
THEOREM OutcomesAreFinal == ASSUME StoreConstants PROVE StoreSpec => []StoreTypeOK
<1>1. StoreInv => StoreTypeOK
  BY DEF StoreInv
<1> QED
  BY <1>1, StoreInvariant, PTL

(* A link leads to the success of a job that belongs under it              *)
(* (worker.go:149-173).                                                    *)
THEOREM LinksAreSafe == ASSUME StoreConstants PROVE StoreSpec => []LinksLeadToSuccess
<1>1. StoreInv => LinksLeadToSuccess
  BY DEF StoreInv
<1> QED
  BY <1>1, StoreInvariant, PTL

(* No build runs for an ID whose result the cache would serve              *)
(* (worker.go:94-105).                                                     *)
THEOREM DoneIsFinal == ASSUME StoreConstants PROVE StoreSpec => []DoneIsNotBuilt
<1>1. StoreInv => DoneIsNotBuilt
  BY DEF StoreInv
<1> QED
  BY <1>1, StoreInvariant, PTL

=============================================================================
