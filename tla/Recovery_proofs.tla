--------------------------- MODULE Recovery_proofs ---------------------------
(***************************************************************************)
(* Auto-initialization is safe for every size of the cluster, as long as   *)
(* fewer replicas than a quorum lose their storage.                        *)
(*                                                                         *)
(* The argument: when a replica r loses its storage while a quorum votes,  *)
(* its process starts the recover protocol without any response, and at    *)
(* least Quorum - 1 others are voting.  A voting replica stops voting only *)
(* when it loses its own storage, and until then it can only answer        *)
(* VOTING.  So one of them, a witness, keeps r from seeing all replicas in *)
(* the first phase.                                                        *)
(***************************************************************************)
EXTENDS Recovery, FiniteSetTheorems, TLAPS

\* The voting replicas that have not told r anything else.
Witnesses(r) ==
    {s \in Replicas : status[s] = "VOTING" /\ responses[r][s] \in {Unanswered, "VOTING"}}

Witnessed(r) ==
    /\ status[r] \in {"EMPTY", "RECOVERING"}
    /\ Cardinality(Witnesses(r)) >= Quorum - wipes

IInv == TypeOK /\ \A r \in lost : Witnessed(r)

\* Counting subsets of the replicas.
LEMMA ReplicasCounted ==
    ASSUME NEW S \in SUBSET Replicas
    PROVE  /\ IsFiniteSet(S) /\ Cardinality(S) \in Nat
           /\ Cardinality(S) <= clusterSize
           /\ Cardinality(S) = clusterSize => S = Replicas
           /\ S # {} <=> Cardinality(S) >= 1
<1>1. IsFiniteSet(Replicas) /\ Cardinality(Replicas) = clusterSize
  BY RecoveryAssumption
<1>2. IsFiniteSet(S)
  BY <1>1, FS_Subset
<1>3. Cardinality(S) \in Nat
  BY <1>2, FS_CardinalityType
<1>4. Cardinality(S) <= clusterSize /\ (Cardinality(S) = clusterSize => S = Replicas)
  BY <1>1, FS_Subset
<1>5. Cardinality(S) = 0 <=> S = {}
  BY <1>2, FS_EmptySet
<1> QED
  BY <1>2, <1>3, <1>4, <1>5

LEMMA SubsetCounted ==
    ASSUME NEW T \in SUBSET Replicas, NEW S \in SUBSET T
    PROVE  Cardinality(S) <= Cardinality(T)
BY ReplicasCounted, FS_Subset

LEMMA OneFewerCounted ==
    ASSUME NEW S \in SUBSET Replicas, NEW T \in SUBSET Replicas, NEW x, S \ {x} \subseteq T
    PROVE  Cardinality(T) >= Cardinality(S) - 1
<1>1. Cardinality(S \ {x}) >= Cardinality(S) - 1
  BY ReplicasCounted, FS_RemoveElement
<1>2. Cardinality(S \ {x}) <= Cardinality(T)
  BY SubsetCounted
<1> QED
  BY <1>1, <1>2, ReplicasCounted

\* A replica that keeps its witnesses while none lose their storage stays
\* witnessed.
LEMMA StaysWitnessed ==
    ASSUME TypeOK, TypeOK', NEW r \in Replicas, Witnessed(r),
           status'[r] \in {"EMPTY", "RECOVERING"},
           Witnesses(r) \subseteq Witnesses(r)', wipes' = wipes
    PROVE  Witnessed(r)'
<1>1. Cardinality(Witnesses(r)) <= Cardinality(Witnesses(r)')
  BY SubsetCounted DEF Witnesses
<1>2. /\ Cardinality(Witnesses(r)) \in Nat /\ Cardinality(Witnesses(r)') \in Nat
      /\ wipes \in Nat /\ Quorum \in Nat
  BY ReplicasCounted, RecoveryAssumption DEF Witnesses, TypeOK
<1> QED
  BY <1>1, <1>2 DEF Witnessed

\* A witnessed replica does not pass the first phase, as long as wipes are
\* fewer than a quorum.
LEMMA WitnessedWaits ==
    ASSUME MaxWipes < Quorum, TypeOK, NEW r \in Replicas, Witnessed(r)
    PROVE  NextStatus(r) \in {"RECOVERING", Unanswered}
<1> DEFINE F == {s \in Replicas : responses[r][s] \in FirstPhase}
<1>1. Cardinality(Witnesses(r)) >= 1
  BY ReplicasCounted, RecoveryAssumption DEF Witnessed, Witnesses, TypeOK
<1>2. PICK s \in Replicas : responses[r][s] \in {Unanswered, "VOTING"}
  BY <1>1, ReplicasCounted DEF Witnesses
<1>3. F # Replicas
  BY <1>2 DEF FirstPhase, Unanswered
<1>4. ~(Received(r, FirstPhase) >= clusterSize)
  BY <1>3, ReplicasCounted, RecoveryAssumption DEF Received, clusterSize
<1>5. status[r] # "STARTING"
  BY DEF Witnessed
<1> QED
  BY <1>4, <1>5 DEF NextStatus

\* The types are kept by every step.
LEMMA TypesKept ==
    ASSUME TypeOK, [Next]_vars
    PROVE  TypeOK'
<1> USE RecoveryAssumption DEF TypeOK, Status, Unanswered
<1>1. ASSUME NEW r \in Replicas, received(r)
      PROVE  TypeOK'
  <2>1. NextStatus(r) \in Status \cup {Unanswered}
    BY DEF NextStatus, AfterFirstPhase
  <2> QED
    BY <1>1, <2>1 DEF received, RunsProtocol, NoResponses
<1>2. ASSUME NEW r \in Replicas, retry(r)
      PROVE  TypeOK'
  BY <1>2 DEF retry, NoResponses
<1>3. ASSUME NEW r \in Replicas, catchup(r)
      PROVE  TypeOK'
  BY <1>3 DEF catchup, StopsCatchingUp
<1>4. ASSUME NEW r \in Replicas, NEW s \in Replicas, recover(r, s)
      PROVE  TypeOK'
  BY <1>4 DEF recover
<1>5. ASSUME NEW r \in Replicas, Interrupt(r)
      PROVE  TypeOK'
  BY <1>5 DEF Interrupt, StopsCatchingUp, NoResponses
<1>6. ASSUME NEW r \in Replicas, Wipe(r)
      PROVE  TypeOK'
  BY <1>6 DEF Wipe, StopsCatchingUp, NoResponses
<1>7. CASE UNCHANGED vars
  BY <1>7 DEF vars
<1> QED
  BY <1>1, <1>2, <1>3, <1>4, <1>5, <1>6, <1>7 DEF Next, Proceed

\* A step that is not a wipe keeps the replicas that lost a vote witnessed.
LEMMA StepsKeepWitnesses ==
    ASSUME MaxWipes < Quorum, IInv, TypeOK', NEW x \in Replicas,
           Proceed(x) \/ Interrupt(x)
    PROVE  \A r \in lost' : Witnessed(r)'
<1> SUFFICES ASSUME NEW r \in lost'
             PROVE  Witnessed(r)'
  OBVIOUS
<1> USE DEF IInv, TypeOK
<1>1. r \in lost /\ r \in Replicas /\ Witnessed(r) /\ wipes' = wipes
  BY DEF Proceed, received, retry, catchup, recover, Interrupt
<1>2. CASE received(x)
  <2>1. x = r => NextStatus(x) = "RECOVERING"
    BY <1>1, <1>2, WitnessedWaits DEF received
  <2>2. status[x] # "VOTING"
    BY <1>2 DEF received, RunsProtocol
  <2>3. status'[r] \in {"EMPTY", "RECOVERING"}
    BY <1>1, <1>2, <2>1 DEF received, Witnessed
  <2>4. Witnesses(r) \subseteq Witnesses(r)'
    BY <1>1, <1>2, <2>2 DEF received, Witnesses, NoResponses
  <2> QED
    BY <1>1, <2>3, <2>4, StaysWitnessed
<1>3. CASE retry(x) \/ Interrupt(x)
  <2>1. status' = status /\ Witnesses(r) \subseteq Witnesses(r)'
    BY <1>1, <1>3 DEF retry, Interrupt, Witnesses, NoResponses
  <2> QED
    BY <1>1, <2>1, StaysWitnessed DEF Witnessed
<1>4. CASE catchup(x)
  <2>1. x # r /\ status'[r] = status[r]
    BY <1>1, <1>4 DEF catchup
  <2>2. Witnesses(r) \subseteq Witnesses(r)'
    BY <1>1, <1>4 DEF catchup, Witnesses
  <2> QED
    BY <1>1, <2>1, <2>2, StaysWitnessed DEF Witnessed
<1>5. ASSUME NEW s \in Replicas, recover(x, s)
      PROVE  Witnessed(r)'
  <2>1. status' = status /\ Witnesses(r) \subseteq Witnesses(r)'
    BY <1>1, <1>5 DEF recover, Witnesses
  <2> QED
    BY <1>1, <2>1, StaysWitnessed DEF Witnessed
<1> QED
  BY <1>2, <1>3, <1>4, <1>5 DEF Proceed

\* A wipe takes at most one witness of a replica, and one that loses a vote
\* leaves Quorum - 1 replicas voting.
LEMMA WipeKeepsWitnesses ==
    ASSUME IInv, TypeOK', NEW x \in Replicas, Wipe(x)
    PROVE  \A r \in lost' : Witnessed(r)'
<1> SUFFICES ASSUME NEW r \in lost'
             PROVE  Witnessed(r)'
  OBVIOUS
<1> USE DEF IInv, TypeOK
<1>1. r \in Replicas /\ wipes \in Nat /\ wipes' = wipes + 1 /\ Quorum \in Nat
  BY RecoveryAssumption DEF Wipe
<1>2. Cardinality(Witnesses(r)') \in Nat /\ Witnesses(r)' \in SUBSET Replicas
  BY ReplicasCounted DEF Witnesses
<1>3. CASE r \in lost
  <2>1. status'[r] \in {"EMPTY", "RECOVERING"}
    BY <1>1, <1>3 DEF Wipe, Witnessed
  <2>2. Witnesses(r) \ {x} \subseteq Witnesses(r)'
    BY <1>1 DEF Wipe, Witnesses, NoResponses
  <2>3. Witnesses(r) \in SUBSET Replicas
    BY DEF Witnesses
  <2>4. Cardinality(Witnesses(r)') >= Cardinality(Witnesses(r)) - 1
    BY <1>2, <2>2, <2>3, OneFewerCounted
  <2> QED
    BY <1>1, <1>2, <1>3, <2>1, <2>3, <2>4, ReplicasCounted DEF Witnessed
<1>4. CASE r \notin lost
  <2>1. r = x /\ Cardinality(Voting) >= Quorum
    BY <1>4 DEF Wipe
  <2>2. Voting \ {x} \subseteq Witnesses(r)' /\ status'[r] = "EMPTY"
    BY <1>1, <2>1 DEF Wipe, Witnesses, Voting, NoResponses
  <2>3. Voting \in SUBSET Replicas
    BY DEF Voting
  <2>4. Cardinality(Witnesses(r)') >= Cardinality(Voting) - 1
    BY <1>2, <2>2, <2>3, OneFewerCounted
  <2> QED
    BY <1>1, <1>2, <2>1, <2>2, <2>3, <2>4, ReplicasCounted DEF Witnessed
<1> QED
  BY <1>3, <1>4

\* RecoverProtocolProcess never lets a replica vote that lost a vote that
\* counted and has not caught up, for every number of replicas, restarts and
\* timeouts, if fewer replicas than a quorum lose their storage.
THEOREM NeverVotesAfterLoss ==
    MaxWipes < Quorum => (Spec => []NoVoteAfterLoss)
<1> SUFFICES ASSUME MaxWipes < Quorum
             PROVE  Spec => []NoVoteAfterLoss
  OBVIOUS
<1>1. Init => IInv
  BY RecoveryAssumption DEF Init, IInv, TypeOK, Status, NoResponses, Unanswered
<1>2. IInv /\ [Next]_vars => IInv'
  <2> SUFFICES ASSUME IInv, [Next]_vars
               PROVE  IInv'
    OBVIOUS
  <2>1. TypeOK'
    BY TypesKept DEF IInv
  <2>2. ASSUME NEW x \in Replicas, Proceed(x) \/ Interrupt(x)
        PROVE  IInv'
    BY <2>1, <2>2, StepsKeepWitnesses DEF IInv
  <2>3. ASSUME NEW x \in Replicas, Wipe(x)
        PROVE  IInv'
    BY <2>1, <2>3, WipeKeepsWitnesses DEF IInv
  <2>4. CASE UNCHANGED vars
    BY <2>1, <2>4 DEF IInv, Witnessed, Witnesses, vars
  <2> QED
    BY <2>2, <2>3, <2>4 DEF Next
<1>3. IInv => NoVoteAfterLoss
  BY DEF IInv, Witnessed, NoVoteAfterLoss
<1> QED
  BY <1>1, <1>2, <1>3, PTL DEF Spec
=============================================================================
