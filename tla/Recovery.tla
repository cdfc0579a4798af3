------------------------------ MODULE Recovery ------------------------------
(***************************************************************************)
(* How the replicas of a log get to vote (src/log/recover.cpp): every      *)
(* process whose replica is not VOTING asks all replicas for their status, *)
(* and from the answers moves its own replica on.  With auto-              *)
(* initialization new replicas go from EMPTY through STARTING to VOTING in *)
(* two phases; a replica that finds a quorum of VOTING replicas catches up *)
(* first.  Catching up itself is in ReplicatedLog; here it needs a quorum  *)
(* of voting replicas and then succeeds.                                   *)
(***************************************************************************)
EXTENDS Integers, FiniteSets

CONSTANTS
    Replicas,
    Quorum,
    AutoInitialize,  \* --log_auto_initialize
    MaxInterrupts,   \* bound: restarts, and timeouts of the protocol
    MaxWipes         \* bound: replicas that lose their storage

\* RecoverProtocolProcess derives the size of the cluster from the quorum.
clusterSize == 2 * Quorum - 1

ASSUME RecoveryAssumption ==
    /\ IsFiniteSet(Replicas) /\ Quorum \in Nat \ {0}
    /\ Cardinality(Replicas) = clusterSize
    /\ AutoInitialize \in BOOLEAN
    /\ MaxInterrupts \in Nat /\ MaxWipes \in Nat

Status == {"EMPTY", "STARTING", "RECOVERING", "VOTING"}
Unanswered == "UNANSWERED"

VARIABLES
    status,      \* the persisted status of each replica
    responses,   \* responses[r][s]: the answer of s to r's recover request
    catchingUp,  \* the processes that are catching up
    lost,        \* history: replicas wiped while a quorum was voting that
                 \* have not caught up since
    interrupts, wipes

vars == <<status, responses, catchingUp, lost, interrupts, wipes>>

NoResponses == [s \in Replicas |-> Unanswered]

Voting == {r \in Replicas : status[r] = "VOTING"}

Init ==
    /\ status = [r \in Replicas |-> "EMPTY"]
    /\ responses = [r \in Replicas |-> NoResponses]
    /\ catchingUp = {} /\ lost = {}
    /\ interrupts = 0 /\ wipes = 0

\* The process of r runs the recover protocol.
RunsProtocol(r) == status[r] # "VOTING" /\ r \notin catchingUp

\* ReplicaProcess::recover at s, for the request of r.
recover(r, s) ==
    /\ RunsProtocol(r)
    /\ responses[r][s] = Unanswered
    /\ responses' = [responses EXCEPT ![r][s] = status[s]]
    /\ UNCHANGED <<status, catchingUp, lost, interrupts, wipes>>

Received(r, statuses) ==
    Cardinality({s \in Replicas : responses[r][s] \in statuses})

\* A new replica passes the first phase when all replicas are in it too.
FirstPhaseAnyStatus == Status
FirstPhase == {"EMPTY", "STARTING"}
AfterFirstPhaseVotes == "VOTING"
AfterFirstPhase == "STARTING"

\* What RecoverProtocolProcess::received concludes from the responses so far.
NextStatus(r) ==
    IF Received(r, {"VOTING"}) >= Quorum THEN "RECOVERING"
    ELSE IF ~AutoInitialize THEN Unanswered
    ELSE IF status[r] = "EMPTY" /\ Received(r, FirstPhase) >= clusterSize
    THEN AfterFirstPhase
    ELSE IF /\ status[r] = "STARTING"
            /\ Received(r, {"STARTING", "VOTING"}) >= clusterSize
    THEN "VOTING"
    ELSE Unanswered

\* The status is updated; RECOVERING starts the catch-up, STARTING the
\* second phase.
received(r) ==
    /\ RunsProtocol(r)
    /\ NextStatus(r) # Unanswered
    /\ status' = [status EXCEPT ![r] = NextStatus(r)]
    /\ responses' = [responses EXCEPT ![r] = NoResponses]
    /\ catchingUp' = IF NextStatus(r) = "RECOVERING" THEN catchingUp \cup {r}
                     ELSE catchingUp
    /\ UNCHANGED <<lost, interrupts, wipes>>

\* All have answered without a conclusion: RecoverProcess starts over.
retry(r) ==
    /\ RunsProtocol(r)
    /\ Received(r, Status) = clusterSize
    /\ NextStatus(r) = Unanswered
    /\ responses' = [responses EXCEPT ![r] = NoResponses]
    /\ UNCHANGED <<status, catchingUp, lost, interrupts, wipes>>

KeepsCatchingUp(r) == catchingUp

StopsCatchingUp(r) == catchingUp \ {r}

catchup(r) ==
    /\ r \in catchingUp
    /\ Cardinality(Voting) >= Quorum
    /\ status' = [status EXCEPT ![r] = "VOTING"]
    /\ catchingUp' = StopsCatchingUp(r)
    /\ lost' = lost \ {r}
    /\ UNCHANGED <<responses, interrupts, wipes>>

\* The process restarts, or the protocol times out and is run again.
Interrupt(r) ==
    /\ status[r] # "VOTING"
    /\ interrupts < MaxInterrupts
    /\ interrupts' = interrupts + 1
    /\ responses' = [responses EXCEPT ![r] = NoResponses]
    /\ catchingUp' = StopsCatchingUp(r)
    /\ UNCHANGED <<status, lost, wipes>>

Wipe(r) ==
    /\ status[r] # "EMPTY"
    /\ wipes < MaxWipes
    /\ wipes' = wipes + 1
    /\ lost' = IF r \in Voting /\ Cardinality(Voting) >= Quorum
               THEN lost \cup {r} ELSE lost
    /\ status' = [status EXCEPT ![r] = "EMPTY"]
    /\ responses' = [responses EXCEPT ![r] = NoResponses]
    /\ catchingUp' = StopsCatchingUp(r)
    /\ UNCHANGED interrupts

Proceed(r) ==
    received(r) \/ retry(r) \/ catchup(r) \/ \E s \in Replicas : recover(r, s)

Next == \E r \in Replicas : Proceed(r) \/ Interrupt(r) \/ Wipe(r)

\* The processes keep running, and messages sent over and over arrive.
Fairness ==
    \A r \in Replicas :
        /\ WF_vars(received(r)) /\ WF_vars(retry(r)) /\ WF_vars(catchup(r))
        /\ \A s \in Replicas : WF_vars(recover(r, s))

Spec == Init /\ [][Next]_vars /\ Fairness
-----------------------------------------------------------------------------
\* Types; only a replica that has persisted RECOVERING is catching up, also
\* after restarts in the middle of RecoverProcess::catchup.
TypeOK ==
    /\ status \in [Replicas -> Status]
    /\ responses \in [Replicas -> [Replicas -> Status \cup {Unanswered}]]
    /\ catchingUp \subseteq {r \in Replicas : status[r] = "RECOVERING"}
    /\ lost \subseteq Replicas
    /\ interrupts \in 0 .. MaxInterrupts /\ wipes \in 0 .. MaxWipes

\* A replica that lost its storage after its vote could have counted does
\* not vote again before it has caught up, whatever stale answers the
\* auto-initialization of itself or of others is working with.
NoVoteAfterLoss == \A r \in lost : status[r] # "VOTING"

\* Two-phase auto-initialization gets every replica to vote, in whatever
\* order the replicas find out about each other, provided that none of them
\* loses its storage meanwhile.
AllVote == [](wipes = 0) => <>[](Voting = Replicas)
=============================================================================
