---------------------------- MODULE ReplicatedLog ----------------------------
(***************************************************************************)
(* The replicated log: replicas (ReplicaHandlers, the abstract state that  *)
(* Replica implements), the coordinator of each writer with the promise,   *)
(* write, learn and fill phases of src/log/consensus.cpp, the catch-up of  *)
(* src/log/catchup.cpp, the recovery of src/log/recover.cpp, and the       *)
(* network between them.  A writer, its coordinator and its local replica  *)
(* live in one process and are named by the replica.                       *)
(*                                                                         *)
(* A request is delivered to a replica at most once, at any time or never. *)
(* Replies of a phase that is over are dropped; its requests may still     *)
(* arrive.                                                                 *)
(***************************************************************************)
EXTENDS ReplicaHandlers, FiniteSets

CONSTANTS
    Replicas,
    Nobody,        \* the owner of a request whose phase is over
    Quorum,        \* size of a quorum, more than half of the replicas
    Data,          \* Data[c] is what the writer c appends
    Environments,  \* what may happen to the log: see Environment
    StaleWrites,   \* environment: a write may reach a replica that already
                   \* performed a higher proposal at the position
    WriterContract \* the clients restart a writer that returned None

(***************************************************************************)
(* An environment: the replicas whose process runs a writer, those that    *)
(* may lose their storage (once), whether the clients truncate the log as  *)
(* well as append, and the bounds: the last position and proposal in use,  *)
(* the crashes of processes, the positions a catch-up gives up for a while.*)
(***************************************************************************)
Environment ==
    [writers : SUBSET Replicas, wipeable : SUBSET Replicas,
     truncations : BOOLEAN, position : Position, proposal : Proposal,
     crashes : Nat, timeouts : Nat]

ASSUME ReplicasAssumption ==
    /\ IsFiniteSet(Replicas) /\ Nobody \notin Replicas
    /\ Quorum \in Nat /\ 2 * Quorum > Cardinality(Replicas)
    /\ Data \in [Replicas -> Datum]
    /\ Environments \subseteq Environment
    /\ {StaleWrites, WriterContract} \subseteq BOOLEAN

VARIABLES
    replica,   \* the state of each replica
    coord,     \* the coordinator of each process
    phase,     \* the phase each process is running
    requests,  \* requests in flight
    replies,   \* replies to the current phase of each process
    started,   \* the client takes its writer for started
    decided,   \* history: the values for which a learned notice was sent
    atStart,   \* history: the positions decided when an election began
    crashes, timeouts, wiped,
    env        \* the environment, one of Environments

vars == <<replica, coord, phase, requests, replies, started, decided,
          atStart, crashes, timeouts, wiped, env>>

Writers == env.writers

(***************************************************************************)
(* Phases.  "check" is the catch-up process between two positions, looking *)
(* for the next one its replica misses.                                    *)
(***************************************************************************)
Phase(kind, p, position, value) ==
    [kind |-> kind, proposal |-> p, position |-> position, value |-> value]

Idle == Phase("idle", 0, 0, NoValue)
Check == Phase("check", 0, 0, NoValue)

\* The coordinator, or the recovery, of a process; it has to fill the
\* positions from .. index of its replica, the next one with the proposal
\* "fill" of its BulkCatchUpProcess.
Coordinator(state, p, from, index) ==
    [state |-> state, proposal |-> p, from |-> from, index |-> index,
     fill |-> 0]

NewCoordinator == Coordinator("INITIAL", 0, 0, 0)

(***************************************************************************)
(* Broadcasting ends the previous phase of the process: its replies are    *)
(* dropped and its requests no longer have an owner to reply to.           *)
(***************************************************************************)
\* A request that nobody waits for and that would change nothing at its
\* replica is as good as lost.
Effective(m, r) == m.owner # Nobody \/ Handled(r, m.request) # r

Disowned(c) ==
    LET ended == {m \in requests : m.owner = c}
    IN  (requests \ ended)
          \cup {m \in {[n EXCEPT !.owner = Nobody] : n \in ended} :
                  Effective(m, replica[m.to])}

SentBy(c, request, to) ==
    {[to |-> r, owner |-> c, request |-> request] : r \in to}

Broadcast(c, request) ==
    /\ requests' = Disowned(c) \cup SentBy(c, request, Replicas)
    /\ replies' = [replies EXCEPT ![c] = {}]

EndPhase(c) ==
    /\ requests' = Disowned(c)
    /\ replies' = [replies EXCEPT ![c] = {}]

\* log::learn: the local replica handles the notice before anything that the
\* process does next; the other replicas may get it.
Learn(c, p, position, value) ==
    LET notice == Request("learned", p, position, PerformedBy(p, value, TRUE))
    IN  /\ replica' = [replica EXCEPT ![c] = Handled(@, notice)]
        /\ requests' = Disowned(c)
                         \cup SentBy(Nobody, notice, Replicas \ {c})
        /\ replies' = [replies EXCEPT ![c] = {}]
        /\ decided' = decided \cup {[position |-> position, value |-> value]}

(***************************************************************************)
(* What a phase concludes from the first quorum of replies, any quorum of  *)
(* those that have been sent.                                              *)
(***************************************************************************)
FirstQuorums(c) ==
    {S \in SUBSET {x \in replies[c] : x.reply.type # "IGNORED"} :
        Cardinality(S) = Quorum}

Nacks(S) == {x.reply.proposal : x \in {y \in S : y.reply.type = "REJECT"}}

NextProposal(S) == Largest(Nacks(S)) + 1

HighestNackProposal(S) == Largest(Nacks(S))

LowestEndPosition(S) == Smallest({x.reply.position : x \in S})

HighestEndPosition(S) == Largest({x.reply.position : x \in S})

AckActions(S) == {x.reply.action : x \in S} \ {NoAction}

LearnedReplies(c) ==
    {a \in AckActions({x \in replies[c] : x.reply.type = "ACCEPT"}) : a.learned}

Performed(S) == {a \in AckActions(S) : a.performed > 0}

ValueToWriteNop(S) == Nop

\* The value of the highest proposal performed, a no-op when there is none.
ValueToWrite(S) ==
    IF Performed(S) = {} THEN Nop
    ELSE (CHOOSE a \in Performed(S) :
            \A b \in Performed(S) : b.performed <= a.performed).value

IgnoredByQuorum(c) ==
    Cardinality({x \in replies[c] : x.reply.type = "IGNORED"}) >= Quorum

\* The proposal in the negative result of a phase: the highest nack, or 0,
\* which is what the field holds when a quorum ignored the request.
NegativeResults(c) ==
    {HighestNackProposal(S) : S \in {T \in FirstQuorums(c) : Nacks(T) # {}}}
      \cup (IF IgnoredByQuorum(c) THEN {0} ELSE {})
-----------------------------------------------------------------------------
\* A log that one writer has been elected for before: position 0 is filled.
Init ==
    LET filled == PerformedBy(2, Nop, TRUE)
    IN  /\ replica = [r \in Replicas |->
                       [NewReplica("VOTING") EXCEPT !.promised = 1,
                                                    !.log[0] = filled]]
        /\ coord = [c \in Replicas |-> NewCoordinator]
        /\ phase = [c \in Replicas |-> Idle]
        /\ requests = {}
        /\ replies = [c \in Replicas |-> {}]
        /\ env \in Environments
        /\ started = [c \in Writers |-> FALSE]
        /\ decided = {[position |-> 0, value |-> Nop]}
        /\ atStart = [c \in Writers |-> {}]
        /\ crashes = 0 /\ timeouts = 0 /\ wiped = {}

Bounds == <<crashes, timeouts, wiped, env>>

\* A replica handles a request and replies to the phase that sent it.
Deliver ==
    \E m \in requests :
        LET r == m.to
            reply == OutcomeOf(replica[r], m.request).reply
        IN  /\ ~StaleWrites /\ m.request.type = "write" =>
                   replica[r].log[m.request.position].performed
                     <= m.request.proposal
            /\ replica' = [replica EXCEPT ![r] = Handled(@, m.request)]
            /\ requests' = {n \in requests \ {m} :
                              n.to # r \/ Effective(n, replica'[r])}
            /\ replies' = IF m.owner = Nobody \/ reply = Silent THEN replies
                          ELSE [replies EXCEPT ![m.owner] =
                                  @ \cup {[from |-> r, reply |-> reply]}]
            /\ UNCHANGED <<coord, phase, started, decided, atStart, Bounds>>

(***************************************************************************)
(* Election: LogWriterProcess::start makes a new coordinator, which asks   *)
(* for an implicit promise above the one of its local replica.             *)
(***************************************************************************)
Start(c) ==
    LET p == replica[c].promised + 1
    IN  /\ ~started[c] /\ phase[c] = Idle
        /\ replica[c].status = "VOTING"
        /\ p <= env.proposal
        /\ coord' = [coord EXCEPT ![c] = Coordinator("ELECTING", p, 0, 0)]
        /\ phase' = [phase EXCEPT ![c] = Phase("implicit", p, 0, NoValue)]
        /\ Broadcast(c, Request("implicit", p, 0, NoAction))
        /\ atStart' = [atStart EXCEPT ![c] = {d.position : d \in decided}]
        /\ UNCHANGED <<replica, started, decided, Bounds>>

\* Rejected, or ignored by a quorum: LogStorageProcess starts over.
ElectionLost(c) ==
    /\ phase[c].kind = "implicit"
    /\ NegativeResults(c) # {}
    /\ coord' = [coord EXCEPT ![c] = NewCoordinator]
    /\ phase' = [phase EXCEPT ![c] = Idle]
    /\ EndPhase(c)
    /\ UNCHANGED <<replica, started, decided, atStart, Bounds>>

\* Promised by a quorum: the coordinator has to fill what its replica misses
\* up to the highest end position, with the proposal after its own.
ElectionWon(c) ==
    /\ phase[c].kind = "implicit"
    /\ \E S \in FirstQuorums(c) :
         /\ Nacks(S) = {}
         /\ coord' = [coord EXCEPT ![c].index = HighestEndPosition(S),
                                   ![c].fill = coord[c].proposal + 1]
    /\ phase' = [phase EXCEPT ![c] = Check]
    /\ EndPhase(c)
    /\ UNCHANGED <<replica, started, decided, atStart, Bounds>>

(***************************************************************************)
(* Catch-up: BulkCatchUpProcess goes through the missing positions one     *)
(* after the other and fills each of them.                                 *)
(***************************************************************************)
MissingPositions(c) ==
    {n \in coord[c].from .. coord[c].index : Missing(replica[c], n)}

StartingProposal(c) ==
    IF coord[c].state = "ELECTING" THEN coord[c].proposal + 1 ELSE 0

\* The proposal carried over from the last position filled, or the first
\* one again at the start of another interval of missing positions.
Fill(c) ==
    /\ phase[c].kind = "check"
    /\ MissingPositions(c) # {}
    /\ LET n == Smallest(MissingPositions(c))
       IN  \E p \in {coord[c].fill, StartingProposal(c)} :
             /\ p <= env.proposal
             /\ phase' = [phase EXCEPT ![c] = Phase("explicit", p, n, NoValue)]
             /\ Broadcast(c, Request("explicit", p, n, NoAction))
    /\ UNCHANGED <<replica, coord, started, decided, atStart, Bounds>>

\* A reply with a learned action ends the promise phase at once.
FillLearned(c) ==
    LET p == phase[c].proposal
    IN  /\ phase[c].kind = "explicit"
        /\ \E a \in LearnedReplies(c) :
             Learn(c, p, phase[c].position, a.value)
        /\ coord' = [coord EXCEPT ![c].fill = p]
        /\ phase' = [phase EXCEPT ![c] = Check]
        /\ UNCHANGED <<started, atStart, Bounds>>

\* FillProcess::retry: both phases start over above the highest nack.
FillRejected(c) ==
    /\ phase[c].kind \in {"explicit", "fill"}
    /\ \E nack \in NegativeResults(c) :
         LET p == nack + 1
             n == phase[c].position
         IN  /\ nack >= phase[c].proposal
             /\ p <= env.proposal
             /\ phase' = [phase EXCEPT ![c] = Phase("explicit", p, n, NoValue)]
             /\ Broadcast(c, Request("explicit", p, n, NoAction))
    /\ UNCHANGED <<replica, coord, started, decided, atStart, Bounds>>

FillPromised(c) ==
    /\ phase[c].kind = "explicit"
    /\ \E S \in FirstQuorums(c) :
         LET p == phase[c].proposal
             n == phase[c].position
             v == ValueToWrite(S)
         IN  /\ Nacks(S) = {}
             /\ \A a \in AckActions(S) : ~a.learned
             /\ phase' = [phase EXCEPT ![c] = Phase("fill", p, n, v)]
             /\ Broadcast(c, Request("write", p, n, PerformedBy(p, v, FALSE)))
    /\ UNCHANGED <<replica, coord, started, decided, atStart, Bounds>>

FillAccepted(c) ==
    LET p == phase[c].proposal
    IN  /\ phase[c].kind = "fill"
        /\ \E S \in FirstQuorums(c) : Nacks(S) = {}
        /\ Learn(c, p, phase[c].position, phase[c].value)
        /\ coord' = [coord EXCEPT ![c].fill = p]
        /\ phase' = [phase EXCEPT ![c] = Check]
        /\ UNCHANGED <<started, atStart, Bounds>>

\* BulkCatchUpProcess gives a position up after a while and tries again.
CatchUpTimeout(c) ==
    /\ phase[c].kind \in {"explicit", "fill"}
    /\ timeouts < env.timeouts
    /\ timeouts' = timeouts + 1
    /\ phase' = [phase EXCEPT ![c] = Check]
    /\ EndPhase(c)
    /\ UNCHANGED <<replica, coord, started, decided, atStart,
                   crashes, wiped, env>>

\* Nothing is missing any more: the coordinator is elected.
Elected(c) ==
    /\ phase[c].kind = "check" /\ coord[c].state = "ELECTING"
    /\ MissingPositions(c) = {}
    /\ coord' = [coord EXCEPT ![c].state = "ELECTED", ![c].index = @ + 1,
                              ![c].fill = 0]
    /\ phase' = [phase EXCEPT ![c] = Idle]
    /\ started' = [started EXCEPT ![c] = TRUE]
    /\ UNCHANGED <<replica, requests, replies, decided, atStart, Bounds>>

(***************************************************************************)
(* Writing: the client appends, or truncates, at the coordinator's index.  *)
(***************************************************************************)
Perform(c, v) ==
    LET p == coord[c].proposal
        n == coord[c].index
    IN  /\ started[c] /\ coord[c].state = "ELECTED"
        /\ n <= env.position
        /\ coord' = [coord EXCEPT ![c].state = "WRITING"]
        /\ phase' = [phase EXCEPT ![c] = Phase("write", p, n, v)]
        /\ Broadcast(c, Request("write", p, n, PerformedBy(p, v, FALSE)))
        /\ UNCHANGED <<replica, started, decided, atStart, Bounds>>

append(c) == Perform(c, AppendValue(Data[c]))

truncate(c) ==
    /\ env.truncations
    /\ \E to \in replica[c].begin + 1 .. coord[c].index :
         Perform(c, TruncateValue(to))

WriteAccepted(c) ==
    /\ phase[c].kind = "write"
    /\ \E S \in FirstQuorums(c) : Nacks(S) = {}
    /\ Learn(c, phase[c].proposal, phase[c].position, phase[c].value)
    /\ coord' = [coord EXCEPT ![c].state = "ELECTED", ![c].index = @ + 1]
    /\ phase' = [phase EXCEPT ![c] = Idle]
    /\ UNCHANGED <<started, atStart, Bounds>>

\* A nack returns None to the client and leaves the coordinator ELECTED,
\* with the proposal of the nack.  LogStorageProcess starts over when an
\* append returns None, and ignores that a truncation did.
WriteRejected(c) ==
    /\ phase[c].kind = "write"
    /\ \E S \in FirstQuorums(c) :
         /\ Nacks(S) # {}
         /\ coord' = [coord EXCEPT ![c].state = "ELECTED",
                                   ![c].proposal = HighestNackProposal(S)]
    /\ phase' = [phase EXCEPT ![c] = Idle]
    /\ started' = [started EXCEPT ![c] =
                      ~WriterContract /\ phase[c].value.type = "TRUNCATE"]
    /\ EndPhase(c)
    /\ UNCHANGED <<replica, decided, atStart, Bounds>>

(***************************************************************************)
(* Failures.  The process of a writer restarts with what its replica has   *)
(* persisted (Replica shows that a restart changes nothing else).  The     *)
(* CHECKs of FillProcess::retry and CoordinatorProcess::checkWritePhase    *)
(* abort on a negative result below the proposal of the phase.             *)
(***************************************************************************)
Restarted(c) ==
    /\ coord' = [coord EXCEPT ![c] = NewCoordinator]
    /\ phase' = [phase EXCEPT ![c] = Idle]
    /\ started' = [d \in Writers |-> d # c /\ started[d]]
    /\ UNCHANGED <<decided, atStart>>

Crash(c) ==
    /\ ~(coord[c] = NewCoordinator /\ phase[c] = Idle)
    /\ crashes < env.crashes
    /\ crashes' = crashes + 1
    /\ Restarted(c)
    /\ EndPhase(c)
    /\ UNCHANGED <<replica, timeouts, wiped, env>>

Abort(c) ==
    /\ phase[c].kind \in {"explicit", "fill", "write"}
    /\ \E nack \in NegativeResults(c) : nack < phase[c].proposal
    /\ Restarted(c)
    /\ EndPhase(c)
    /\ UNCHANGED <<replica, Bounds>>

\* The storage of a replica is lost; what is in flight to it is too.
Wipe(r) ==
    /\ r \in env.wipeable \ wiped
    /\ wiped' = wiped \cup {r}
    /\ Restarted(r)
    /\ replica' = [replica EXCEPT ![r] = NewReplica("EMPTY")]
    /\ requests' = {m \in Disowned(r) : m.to # r}
    /\ replies' = [replies EXCEPT ![r] = {}]
    /\ UNCHANGED <<crashes, timeouts, env>>

(***************************************************************************)
(* Recovery of a replica that may not vote (src/log/recover.cpp) when      *)
(* auto-initialization does not apply: it learns the positions of a quorum *)
(* of voting replicas, then votes.                                         *)
(***************************************************************************)
RecoverRequest(r) ==
    /\ phase[r] = Idle /\ replica[r].status # "VOTING"
    /\ phase' = [phase EXCEPT ![r] = Phase("recover", 0, 0, NoValue)]
    /\ UNCHANGED <<replica, coord, requests, replies, started, decided,
                   atStart, Bounds>>

\* A voting replica answers with the first and last position of its log.
RecoverResponse(r, s) ==
    /\ phase[r].kind = "recover"
    /\ replica[s].status = "VOTING"
    /\ \A x \in replies[r] : x.from # s
    /\ replies' = [replies EXCEPT ![r] = @ \cup
          {[from |-> s, reply |-> Reply("VOTING", replica[s].begin,
                                        replica[s].end, NoAction)]}]
    /\ UNCHANGED <<replica, coord, phase, requests, started, decided,
                   atStart, Bounds>>

CatchUpRange(r) ==
    /\ phase[r].kind = "recover"
    /\ \E S \in FirstQuorums(r) :
         LET begins == {x.reply.proposal : x \in S}
         IN  coord' = [coord EXCEPT ![r] =
               Coordinator("RECOVERING", 0,
                           Smallest(begins), HighestEndPosition(S))]
    /\ replica' = [replica EXCEPT ![r].status = "RECOVERING"]
    /\ phase' = [phase EXCEPT ![r] = Check]
    /\ EndPhase(r)
    /\ UNCHANGED <<started, decided, atStart, Bounds>>

Recovered(r) ==
    /\ phase[r].kind = "check" /\ coord[r].state = "RECOVERING"
    /\ MissingPositions(r) = {}
    /\ replica' = [replica EXCEPT ![r].status = "VOTING"]
    /\ coord' = [coord EXCEPT ![r] = NewCoordinator]
    /\ phase' = [phase EXCEPT ![r] = Idle]
    /\ UNCHANGED <<requests, replies, started, decided, atStart, Bounds>>
-----------------------------------------------------------------------------
Writing(c) ==
    \/ Start(c) \/ ElectionLost(c) \/ ElectionWon(c) \/ Elected(c)
    \/ append(c) \/ truncate(c) \/ WriteAccepted(c) \/ WriteRejected(c)

CatchingUp(c) ==
    \/ Fill(c) \/ FillLearned(c) \/ FillRejected(c) \/ FillPromised(c)
    \/ FillAccepted(c) \/ CatchUpTimeout(c)

Recovering(r) ==
    \/ RecoverRequest(r) \/ CatchUpRange(r) \/ Recovered(r)
    \/ \E s \in Replicas : RecoverResponse(r, s)

Next ==
    \/ Deliver
    \/ \E c \in Writers : Writing(c)
    \/ \E r \in Replicas :
         CatchingUp(r) \/ Recovering(r) \/ Crash(r) \/ Abort(r) \/ Wipe(r)

Spec == Init /\ [][Next]_vars
-----------------------------------------------------------------------------
\* Types of replicas, coordinators and messages.  The proposal that
\* CoordinatorProcess::checkWritePhase takes over from a nack is one that
\* some proposer has used.
TypeOK ==
    /\ replica \in [Replicas -> ReplicaState]
    /\ \A c \in Replicas :
         /\ coord[c].state \in {"INITIAL", "ELECTING", "ELECTED", "WRITING",
                                "RECOVERING"}
         /\ coord[c].proposal \in Proposal
         /\ phase[c].proposal \in Nat /\ phase[c].position \in Position
    /\ \A m \in requests : m.to \in Replicas /\ m.owner \in Replicas \cup {Nobody}
    /\ started \in [Writers -> BOOLEAN]

\* Agreement: two processes that broadcast a learned notice for a position
\* (log::learn, after a quorum accepted the write or a replica reported the
\* position learned) do so with the same value, unless one of them knows the
\* position as truncated.
Agreement ==
    \A d, e \in decided :
        \/ d.position # e.position
        \/ d.value = e.value
        \/ Tombstone \in {d.value, e.value}

\* Once a value has been agreed on for a position, the writes that a fill
\* sends for this position (FillProcess::runWritePhase) have this value.
SubsequentWritesAgree ==
    \A c \in Replicas, d \in decided :
        phase[c].kind = "fill" /\ phase[c].position = d.position =>
            d.value \in {phase[c].value, Tombstone}

\* What has been decided before an election began is below the index of the
\* coordinator it elects, and its local replica has learned it: this is what
\* a client that reads its log after Log::Writer::start relies on.
ElectionSeesDecided ==
    \A c \in Writers : coord[c].state \in {"ELECTED", "WRITING"} =>
        \A n \in atStart[c] : n < coord[c].index /\ ~Missing(replica[c], n)

\* Two writers that take themselves for started never share a proposal
\* number: the promises a coordinator collects in CoordinatorProcess::elect
\* exclude every other one from writing with its number.
SoleLeader ==
    \A c, d \in Writers :
        /\ c # d /\ started[c] /\ started[d]
        => coord[c].proposal # coord[d].proposal

\* The log of a replica begins where a decided truncation says, also when
\* what the replica learned is the tombstone a truncated replica reported.
BeginJustified ==
    \A r \in Replicas : replica[r].begin > 0 =>
        \E d \in decided : d.value.type = "TRUNCATE"
                            /\ d.value.arg >= replica[r].begin

\* No process meets a negative result that its CHECKs do not allow for:
\* CHECK_GE in FillProcess::retry, CHECK_LE in
\* CoordinatorProcess::checkWritePhase.
NeverAborts ==
    \A c \in Replicas :
        phase[c].kind \in {"explicit", "fill", "write"} =>
            \A nack \in NegativeResults(c) : nack >= phase[c].proposal
=============================================================================
