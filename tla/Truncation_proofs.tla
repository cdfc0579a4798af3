-------------------------- MODULE Truncation_proofs --------------------------
(***************************************************************************)
(* A replica forgets a position only if a truncation beyond it has been    *)
(* decided, for every number of replicas, writers, positions, proposals,   *)
(* crashes, time-outs and lost storages, and whatever the clients do with  *)
(* a writer that returned None.                                            *)
(*                                                                         *)
(* The beginning of a log moves by what a learned notice says, and travels *)
(* from replica to replica as the tombstones of ReplicaProcess::promise.   *)
(* The inductive invariant therefore says of every action, in a log, in a  *)
(* request, in a reply or about to be written, that what it truncates is   *)
(* covered by a decision.                                                  *)
(***************************************************************************)
EXTENDS Truncation_lemmas

LEMMA IdleSound ==
    ASSUME NEW D
    PROVE  SoundProcess(D, NewCoordinator, Idle, {})
BY Plain, FreshProcess, FS_EmptySet DEF NewCoordinator, Idle

LEMMA StartSound ==
    ASSUME JInv, NEW c \in Replicas, Start(c)
    PROVE  JInv'
<1> DEFINE p == replica[c].promised + 1
           k == Coordinator("ELECTING", p, 0, 0)
           f == Phase("implicit", p, 0, NoValue)
           q == Request("implicit", p, 0, NoAction)
<1>1. p \in Nat
  BY ProcessFacts, ReplicaNumbers
<1>2. f.position = 0 /\ SoundProcess(decided, k, f, {})
  <2>1. SoundProcess(decided, k, f, {})
    BY <1>1, Plain, FreshProcess, FS_EmptySet
  <2> QED
    BY <2>1 DEF Phase
<1>3. /\ Becomes(c, k) /\ phase' = [phase EXCEPT ![c] = f]
      /\ Broadcast(c, q) /\ UNCHANGED <<replica, decided, env>>
  BY ProcessFacts DEF Start, Bounds, Becomes
<1> HIDE DEF p, k, f
<1>4. SoundRequest(decided, q) /\ q.position = 0
  BY <1>1, Plain, PromiseSound
<1> HIDE DEF q
<1> QED
  BY <1>2, <1>3, <1>4, BroadcastKeeps, Zenon

LEMMA ElectionSound ==
    ASSUME JInv, NEW c \in Replicas, ElectionLost(c) \/ ElectionWon(c)
    PROVE  JInv'
<1>1. CASE ElectionLost(c)
  <2>1. Becomes(c, NewCoordinator)
    BY <1>1, ProcessFacts DEF ElectionLost, Becomes
  <2> QED
    BY <1>1, <2>1, IdleSound, EndKeeps, Zenon DEF ElectionLost, Bounds
<1>2. CASE ElectionWon(c)
  <2>1. PICK S \in FirstQuorums(c) :
          coord' = [coord EXCEPT ![c].index = HighestEndPosition(S),
                                 ![c].fill = coord[c].proposal + 1]
    BY <1>2, Zenon DEF ElectionWon
  <2> DEFINE i == HighestEndPosition(S)
             k == [coord[c] EXCEPT !.index = i, !.fill = coord[c].proposal + 1]
  <2>2. i \in Position /\ i \in Nat
    BY QuorumReplies DEF Position
  <2> HIDE DEF i
  <2>3. SoundProcess(decided, k, Check, {})
    BY <2>2, ProcessFacts, Plain, FS_EmptySet DEF SoundProcess, Check, Phase
  <2>4. Becomes(c, k)
    BY <2>1, ProcessFacts, Zenon DEF i, Becomes
  <2> HIDE DEF k
  <2> QED
    BY <1>2, <2>3, <2>4, EndKeeps, Zenon DEF ElectionWon, Bounds
<1> QED
  BY <1>1, <1>2

\* A promise phase for a position, with the coordinator as it is.
LEMMA ExplicitSound ==
    ASSUME JInv, NEW c \in Replicas, NEW p \in Nat, NEW n \in Position,
           coord[c].index \in Position,
           phase' = [phase EXCEPT ![c] = Phase("explicit", p, n, NoValue)],
           Broadcast(c, Request("explicit", p, n, NoAction)),
           UNCHANGED <<replica, coord, decided, env>>
    PROVE  JInv'
<1> DEFINE f == Phase("explicit", p, n, NoValue)
           q == Request("explicit", p, n, NoAction)
<1>1. f.position = n /\ SoundProcess(decided, coord[c], f, {})
  BY ProcessFacts, Plain, FS_EmptySet DEF SoundProcess, Phase
<1>2. Becomes(c, coord[c])
  BY ProcessFacts, SMTT(30)
<1>3. SoundRequest(decided, q) /\ q.position = n
  BY PromiseSound
<1>4. phase' = [phase EXCEPT ![c] = f] /\ Broadcast(c, q)
  OBVIOUS
<1> HIDE DEF f, q
<1> QED
  BY <1>1, <1>2, <1>3, <1>4, BroadcastKeeps, Zenon

\* A write phase for a position, with a sound value.
LEMMA WritePhaseSound ==
    ASSUME JInv, NEW c \in Replicas, NEW p \in Nat, NEW n \in Position, NEW v,
           SoundValue(decided, v, n), NEW kind, kind \in {"fill", "write"},
           NEW k, SoundProcess(decided, k, Idle, {}), kind = "fill" => k.index \in Position,
           Becomes(c, k),
           phase' = [phase EXCEPT ![c] = Phase(kind, p, n, v)],
           Broadcast(c, Request("write", p, n, PerformedBy(p, v, FALSE))),
           UNCHANGED <<replica, decided, env>>
    PROVE  JInv'
<1> DEFINE f == Phase(kind, p, n, v)
           q == Request("write", p, n, PerformedBy(p, v, FALSE))
<1>0. f.kind = kind /\ f.proposal = p /\ f.position = n /\ f.value = v
  BY DEF Phase
<1>1. f.position = n /\ SoundProcess(decided, k, f, {})
  <2> HIDE DEF f
  <2>1. /\ f.kind \in {"check", "explicit", "fill"} => k.index \in Position
        /\ f.kind = "check" => f = Check
    BY <1>0
  <2>2. /\ f.proposal \in Nat /\ f.position \in Position
        /\ SoundValue(decided, f.value, f.position)
    BY <1>0
  <2>3. SoundProcess(decided, k, f, {})
    BY <2>1, <2>2, ChangedPhase, FS_EmptySet
  <2> QED
    BY <1>0, <2>3
<1>2. SoundRequest(decided, q) /\ q.position = n
  BY WriteSound, ZenonT(40)
<1>3. phase' = [phase EXCEPT ![c] = f] /\ Broadcast(c, q)
  BY Zenon
<1> HIDE DEF f, q
<1> QED
  BY <1>1, <1>2, <1>3, BroadcastKeeps, Zenon

LEMMA IdleProcess ==
    ASSUME JInv, NEW c \in Replicas
    PROVE  SoundProcess(decided, coord[c], Idle, {})
BY ProcessFacts, Plain, FS_EmptySet DEF SoundProcess, Idle, Phase
-----------------------------------------------------------------------------
\* The catch-up carries the values it finds on to its own replica.
LEMMA CatchingUpSound ==
    ASSUME JInv, NEW c \in Replicas, CatchingUp(c)
    PROVE  JInv'
<1>0. SoundProcess(decided, coord[c], phase[c], replies[c])
  BY ProcessFacts
<1> DEFINE p == phase[c].proposal
           n == phase[c].position
           k == [coord[c] EXCEPT !.fill = p]
<1>p. p \in Nat /\ n \in Position
  BY <1>0, SMTT(30) DEF SoundProcess
<1>i. phase[c].kind \in {"check", "explicit", "fill"} => coord[c].index \in Position
  BY <1>0 DEF SoundProcess
<1>k. coord[c].index \in Position => SoundProcess(decided, k, Check, {})
  BY <1>0, <1>p, Plain, FS_EmptySet DEF SoundProcess, Check, Phase
<1>l. ASSUME NEW v, SoundValue(decided, v, n), Learn(c, p, n, v),
             phase[c].kind \in {"explicit", "fill"},
             coord' = [coord EXCEPT ![c].fill = p],
             phase' = [phase EXCEPT ![c] = Check], env' = env
      PROVE  JInv'
  <2>1. Becomes(c, k)
    BY <1>l, ProcessFacts DEF Becomes
  <2> HIDE DEF k, p, n
  <2> QED
    BY <1>p, <1>i, <1>k, <1>l, <2>1, LearnKeeps, Zenon
<1>1. CASE Fill(c)
  <2> DEFINE to == Smallest(MissingPositions(c))
  <2>1. to \in Position
    BY <1>1, MissingFound DEF Fill
  <2>2. coord[c].fill \in Nat /\ StartingProposal(c) \in Nat
    BY <1>0 DEF SoundProcess, StartingProposal
  <2>3. PICK w \in {coord[c].fill, StartingProposal(c)} :
          /\ phase' = [phase EXCEPT ![c] = Phase("explicit", w, to, NoValue)]
          /\ Broadcast(c, Request("explicit", w, to, NoAction))
    BY <1>1, Zenon DEF Fill
  <2> HIDE DEF to
  <2> QED
    BY <1>1, <1>i, <2>1, <2>2, <2>3, ExplicitSound, Zenon DEF Fill, Bounds
<1>2. CASE FillLearned(c)
  <2>1. PICK a \in LearnedReplies(c) : Learn(c, p, n, a.value)
    BY <1>2 DEF FillLearned
  <2>2. PICK x \in replies[c] : a = x.reply.action
    BY DEF LearnedReplies, AckActions
  <2>3. SoundValue(decided, a.value, n)
    BY <1>0, <2>2 DEF SoundProcess, SoundReply, SoundAction
  <2> QED
    BY <1>2, <1>l, <2>1, <2>3 DEF FillLearned, Bounds
<1>3. CASE FillRejected(c)
  <2>1. PICK nack \in NegativeResults(c) :
          /\ phase' = [phase EXCEPT ![c] = Phase("explicit", nack + 1, n, NoValue)]
          /\ Broadcast(c, Request("explicit", nack + 1, n, NoAction))
    BY <1>3, Zenon DEF FillRejected
  <2>2. nack + 1 \in Nat
    BY NegativeNat
  <2> HIDE DEF n
  <2> QED
    BY <1>3, <1>p, <1>i, <2>1, <2>2, ExplicitSound, Zenon DEF FillRejected, Bounds
<1>4. CASE FillPromised(c)
  <2>1. PICK S \in FirstQuorums(c) :
          /\ phase' = [phase EXCEPT ![c] = Phase("fill", p, n, ValueToWrite(S))]
          /\ Broadcast(c, Request("write", p, n, PerformedBy(p, ValueToWrite(S), FALSE)))
    BY <1>4, Zenon DEF FillPromised
  <2>2. SoundValue(decided, ValueToWrite(S), n)
    BY QuorumReplies
  <2>3. Becomes(c, coord[c]) /\ UNCHANGED <<replica, decided, env>>
    BY <1>4, ProcessFacts, SMTT(30) DEF FillPromised, Bounds
  <2> HIDE DEF p, n
  <2> QED
    BY <1>4, <1>p, <1>i, <2>1, <2>2, <2>3, IdleProcess, WritePhaseSound, Zenon DEF FillPromised
<1>5. CASE FillAccepted(c)
  <2>1. SoundValue(decided, phase[c].value, n)
    BY <1>0 DEF SoundProcess
  <2> QED
    BY <1>5, <1>l, <2>1 DEF FillAccepted, Bounds
<1>6. CASE CatchUpTimeout(c)
  <2>1. SoundProcess(decided, coord[c], Check, {})
    BY <1>0, <1>6, <1>i, Plain, FS_EmptySet DEF SoundProcess, Check, Phase, CatchUpTimeout
  <2>2. Becomes(c, coord[c]) /\ UNCHANGED <<replica, decided, env>>
        /\ phase' = [phase EXCEPT ![c] = Check] /\ EndPhase(c)
    BY <1>6, ProcessFacts, SMTT(30) DEF CatchUpTimeout
  <2> QED
    BY <2>1, <2>2, EndKeeps, Zenon
<1> QED
  BY <1>1, <1>2, <1>3, <1>4, <1>5, <1>6 DEF CatchingUp

\* An elected coordinator writes what its client wants, and a truncation is
\* decided by the notice that it has been learned.
LEMMA WritingSound ==
    ASSUME JInv, NEW c \in Replicas,
           append(c) \/ truncate(c) \/ WriteAccepted(c) \/ WriteRejected(c)
    PROVE  JInv'
<1>0. SoundProcess(decided, coord[c], phase[c], replies[c]) /\ SoundReplica(decided, replica[c])
  BY ProcessFacts
<1>w. ASSUME NEW v, v.type \in {"APPEND", "TRUNCATE"}, v.type = "TRUNCATE" => v.arg \in Nat,
             Perform(c, v)
      PROVE  JInv'
  <2> DEFINE p == coord[c].proposal
             n == coord[c].index
             k == [coord[c] EXCEPT !.state = "WRITING"]
  <2>1. p \in Nat /\ n \in Position
    <3>1. n \in Nat /\ n <= env.position /\ env.position \in Position
      BY <1>0, <1>w, ReplicasAssumption DEF SoundProcess, Perform, JInv, Environment
    <3>2. p \in Nat
      BY <1>0, ProcessNumbers
    <3> HIDE DEF p, n
    <3> QED
      BY <3>1, <3>2, BoundsAssumption DEF Position
  <2>2. SoundValue(decided, v, n)
    BY <1>w DEF SoundValue
  <2>3. SoundProcess(decided, k, Idle, {})
    BY <1>0, IdleProcess DEF SoundProcess
  <2>4. Becomes(c, k) /\ phase' = [phase EXCEPT ![c] = Phase("write", p, n, v)]
        /\ Broadcast(c, Request("write", p, n, PerformedBy(p, v, FALSE)))
        /\ UNCHANGED <<replica, decided, env>>
    BY <1>w, ProcessFacts, Zenon DEF Perform, Becomes, Bounds
  <2> HIDE DEF p, n, k
  <2> QED
    BY <2>1, <2>2, <2>3, <2>4, WritePhaseSound, Zenon
<1>1. CASE append(c)
  BY <1>1, <1>w DEF append, AppendValue
<1>2. CASE truncate(c)
  <2>1. PICK to \in replica[c].begin + 1 .. coord[c].index : Perform(c, TruncateValue(to))
    BY <1>2 DEF truncate
  <2>2. to \in Nat
    <3>1. replica[c].begin \in Nat /\ coord[c].index \in Nat
      BY <1>0, ProcessNumbers, ReplicaNumbers
    <3> QED
      BY <3>1
  <2> QED
    BY <1>w, <2>1, <2>2 DEF TruncateValue
<1>3. CASE WriteAccepted(c)
  <2> DEFINE k == [coord[c] EXCEPT !.state = "ELECTED", !.index = coord[c].index + 1]
  <2>1. Becomes(c, k)
    BY <1>3, ProcessFacts, Zenon DEF WriteAccepted, Becomes
  <2>2. SoundProcess(decided, k, Idle, {})
    BY <1>0, IdleProcess DEF SoundProcess, Idle, Phase
  <2>3. /\ phase[c].proposal \in Nat /\ phase[c].position \in Position
        /\ SoundValue(decided, phase[c].value, phase[c].position)
    BY <1>0 DEF SoundProcess
  <2> HIDE DEF k
  <2> QED
    BY <1>3, <2>1, <2>2, <2>3, LearnKeeps, Zenon DEF WriteAccepted, Bounds
<1>4. CASE WriteRejected(c)
  <2>1. PICK S \in FirstQuorums(c) :
          /\ Nacks(S) # {}
          /\ coord' = [coord EXCEPT ![c].state = "ELECTED",
                                    ![c].proposal = HighestNackProposal(S)]
    BY <1>4, Zenon DEF WriteRejected
  <2> DEFINE p == HighestNackProposal(S)
             k == [coord[c] EXCEPT !.state = "ELECTED", !.proposal = p]
  <2>2. p \in Nat
    BY <2>1, QuorumReplies
  <2> HIDE DEF p
  <2>3. Becomes(c, k)
    BY <2>1, ProcessFacts, Zenon DEF Becomes, p
  <2>4. SoundProcess(decided, k, Idle, {})
    BY <1>0, <2>2, IdleProcess DEF SoundProcess, Idle, Phase
  <2> HIDE DEF k
  <2> QED
    BY <1>4, <2>3, <2>4, EndKeeps, Zenon DEF WriteRejected, Bounds
<1> QED
  BY <1>1, <1>2, <1>3, <1>4

\* A process begins or ends a phase that sends no request to a log.
LEMMA SilentKeeps ==
    ASSUME JInv, NEW c \in Replicas, UNCHANGED <<requests, decided, env>>,
           DOMAIN replica' = Replicas,
           \A r \in Replicas : SoundReplica(decided, replica'[r]),
           NEW k, Becomes(c, k),
           NEW f, phase' = [phase EXCEPT ![c] = f], f.position = phase[c].position,
           NEW Y, Gets(c, Y),
           SoundProcess(decided, k, f, Y)
    PROVE  JInv'
<1>1. phase'[c] = f
  BY DEF JInv
<1>2. ASSUME NEW m \in requests' PROVE SentOrKept(c, m)
  <2>1. SoundMessage(m)
    BY DEF JInv
  <2> QED
    BY <1>1, <2>1 DEF SoundMessage, SentOrKept
<1> QED
  BY <1>2, ProcessKeeps, Zenon

LEMMA ElectedSound ==
    ASSUME JInv, NEW c \in Replicas, Elected(c)
    PROVE  JInv'
<1> DEFINE k == [coord[c] EXCEPT !.state = "ELECTED", !.index = coord[c].index + 1, !.fill = 0]
<1>0. SoundProcess(decided, coord[c], phase[c], replies[c]) /\ phase[c] = Check
  BY ProcessFacts DEF SoundProcess, Elected
<1>1. SoundProcess(decided, k, Idle, replies[c])
  BY <1>0 DEF SoundProcess, Idle, Check, Phase
<1>2. Becomes(c, k) /\ Gets(c, replies[c])
  BY DEF Elected, Becomes, Gets, JInv
<1>3. /\ phase' = [phase EXCEPT ![c] = Idle] /\ Idle.position = phase[c].position
      /\ UNCHANGED <<requests, replica, decided, env>>
  BY <1>0 DEF Elected, Bounds, Idle, Check, Phase
<1> HIDE DEF k
<1> QED
  BY <1>1, <1>2, <1>3, ProcessFacts, SilentKeeps, Zenon

\* A process that ends, or loses its storage, knows of nothing.
LEMMA FailureSound ==
    ASSUME JInv, NEW c \in Replicas, Crash(c) \/ Abort(c) \/ Wipe(c)
    PROVE  JInv'
<1>1. /\ Becomes(c, NewCoordinator) /\ phase' = [phase EXCEPT ![c] = Idle]
      /\ UNCHANGED <<decided, env>>
  BY ProcessFacts DEF Crash, Abort, Wipe, Restarted, Becomes, Bounds
<1>2. CASE Crash(c) \/ Abort(c)
  BY <1>1, <1>2, IdleSound, EndKeeps, Zenon DEF Crash, Abort, Bounds
<1>3. CASE Wipe(c)
  <2>1. SoundReplica(decided, NewReplica("EMPTY"))
    <3> DEFINE z == NewReplica("EMPTY")
    <3>1. /\ DOMAIN z = {"status", "promised", "begin", "end", "log"}
          /\ z.promised = 0 /\ z.begin = 0 /\ z.end = 0
          /\ \A n \in Position : z.log[n] = NoAction
      BY DEF NewReplica
    <3> HIDE DEF z
    <3>2. SoundReplica(decided, z)
      BY <3>1, Plain, NoActionSound, SMTT(30) DEF SoundReplica
    <3> QED
      BY <3>2 DEF z
  <2>2. DOMAIN replica' = Replicas /\ \A r \in Replicas : SoundReplica(decided, replica'[r])
    BY <1>3, <2>1, ProcessFacts, SMTT(30) DEF Wipe
  <2>3. requests' \subseteq Disowned(c) /\ replies' = [replies EXCEPT ![c] = {}]
    BY <1>3 DEF Wipe
  <2> QED
    BY <1>1, <2>2, <2>3, IdleSound, PhaseKeeps, Zenon
<1> QED
  BY <1>2, <1>3

\* A replica that lost its storage catches up from a quorum of the others.
LEMMA RecoveringSound ==
    ASSUME JInv, NEW c \in Replicas, Recovering(c)
    PROVE  JInv'
<1>0. SoundProcess(decided, coord[c], phase[c], replies[c])
  BY ProcessFacts
<1>s. ASSUME NEW t, replica' = [replica EXCEPT ![c].status = t]
      PROVE  DOMAIN replica' = Replicas /\ \A r \in Replicas : SoundReplica(decided, replica'[r])
  BY <1>s, ProcessFacts DEF SoundReplica
<1>1. CASE RecoverRequest(c)
  <2> DEFINE f == Phase("recover", 0, 0, NoValue)
  <2>1. f.position = phase[c].position /\ SoundProcess(decided, coord[c], f, replies[c])
    <3>1. phase[c].position = 0
      <4>1. phase[c] = Idle
        BY <1>1 DEF RecoverRequest
      <4>2. Idle.position = 0
        BY DEF Idle, Phase
      <4> QED
        BY <4>1, <4>2
    <3>2. f.kind = "recover" /\ f.proposal = 0 /\ f.position = 0 /\ f.value = NoValue
      BY DEF Phase
    <3> HIDE DEF f
    <3>3. IsFiniteSet(replies[c]) /\ \A x \in replies[c] : SoundReply(decided, x.reply, f.position)
      BY <1>0, <3>1, <3>2, ProcessReplies
    <3>4. SoundValue(decided, f.value, f.position) /\ f.position \in Position
      BY <3>2, Plain
    <3> QED
      BY <1>0, <3>1, <3>2, <3>3, <3>4, ChangedPhase
  <2>2. /\ Becomes(c, coord[c]) /\ Gets(c, replies[c])
        /\ phase' = [phase EXCEPT ![c] = f] /\ UNCHANGED <<requests, replica, decided, env>>
    BY <1>1, SMTT(30) DEF RecoverRequest, Becomes, Gets, JInv, Bounds
  <2> HIDE DEF f
  <2> QED
    BY <2>1, <2>2, ProcessFacts, SilentKeeps, Zenon
<1>2. ASSUME NEW s \in Replicas, RecoverResponse(c, s) PROVE JInv'
  <2> DEFINE y == Reply("VOTING", replica[s].begin, replica[s].end, NoAction)
             Y == replies[c] \cup {[from |-> s, reply |-> y]}
  <2>1. SoundReply(decided, y, phase[c].position)
    BY NoActionSound, SMTT(30) DEF SoundReply, Reply, JInv, SoundReplica
  <2> HIDE DEF y
  <2>2. IsFiniteSet(Y)
    BY <1>0, FS_AddElement, Zenon DEF SoundProcess
  <2>3. SoundProcess(decided, coord[c], phase[c], Y)
    <3>1. ASSUME NEW x \in Y PROVE SoundReply(decided, x.reply, phase[c].position)
      <4>1. x \in replies[c] \/ x.reply = y
        BY <3>1
      <4> QED
        BY <1>0, <2>1, <4>1, ProcessReplies
    <3> HIDE DEF Y
    <3> QED
      BY <1>0, <2>2, <3>1, ChangedPhase, ProcessNumbers, ProcessReplies
  <2>4. Becomes(c, coord[c]) /\ Gets(c, Y) /\ UNCHANGED <<phase, requests, replica, decided, env>>
    BY <1>2, SMTT(30) DEF RecoverResponse, Becomes, Gets, JInv, Bounds, y
  <2> HIDE DEF Y
  <2>5. ASSUME NEW d \in Replicas
        PROVE  SoundProcess(decided', coord'[d], phase'[d], replies'[d])
    BY <2>3, <2>4, SMTT(30) DEF JInv, Becomes, Gets
  <2>6. \A m \in requests' : SoundMessage(m)'
    BY <2>4 DEF JInv, SoundMessage
  <2> QED
    BY <2>4, <2>5, <2>6, SMTT(30) DEF JInv, Becomes, Gets
<1>3. CASE CatchUpRange(c)
  <2>1. PICK S \in FirstQuorums(c) :
          coord' = [coord EXCEPT ![c] = Coordinator("RECOVERING", 0, LowestProposal(S),
                                                    HighestEndPosition(S))]
    BY <1>3, Zenon DEF CatchUpRange, LowestProposal
  <2> DEFINE b == LowestProposal(S)
             e == HighestEndPosition(S)
             k == Coordinator("RECOVERING", 0, b, e)
  <2>2. b \in Nat /\ e \in Position
    BY QuorumReplies
  <2> HIDE DEF b, e
  <2>3. SoundProcess(decided, k, Check, {})
    BY <2>2, Plain, FreshProcess, FS_EmptySet DEF Check
  <2>4. Becomes(c, k)
    BY <2>1, ProcessFacts DEF Becomes, b, e
  <2> HIDE DEF k
  <2> QED
    BY <1>3, <1>s, <2>3, <2>4, PhaseKeeps, Zenon DEF CatchUpRange, EndPhase, Bounds
<1>4. CASE Recovered(c)
  <2>1. phase[c] = Check
    BY <1>0, <1>4 DEF SoundProcess, Recovered
  <2>2. SoundProcess(decided, NewCoordinator, Idle, replies[c])
    <3>1. IsFiniteSet(replies[c]) /\ \A x \in replies[c] : SoundReply(decided, x.reply, 0)
      <4>1. Check.position = 0
        BY DEF Check, Phase
      <4> QED
        BY <1>0, <2>1, <4>1, ProcessReplies
    <3> QED
      BY <3>1, Plain, FreshProcess DEF NewCoordinator, Idle
  <2>3. /\ Becomes(c, NewCoordinator) /\ Gets(c, replies[c])
        /\ phase' = [phase EXCEPT ![c] = Idle] /\ Idle.position = phase[c].position
        /\ UNCHANGED <<requests, decided, env>>
    BY <1>4, <2>1 DEF Recovered, Becomes, Gets, JInv, Bounds, Idle, Check, Phase
  <2> QED
    BY <1>4, <1>s, <2>2, <2>3, SilentKeeps, Zenon DEF Recovered
<1> QED
  BY <1>1, <1>2, <1>3, <1>4 DEF Recovering

\* A replica answers: what its answer says to be truncated is.
LEMMA DeliverSound ==
    ASSUME JInv, Deliver
    PROVE  JInv'
<1>p. PICK m \in requests :
      LET reply == OutcomeOf(replica[m.to], m.request).reply
      IN  /\ replica' = [replica EXCEPT ![m.to] = Handled(@, m.request)]
          /\ requests' \subseteq requests
          /\ replies' = IF m.owner = Nobody \/ reply = Silent THEN replies
                        ELSE [replies EXCEPT ![m.owner] =
                                @ \cup {[from |-> m.to, reply |-> reply]}]
          /\ UNCHANGED <<coord, phase, decided, env>>
  BY Zenon DEF Deliver, Bounds
<1> DEFINE reply == OutcomeOf(replica[m.to], m.request).reply
           x == [from |-> m.to, reply |-> reply]
<1>0. /\ m.to \in Replicas /\ SoundReplica(decided, replica[m.to])
      /\ SoundRequest(decided, m.request)
      /\ m.owner \in Replicas => m.request.position = phase[m.owner].position
  BY DEF JInv, SoundMessage
<1>u. /\ replica' = [replica EXCEPT ![m.to] = Handled(@, m.request)]
      /\ requests' \subseteq requests /\ DOMAIN replies' = DOMAIN replies
      /\ \A c \in DOMAIN replies :
           replies'[c] = replies[c] \/ (c = m.owner /\ replies'[c] = replies[c] \cup {x})
      /\ coord' = coord /\ phase' = phase /\ decided' = decided /\ env' = env
  BY <1>p
<1> HIDE DEF x
<1>1. /\ SoundReplica(decided, Handled(replica[m.to], m.request))
      /\ SoundReply(decided, reply, m.request.position)
  BY <1>0, HandledSound
<1>2. DOMAIN replica' = Replicas /\ \A r \in Replicas : SoundReplica(decided', replica'[r])
  BY <1>0, <1>1, <1>u DEF JInv
<1>3. \A n \in requests' : SoundMessage(n)'
  BY <1>u DEF JInv, SoundMessage
<1> HIDE DEF reply
<1>4. ASSUME NEW c \in Replicas
      PROVE  SoundProcess(decided', coord'[c], phase'[c], replies'[c])
  <2>1. SoundProcess(decided, coord[c], phase[c], replies[c]) /\ DOMAIN replies = Replicas
    BY DEF JInv
  <2>2. replies'[c] = replies[c] \/ (c = m.owner /\ replies'[c] = replies[c] \cup {x})
    BY <1>u, <2>1
  <2>3. x.reply = reply
    BY DEF x
  <2>4. IsFiniteSet(replies[c] \cup {x})
    BY <2>1, FS_AddElement DEF SoundProcess
  <2> QED
    BY <1>0, <1>1, <1>u, <2>1, <2>2, <2>3, <2>4, Zenon DEF SoundProcess
<1>5. DOMAIN replies' = Replicas
  BY <1>u DEF JInv
<1> QED
  BY <1>2, <1>3, <1>4, <1>5, <1>u DEF JInv
-----------------------------------------------------------------------------
LEMMA InitSound == Init => JInv
<1> SUFFICES ASSUME Init PROVE JInv
  OBVIOUS
<1> DEFINE filled == PerformedBy(2, Nop, TRUE)
           s == [NewReplica("VOTING") EXCEPT !.promised = 1, !.log[0] = filled]
<1>1. SoundAction(decided, filled, 0)
  BY SMTT(30) DEF PerformedBy, Nop, SoundAction, SoundValue
<1> HIDE DEF filled
<1>2. SoundReplica(decided, s)
  BY <1>1, Plain, NoActionSound DEF SoundReplica, NewReplica
<1>3. replica = [r \in Replicas |-> s]
  BY DEF Init, filled
<1> HIDE DEF s
<1> QED
  BY <1>2, <1>3, IdleSound DEF Init, JInv

\* The log of a replica begins where a decided truncation allows it to
\* (ReplicaProcess::persist, with the tombstones that ReplicaProcess::promise
\* reports and a catch-up learns), also when replicas lose their storage and
\* recover from the others.
THEOREM TruncationIsDecided == Spec => []BeginJustified
<1>1. JInv /\ [Next]_vars => JInv'
  <2> SUFFICES ASSUME JInv, [Next]_vars PROVE JInv'
    OBVIOUS
  <2>1. CASE Deliver
    BY <2>1, DeliverSound
  <2>2. ASSUME NEW c \in Writers, Writing(c) PROVE JInv'
    <3>1. c \in Replicas
      BY ReplicasAssumption, SMTT(30) DEF JInv, Writers, Environment
    <3> QED
      BY <2>2, <3>1, StartSound, ElectionSound, ElectedSound, WritingSound DEF Writing
  <2>3. ASSUME NEW r \in Replicas,
               CatchingUp(r) \/ Recovering(r) \/ Crash(r) \/ Abort(r) \/ Wipe(r)
        PROVE  JInv'
    BY <2>3, CatchingUpSound, RecoveringSound, FailureSound
  <2>4. CASE UNCHANGED vars
    BY <2>4, SMTT(30) DEF vars, JInv, SoundMessage
  <2> QED
    BY <2>1, <2>2, <2>3, <2>4 DEF Next
<1>2. JInv => BeginJustified
  BY DEF JInv, SoundReplica, Justified, BeginJustified
<1> QED
  BY <1>1, <1>2, InitSound, PTL DEF Spec
=============================================================================
