------------------------ MODULE ReplicatedLog_proofs ------------------------
(***************************************************************************)
(* Two started writers never share a proposal number (SoleLeader), for     *)
(* every number of replicas, writers, positions, proposals, crashes and    *)
(* time-outs, as long as no replica loses its storage and the clients      *)
(* restart a writer that returned None.                                    *)
(*                                                                         *)
(* A replica accepts an implicit promise only above the highest one it has *)
(* given, so that two coordinators cannot both get it for the same number, *)
(* and two quorums have a replica in common.  The inductive invariant      *)
(* keeps the acceptances apart while they are collected (Exclusive), and   *)
(* says that a quorum backs every elected coordinator (Leads).             *)
(***************************************************************************)
EXTENDS ReplicatedLog, FiniteSetTheorems, TLAPS

\* c waits for its implicit promises; it has got them.
Electing(c) == phase[c].kind = "implicit"

HasWon(c) ==
    \/ c \in Writers /\ started[c]
    \/ coord[c].state = "ELECTING" /\ ~Electing(c)

Accepts(c) == {x.from : x \in {y \in replies[c] : y.reply.type = "ACCEPT"}}

\* No replica has lost its storage, and none recovers.
Voting ==
    /\ env \in Environments /\ Writers \subseteq Replicas
    /\ DOMAIN replica = Replicas /\ DOMAIN coord = Replicas
    /\ DOMAIN phase = Replicas /\ DOMAIN replies = Replicas
    /\ started \in [Writers -> BOOLEAN]
    /\ \A r \in Replicas :
         /\ {"status", "promised"} \subseteq DOMAIN replica[r]
         /\ replica[r].status = "VOTING" /\ replica[r].promised \in Nat
         /\ {"state", "proposal"} \subseteq DOMAIN coord[r]
         /\ coord[r].state # "RECOVERING" /\ phase[r].kind # "recover"

Messages ==
    \A m \in requests :
        /\ DOMAIN m = {"to", "owner", "request"} /\ m.to \in Replicas
        /\ m.request.type = "implicit" => m.request.proposal \in Nat

\* Every replica is asked once and answers at most once, and one that has
\* accepted keeps to it.
Campaign(c) ==
    Electing(c) =>
        /\ c \in Writers /\ ~started[c]
        /\ coord[c].state = "ELECTING" /\ coord[c].proposal = phase[c].proposal
        /\ phase[c].proposal \in Nat
        /\ \A m \in requests : m.owner = c =>
             /\ m.request.type = "implicit" /\ m.request.proposal = phase[c].proposal
             /\ \A x \in replies[c] : x.from # m.to
             /\ \A n \in requests : n.owner = c /\ n.to = m.to => n = m
        /\ \A x \in replies[c] :
             /\ x.from \in Replicas /\ x.reply.type \in {"ACCEPT", "REJECT"}
             /\ x.reply.type = "ACCEPT" => replica[x.from].promised >= phase[c].proposal
             /\ \A y \in replies[c] : y.from = x.from => y = x

\* No replica accepts the same number from two coordinators.
Exclusive ==
    \A c, d \in Replicas :
        c # d /\ Electing(c) /\ Electing(d) /\ phase[c].proposal = phase[d].proposal
        => Accepts(c) \cap Accepts(d) = {}

\* r will not accept the number of c from another coordinator, and has not.
Backs(r, c) ==
    /\ replica[r].promised >= coord[c].proposal
    /\ \A d \in Replicas \ {c} :
         Electing(d) /\ phase[d].proposal = coord[c].proposal => r \notin Accepts(d)

Backers(c) == {r \in Replicas : Backs(r, c)}

\* No other coordinator can have, or get, the number of c.
Leads(c) ==
    /\ coord[c].proposal \in Nat
    /\ Cardinality(Backers(c)) >= Quorum
    /\ \A d \in Replicas \ {c} : HasWon(d) => coord[d].proposal # coord[c].proposal

IInv ==
    /\ Voting /\ Messages /\ Exclusive
    /\ \A c \in Replicas : Campaign(c) /\ (HasWon(c) => Leads(c))
-----------------------------------------------------------------------------
\* What ReplicaProcess keeps when it handles a request: its status, and its
\* implicit promise unless it gives a higher one.
LEMMA HandledKeeps ==
    ASSUME NEW r, NEW q, {"status", "promised"} \subseteq DOMAIN r,
           r.promised \in Nat, q.type = "implicit" => q.proposal \in Nat
    PROVE  /\ {"status", "promised"} \subseteq DOMAIN Handled(r, q)
           /\ Handled(r, q).status = r.status
           /\ Handled(r, q).promised \in Nat
           /\ Handled(r, q).promised >= r.promised
           /\ Handled(r, q).promised = OutcomeOf(r, q).promised
<1> DEFINE o == OutcomeOf(r, q)
           s == [r EXCEPT !.promised = o.promised]
<1>1. o.promised \in Nat /\ o.promised >= r.promised
  BY DEF OutcomeOf, Handle, ImplicitPromise, ExplicitPromise, Write, Outcome
<1>2. /\ {"status", "promised"} \subseteq DOMAIN s
      /\ s.status = r.status /\ s.promised = o.promised
  <2> HIDE DEF o
  <2> QED
    OBVIOUS
<1>3. Handled(r, q) = s \/ \E a : Handled(r, q) = Persisted(s, q.position, a)
  BY DEF Handled
<1>4. ASSUME NEW a
      PROVE  LET t == Persisted(s, q.position, a)
             IN  /\ {"status", "promised"} \subseteq DOMAIN t
                 /\ t.status = s.status /\ t.promised = s.promised
  <2> HIDE DEF s
  <2> QED
    BY <1>2 DEF Persisted
<1> HIDE DEF s, o
<1> QED
  BY <1>1, <1>2, <1>3, <1>4 DEF o

\* A voting replica accepts an implicit promise only above the one it gave.
LEMMA ImplicitReply ==
    ASSUME NEW r, NEW q, r.status = "VOTING", q.type = "implicit",
           r.promised \in Nat, q.proposal \in Nat
    PROVE  /\ OutcomeOf(r, q).reply.type \in {"ACCEPT", "REJECT"}
           /\ OutcomeOf(r, q).reply.type = "ACCEPT" =>
                /\ r.promised < q.proposal
                /\ OutcomeOf(r, q).promised = q.proposal
BY DEF OutcomeOf, Handle, ImplicitPromise, Outcome, Reply, Reject

\* What ends with a phase: its requests lose their owner, or are dropped.
LEMMA DisownedRequests ==
    ASSUME Messages, NEW c \in Replicas, NEW m \in Disowned(c)
    PROVE  /\ DOMAIN m = {"to", "owner", "request"} /\ m.to \in Replicas
           /\ m.request.type = "implicit" => m.request.proposal \in Nat
           /\ m.owner # c
           /\ m.owner # Nobody => m \in requests
<1>1. CASE m \in requests /\ m.owner # c
  BY <1>1 DEF Messages
<1>2. CASE ~(m \in requests /\ m.owner # c)
  <2>1. PICK n \in requests : m = [n EXCEPT !.owner = Nobody]
    BY <1>2 DEF Disowned
  <2>2. /\ DOMAIN n = {"to", "owner", "request"} /\ n.to \in Replicas
        /\ n.request.type = "implicit" => n.request.proposal \in Nat
    BY DEF Messages
  <2>3. DOMAIN m = {"to", "owner", "request"} /\ m.to = n.to
        /\ m.request = n.request /\ m.owner = Nobody
    BY <2>1, <2>2
  <2> QED
    BY <2>2, <2>3, ReplicasAssumption
<1> QED
  BY <1>1, <1>2
-----------------------------------------------------------------------------
LEMMA ReplicasCounted ==
    ASSUME NEW S \in SUBSET Replicas
    PROVE  IsFiniteSet(S) /\ Cardinality(S) \in Nat
BY ReplicasAssumption, FS_Subset, FS_CardinalityType

LEMMA SubsetCounted ==
    ASSUME NEW T \in SUBSET Replicas, NEW S \in SUBSET T
    PROVE  Cardinality(S) <= Cardinality(T)
BY ReplicasCounted, FS_Subset

\* Two quorums have a replica in common.
LEMMA QuorumsMeet ==
    ASSUME NEW S \in SUBSET Replicas, NEW T \in SUBSET Replicas,
           Cardinality(S) >= Quorum, Cardinality(T) >= Quorum
    PROVE  S \cap T # {}
<1>1. Cardinality(S \cup T) = Cardinality(S) + Cardinality(T) - Cardinality(S \cap T)
  BY ReplicasCounted, FS_Union
<1>2. Cardinality(S \cup T) <= Cardinality(Replicas)
  BY SubsetCounted
<1>3. S \cap T = {} => Cardinality(S \cap T) = 0
  BY FS_EmptySet
<1>4. Cardinality(Replicas) \in Nat /\ Cardinality(S) \in Nat /\ Cardinality(T) \in Nat
      /\ Cardinality(S \cup T) \in Nat
  BY ReplicasCounted
<1> QED
  BY <1>1, <1>2, <1>3, <1>4, ReplicasAssumption
-----------------------------------------------------------------------------
\* A step of process c that leaves the elections of the others alone: it
\* starts an election, goes on as a leader or ends what it was doing.
Quiet(c) ==
    /\ env' = env
    /\ \A d \in Replicas \ {c} :
         /\ phase'[d] = phase[d] /\ coord'[d] = coord[d] /\ replies'[d] = replies[d]
         /\ d \in Writers => started'[d] = started[d]
    /\ Electing(c)' => replies'[c] = {} /\ Campaign(c)'
    /\ HasWon(c)' => Leads(c) /\ coord'[c].proposal = coord[c].proposal
    /\ \A r \in Replicas : replica'[r].promised >= replica[r].promised
    /\ \A m \in requests' : m.owner \in Replicas \ {c} => m \in requests

\* Nothing but the process c changes: the others are as they were.
LEMMA OthersKeep ==
    ASSUME NEW c \in Replicas, Quiet(c), NEW d \in Replicas \ {c}
    PROVE  /\ Electing(d)' <=> Electing(d)
           /\ HasWon(d)' <=> HasWon(d)
           /\ Accepts(d)' = Accepts(d)
BY DEF Quiet, Electing, HasWon, Accepts, Writers

LEMMA QuietKeeps ==
    ASSUME IInv, Voting', Messages', NEW c \in Replicas, Quiet(c)
    PROVE  IInv'
<1>1. Electing(c)' => Accepts(c)' = {}
  BY DEF Quiet, Accepts
<1>2. Exclusive'
  BY <1>1, OthersKeep DEF IInv, Exclusive, Quiet
<1>3. ASSUME NEW d \in Replicas PROVE Campaign(d)'
  <2>1. CASE d = c
    BY <2>1 DEF Campaign, Quiet
  <2>2. CASE d # c /\ Electing(d)
    <3>1. Campaign(d)
      BY DEF IInv
    <3>2. /\ phase'[d] = phase[d] /\ coord'[d] = coord[d] /\ replies'[d] = replies[d]
          /\ started'[d] = started[d] /\ Writers' = Writers
          /\ \A m \in requests' : m.owner = d => m \in requests
      BY <2>2, <3>1 DEF Quiet, Campaign, Writers
    <3>3. ASSUME NEW r \in Replicas
          PROVE  replica[r].promised >= phase[d].proposal
                   => replica'[r].promised >= phase[d].proposal
      BY <2>2, <3>1 DEF Quiet, Campaign, IInv, Voting
    <3> QED
      BY <2>2, <3>1, <3>2, <3>3 DEF Campaign
  <2>3. CASE d # c /\ ~Electing(d)
    BY <2>3, OthersKeep DEF Campaign
  <2> QED
    BY <2>1, <2>2, <2>3
<1>4. ASSUME NEW d \in Replicas, HasWon(d)' PROVE Leads(d)'
  <2>1. Leads(d) /\ coord'[d].proposal = coord[d].proposal
    BY <1>4, OthersKeep DEF Quiet, IInv
  <2>2. ASSUME NEW r \in Replicas, Backs(r, d) PROVE Backs(r, d)'
    <3>1. replica'[r].promised >= coord'[d].proposal
      BY <2>1, <2>2 DEF Backs, Leads, Quiet, IInv, Voting
    <3>2. ASSUME NEW e \in Replicas \ {d}, Electing(e)',
                 phase'[e].proposal = coord'[d].proposal
          PROVE  r \notin Accepts(e)'
      BY <1>1, <2>1, <2>2, <3>2, OthersKeep DEF Backs, Quiet
    <3> QED
      BY <3>1, <3>2 DEF Backs
  <2>3. Backers(d) \subseteq Backers(d)'
    BY <2>2 DEF Backers
  <2>4. Cardinality(Backers(d)) <= Cardinality(Backers(d)')
    BY <2>3, SubsetCounted DEF Backers
  <2>5. Cardinality(Backers(d)') >= Quorum
    BY <2>1, <2>4, ReplicasCounted, ReplicasAssumption DEF Leads, Backers
  <2>6. ASSUME NEW e \in Replicas \ {d}, HasWon(e)'
        PROVE  coord'[e].proposal # coord'[d].proposal
    <3>1. CASE e = c
      BY <1>4, <2>1, <2>6, <3>1, OthersKeep DEF Quiet, Leads
    <3>2. CASE e # c
      BY <2>1, <2>6, <3>2, OthersKeep DEF Quiet, Leads
    <3> QED
      BY <3>1, <3>2
  <2> QED
    BY <2>1, <2>5, <2>6 DEF Leads
<1> QED
  BY <1>2, <1>3, <1>4 DEF IInv
-----------------------------------------------------------------------------
\* The messages of process c change, those of the others do not.
Sends(c) ==
    /\ Messages'
    /\ DOMAIN replies' = Replicas
    /\ \A d \in Replicas \ {c} : replies'[d] = replies[d]
    /\ \A m \in requests' : m.owner \in Replicas \ {c} => m \in requests

\* Every replica still votes and keeps its promise.
KeepsVoting ==
    /\ DOMAIN replica' = Replicas
    /\ \A r \in Replicas :
         /\ {"status", "promised"} \subseteq DOMAIN replica'[r]
         /\ replica'[r].status = "VOTING" /\ replica'[r].promised \in Nat
         /\ replica'[r].promised >= replica[r].promised

LEMMA SentShape ==
    ASSUME NEW c, NEW q, NEW to, NEW m \in SentBy(c, q, to)
    PROVE  /\ DOMAIN m = {"to", "owner", "request"}
           /\ m.to \in to /\ m.owner = c /\ m.request = q
BY DEF SentBy

LEMMA EndPhaseSends ==
    ASSUME IInv, NEW c \in Replicas, EndPhase(c)
    PROVE  Sends(c) /\ (UNCHANGED replica => KeepsVoting)
<1>1. Messages' /\ \A m \in requests' : m.owner \in Replicas \ {c} => m \in requests
  BY DisownedRequests, ReplicasAssumption DEF EndPhase, IInv, Messages
<1> QED
  BY <1>1 DEF EndPhase, Sends, KeepsVoting, IInv, Voting

LEMMA BroadcastSends ==
    ASSUME IInv, NEW c \in Replicas, NEW q, Broadcast(c, q),
           q.type = "implicit" => q.proposal \in Nat
    PROVE  Sends(c) /\ (UNCHANGED replica => KeepsVoting)
<1>1. ASSUME NEW m \in requests'
      PROVE  /\ DOMAIN m = {"to", "owner", "request"} /\ m.to \in Replicas
             /\ m.request.type = "implicit" => m.request.proposal \in Nat
             /\ m.owner \in Replicas \ {c} => m \in requests
  <2>1. CASE m \in Disowned(c)
    BY <2>1, DisownedRequests, ReplicasAssumption DEF IInv
  <2>2. CASE m \in SentBy(c, q, Replicas)
    BY <2>2, SentShape
  <2> QED
    BY <2>1, <2>2 DEF Broadcast
<1> QED
  BY <1>1 DEF Broadcast, Sends, Messages, KeepsVoting, IInv, Voting

LEMMA LearnSends ==
    ASSUME IInv, NEW c \in Replicas, NEW p, NEW n, NEW v, Learn(c, p, n, v)
    PROVE  Sends(c) /\ KeepsVoting
<1> DEFINE notice == Request("learned", p, n, PerformedBy(p, v, TRUE))
<1>0. notice.type # "implicit"
  BY DEF Request
<1> HIDE DEF notice
<1>l. /\ replica' = [replica EXCEPT ![c] = Handled(@, notice)]
      /\ requests' = Disowned(c) \cup SentBy(Nobody, notice, Replicas \ {c})
      /\ replies' = [replies EXCEPT ![c] = {}]
  BY DEF Learn, notice
<1>1. ASSUME NEW m \in requests'
      PROVE  /\ DOMAIN m = {"to", "owner", "request"} /\ m.to \in Replicas
             /\ m.request.type = "implicit" => m.request.proposal \in Nat
             /\ m.owner \in Replicas \ {c} => m \in requests
  <2>1. CASE m \in Disowned(c)
    BY <2>1, DisownedRequests, ReplicasAssumption DEF IInv
  <2>2. CASE m \in SentBy(Nobody, notice, Replicas \ {c})
    BY <1>0, <2>2, SentShape, ReplicasAssumption
  <2> QED
    BY <1>l, <2>1, <2>2
<1>2. Sends(c)
  BY <1>l, <1>1 DEF Sends, Messages, IInv, Voting
<1>3. /\ {"status", "promised"} \subseteq DOMAIN Handled(replica[c], notice)
      /\ Handled(replica[c], notice).status = "VOTING"
      /\ Handled(replica[c], notice).promised \in Nat
      /\ Handled(replica[c], notice).promised >= replica[c].promised
  BY <1>0, HandledKeeps DEF IInv, Voting
<1>4. KeepsVoting
  <2>0. Voting
    BY DEF IInv
  <2>1. /\ DOMAIN replica' = DOMAIN replica /\ replica'[c] = Handled(replica[c], notice)
        /\ \A r \in Replicas \ {c} : replica'[r] = replica[r]
    BY <1>l, <2>0 DEF Voting
  <2> QED
    BY <1>3, <2>0, <2>1 DEF KeepsVoting, Voting
<1> QED
  BY <1>2, <1>4

\* A step of c, given how its messages and the replicas change: what is left
\* is its own coordinator and phase.
LEMMA StepKeeps ==
    ASSUME IInv, NEW c \in Replicas, Sends(c), KeepsVoting, env' = env,
           NEW k, phase' = [phase EXCEPT ![c] = k], k.kind \notin {"implicit", "recover"},
           DOMAIN coord' = Replicas, \A d \in Replicas \ {c} : coord'[d] = coord[d],
           {"state", "proposal"} \subseteq DOMAIN coord'[c], coord'[c].state # "RECOVERING",
           started' \in [Writers -> BOOLEAN],
           \A d \in Writers \ {c} : started'[d] = started[d],
           (c \in Writers /\ started'[c]) \/ coord'[c].state = "ELECTING"
             => Leads(c) /\ coord'[c].proposal = coord[c].proposal
    PROVE  IInv'
<1>0. Voting /\ Writers' = Writers
  BY DEF IInv, Writers
<1>1. /\ phase'[c] = k /\ DOMAIN phase' = Replicas
      /\ \A d \in Replicas \ {c} : phase'[d] = phase[d]
  BY <1>0 DEF Voting
<1>2. Voting'
  BY <1>0, <1>1 DEF Voting, Sends, KeepsVoting
<1>3. Quiet(c)
  BY <1>0, <1>1 DEF Quiet, Sends, KeepsVoting, Electing, HasWon
<1> QED
  BY <1>2, <1>3, QuietKeeps DEF Sends
-----------------------------------------------------------------------------
\* The catch-up of an elected coordinator.
LEMMA CatchingUpKeeps ==
    ASSUME IInv, NEW c \in Replicas, CatchingUp(c)
    PROVE  IInv'
<1> USE DEF Phase
<1>0. /\ {"state", "proposal"} \subseteq DOMAIN coord[c] /\ DOMAIN coord = Replicas
      /\ coord[c].state # "RECOVERING" /\ started \in [Writers -> BOOLEAN]
  BY DEF IInv, Voting
<1>e. phase[c].kind # "implicit" =>
        ((c \in Writers /\ started[c]) \/ coord[c].state = "ELECTING" => Leads(c))
  BY DEF HasWon, Electing, IInv
<1>1. CASE Fill(c)
  <2>1. PICK p, n : /\ phase' = [phase EXCEPT ![c] = Phase("explicit", p, n, NoValue)]
                    /\ Broadcast(c, Request("explicit", p, n, NoAction))
    BY <1>1 DEF Fill
  <2>2. Sends(c) /\ KeepsVoting
    BY <1>1, <2>1, BroadcastSends DEF Fill, Request
  <2> QED
    BY <1>0, <1>1, <1>e, <2>1, <2>2, StepKeeps DEF Fill, Bounds
<1>2. CASE FillLearned(c)
  <2>1. PICK a : Learn(c, phase[c].proposal, phase[c].position, a.value)
    BY <1>2 DEF FillLearned
  <2>2. Sends(c) /\ KeepsVoting
    BY <2>1, LearnSends
  <2> QED
    BY <1>0, <1>2, <1>e, <2>2, StepKeeps DEF FillLearned, Bounds, Check
<1>3. CASE FillRejected(c)
  <2>1. PICK p, n : /\ phase' = [phase EXCEPT ![c] = Phase("explicit", p, n, NoValue)]
                    /\ Broadcast(c, Request("explicit", p, n, NoAction))
    BY <1>3 DEF FillRejected
  <2>2. Sends(c) /\ KeepsVoting
    BY <1>3, <2>1, BroadcastSends DEF FillRejected, Request
  <2> QED
    BY <1>0, <1>3, <1>e, <2>1, <2>2, StepKeeps DEF FillRejected, Bounds
<1>4. CASE FillPromised(c)
  <2>1. PICK p, n, v :
          /\ phase' = [phase EXCEPT ![c] = Phase("fill", p, n, v)]
          /\ Broadcast(c, Request("write", p, n, PerformedBy(p, v, FALSE)))
    BY <1>4 DEF FillPromised
  <2>2. Sends(c) /\ KeepsVoting
    BY <1>4, <2>1, BroadcastSends DEF FillPromised, Request
  <2> QED
    BY <1>0, <1>4, <1>e, <2>1, <2>2, StepKeeps DEF FillPromised, Bounds
<1>5. CASE FillAccepted(c)
  <2>1. Learn(c, phase[c].proposal, phase[c].position, phase[c].value)
    BY <1>5 DEF FillAccepted
  <2>2. Sends(c) /\ KeepsVoting
    BY <2>1, LearnSends
  <2> QED
    BY <1>0, <1>5, <1>e, <2>2, StepKeeps DEF FillAccepted, Bounds, Check
<1>6. CASE CatchUpTimeout(c)
  <2>1. Sends(c) /\ KeepsVoting
    BY <1>6, EndPhaseSends DEF CatchUpTimeout
  <2> QED
    BY <1>0, <1>6, <1>e, <2>1, StepKeeps DEF CatchUpTimeout, Check
<1> QED
  BY <1>1, <1>2, <1>3, <1>4, <1>5, <1>6 DEF CatchingUp
\* What a coordinator does once its election is decided.
LEMMA WritingKeeps ==
    ASSUME IInv, WriterContract, NEW c \in Writers,
           \/ ElectionLost(c) \/ Elected(c) \/ append(c) \/ truncate(c)
           \/ WriteAccepted(c) \/ WriteRejected(c)
    PROVE  IInv'
<1> USE DEF Phase
<1>0. /\ {"state", "proposal"} \subseteq DOMAIN coord[c] /\ DOMAIN coord = Replicas
      /\ coord[c].state # "RECOVERING" /\ started \in [Writers -> BOOLEAN]
      /\ c \in Replicas
  BY DEF IInv, Voting
<1>e. phase[c].kind # "implicit" =>
        ((c \in Writers /\ started[c]) \/ coord[c].state = "ELECTING" => Leads(c))
  BY <1>0 DEF HasWon, Electing, IInv
<1>1. CASE ElectionLost(c)
  <2>1. ~started[c]
    BY <1>0, <1>1 DEF ElectionLost, IInv, Campaign, Electing
  <2>2. Sends(c) /\ KeepsVoting
    BY <1>0, <1>1, EndPhaseSends DEF ElectionLost
  <2> QED
    BY <1>0, <1>1, <2>1, <2>2, StepKeeps
    DEF ElectionLost, Bounds, NewCoordinator, Coordinator, Idle
<1>2. CASE Elected(c)
  <2>1. Leads(c)
    BY <1>2, <1>e DEF Elected
  <2>2. Sends(c) /\ KeepsVoting
    BY <1>2 DEF Elected, Sends, KeepsVoting, IInv, Voting, Messages
  <2> QED
    BY <1>0, <1>2, <2>1, <2>2, StepKeeps DEF Elected, Bounds, Idle
<1>3. ASSUME NEW v, Perform(c, v) PROVE IInv'
  <2>1. Leads(c)
    BY <1>0, <1>3 DEF Perform, HasWon, IInv
  <2>2. Sends(c) /\ KeepsVoting
    BY <1>0, <1>3, BroadcastSends DEF Perform, Request
  <2> QED
    BY <1>0, <1>3, <2>1, <2>2, StepKeeps DEF Perform, Bounds
<1>4. CASE WriteAccepted(c)
  <2>1. Sends(c) /\ KeepsVoting
    BY <1>0, <1>4, LearnSends DEF WriteAccepted
  <2> QED
    BY <1>0, <1>4, <1>e, <2>1, StepKeeps DEF WriteAccepted, Bounds, Idle
<1>5. CASE WriteRejected(c)
  <2>1. Sends(c) /\ KeepsVoting
    BY <1>0, <1>5, EndPhaseSends DEF WriteRejected
  <2>2. started' = [started EXCEPT ![c] = FALSE]
    BY <1>5 DEF WriteRejected
  <2>3. PICK q : coord' = [coord EXCEPT ![c].state = "ELECTED", ![c].proposal = q]
    BY <1>5 DEF WriteRejected
  <2>4. /\ DOMAIN coord' = Replicas /\ \A d \in Replicas \ {c} : coord'[d] = coord[d]
        /\ {"state", "proposal"} \subseteq DOMAIN coord'[c] /\ coord'[c].state = "ELECTED"
    BY <1>0, <2>3
  <2>5. phase' = [phase EXCEPT ![c] = Idle] /\ env' = env
    BY <1>5 DEF WriteRejected, Bounds
  <2> QED
    BY <1>0, <2>1, <2>2, <2>4, <2>5, StepKeeps DEF Idle
<1> QED
  BY <1>1, <1>2, <1>3, <1>4, <1>5 DEF append, truncate

\* A process that ends forgets its election.
LEMMA RestartKeeps ==
    ASSUME IInv, NEW c \in Replicas, Crash(c) \/ Abort(c)
    PROVE  IInv'
<1>0. DOMAIN coord = Replicas /\ started \in [Writers -> BOOLEAN]
  BY DEF IInv, Voting
<1>1. Restarted(c) /\ EndPhase(c) /\ UNCHANGED <<replica, env>>
  BY DEF Crash, Abort, Bounds
<1>2. Sends(c) /\ KeepsVoting
  BY <1>1, EndPhaseSends
<1> QED
  BY <1>0, <1>1, <1>2, StepKeeps
  DEF Restarted, NewCoordinator, Coordinator, Idle, Phase

\* No replica recovers: none has lost its storage.
LEMMA NoneRecovers ==
    ASSUME IInv, \A e \in Environments : e.wipeable = {},
           NEW c \in Replicas, Recovering(c) \/ Wipe(c)
    PROVE  FALSE
BY DEF IInv, Voting, Recovering, RecoverRequest, CatchUpRange, Recovered,
       RecoverResponse, Wipe
-----------------------------------------------------------------------------
\* An election begins with no reply and one request for every replica.
LEMMA StartKeeps ==
    ASSUME IInv, NEW c \in Writers, Start(c)
    PROVE  IInv'
<1> DEFINE p == replica[c].promised + 1
           q == Request("implicit", p, 0, NoAction)
<1>0. c \in Replicas /\ Voting /\ Messages /\ p \in Nat
  BY DEF IInv, Voting
<1>1. q.type = "implicit" /\ q.proposal = p
  BY DEF Request
<1>2. /\ coord' = [coord EXCEPT ![c] = Coordinator("ELECTING", p, 0, 0)]
      /\ phase' = [phase EXCEPT ![c] = Phase("implicit", p, 0, NoValue)]
      /\ Broadcast(c, q) /\ ~started[c] /\ UNCHANGED <<replica, started, env>>
  BY DEF Start, Bounds
<1> HIDE DEF q, p
<1>3. Sends(c) /\ KeepsVoting
  BY <1>0, <1>1, <1>2, BroadcastSends
<1>4. /\ phase'[c].kind = "implicit" /\ phase'[c].proposal = p
      /\ coord'[c].state = "ELECTING" /\ coord'[c].proposal = p
      /\ {"state", "proposal"} \subseteq DOMAIN coord'[c]
      /\ DOMAIN phase' = Replicas /\ DOMAIN coord' = Replicas
      /\ \A d \in Replicas \ {c} : phase'[d] = phase[d] /\ coord'[d] = coord[d]
      /\ replies'[c] = {} /\ Writers' = Writers
  BY <1>0, <1>2 DEF Phase, Coordinator, Voting, Broadcast, Writers
<1>5. Voting'
  <2>1. replica' = replica /\ started' = started /\ env' = env /\ DOMAIN replies' = Replicas
    BY <1>2, <1>3 DEF Sends
  <2> QED
    BY <1>0, <1>4, <2>1 DEF Voting
<1>6. ASSUME NEW m \in requests', m.owner = c
      PROVE  m \in SentBy(c, q, Replicas)
  BY <1>0, <1>2, <1>6, DisownedRequests DEF Broadcast
<1>7. ASSUME NEW m \in SentBy(c, q, Replicas), NEW n \in SentBy(c, q, Replicas), n.to = m.to
      PROVE  n = m
  BY <1>7 DEF SentBy
<1>8. Campaign(c)'
  <2>1. ASSUME NEW m \in requests', m.owner = c
        PROVE  /\ m.request.type = "implicit" /\ m.request.proposal = p
               /\ \A n \in requests' : n.owner = c /\ n.to = m.to => n = m
    BY <1>1, <1>6, <1>7, <2>1, SentShape
  <2>2. /\ c \in Writers' /\ ~started'[c] /\ p \in Nat
        /\ coord'[c].state = "ELECTING" /\ coord'[c].proposal = phase'[c].proposal
        /\ phase'[c].proposal = p /\ replies'[c] = {}
    BY <1>0, <1>2, <1>4
  <2> QED
    BY <2>1, <2>2 DEF Campaign
<1>9. ~HasWon(c)'
  BY <1>2, <1>4 DEF HasWon, Electing
<1>10. Quiet(c)
  BY <1>2, <1>3, <1>4, <1>8, <1>9 DEF Quiet, Sends, KeepsVoting
<1> QED
  BY <1>0, <1>3, <1>5, <1>10, QuietKeeps DEF Sends

\* A coordinator that a quorum promised leads: a replica of this quorum is in
\* that of any other coordinator, and accepted a number from one of them.
LEMMA QuorumElects ==
    ASSUME IInv, NEW c \in Replicas, Electing(c), NEW S \in FirstQuorums(c), Nacks(S) = {}
    PROVE  Leads(c)
<1> DEFINE Q == {x.from : x \in S}
           f == [x \in S |-> x.from]
<1>0. /\ Campaign(c) /\ S \subseteq replies[c] /\ Cardinality(S) = Quorum
      /\ coord[c].proposal = phase[c].proposal /\ coord[c].proposal \in Nat
  BY DEF IInv, FirstQuorums, Campaign
<1>1. ASSUME NEW x \in S PROVE x.reply.type = "ACCEPT" /\ x.from \in Accepts(c)
  <2>1. x.reply.type # "REJECT"
    BY DEF Nacks
  <2>2. x.reply.type = "ACCEPT"
    BY <1>0, <2>1 DEF Campaign
  <2> QED
    BY <1>0, <2>2 DEF Accepts
<1>2. Q \subseteq Replicas /\ Q \subseteq Accepts(c)
  BY <1>0, <1>1 DEF Campaign
<1>3. Cardinality(Q) >= Quorum
  <2>1. f \in [S -> Q] /\ \A a, b \in S : f[a] = f[b] => a = b
    BY <1>0 DEF Campaign
  <2>2. f \in Injection(S, Q)
    BY <2>1 DEF Injection, IsInjective
  <2>3. IsFiniteSet(Q)
    BY <1>2, ReplicasCounted
  <2> HIDE DEF f, Q
  <2> QED
    BY <1>0, <2>2, <2>3, FS_Injection
<1>4. Q \subseteq Backers(c)
  <2> SUFFICES ASSUME NEW x \in S PROVE x.from \in Replicas /\ Backs(x.from, c)
    BY DEF Backers
  <2>1. x.from \in Replicas /\ replica[x.from].promised >= coord[c].proposal
    BY <1>0, <1>1 DEF Campaign
  <2>2. ASSUME NEW d \in Replicas \ {c}, Electing(d), phase[d].proposal = coord[c].proposal
        PROVE  x.from \notin Accepts(d)
    BY <1>0, <1>1, <2>2 DEF IInv, Exclusive
  <2> QED
    BY <2>1, <2>2 DEF Backs
<1> HIDE DEF Q
<1>5. Cardinality(Backers(c)) >= Quorum
  <2>1. Cardinality(Q) <= Cardinality(Backers(c))
    BY <1>4, SubsetCounted DEF Backers
  <2> QED
    BY <1>2, <1>3, <2>1, ReplicasCounted, ReplicasAssumption DEF Backers
<1>6. ASSUME NEW d \in Replicas \ {c}, HasWon(d), coord[d].proposal = coord[c].proposal
      PROVE  FALSE
  <2>1. Cardinality(Backers(d)) >= Quorum /\ Backers(d) \subseteq Replicas
    BY <1>6 DEF IInv, Leads, Backers
  <2>2. PICK r \in Q : r \in Backers(d)
    BY <1>2, <1>3, <2>1, QuorumsMeet
  <2> QED
    BY <1>0, <1>2, <1>6, <2>2 DEF Backers, Backs
<1> QED
  BY <1>0, <1>5, <1>6 DEF Leads

LEMMA ElectionWonKeeps ==
    ASSUME IInv, NEW c \in Writers, ElectionWon(c)
    PROVE  IInv'
<1>0. /\ {"state", "proposal"} \subseteq DOMAIN coord[c] /\ DOMAIN coord = Replicas
      /\ coord[c].state # "RECOVERING" /\ started \in [Writers -> BOOLEAN]
      /\ c \in Replicas
  BY DEF IInv, Voting
<1>1. Leads(c)
  BY <1>0, QuorumElects DEF ElectionWon, Electing
<1>2. PICK i, p : coord' = [coord EXCEPT ![c].index = i, ![c].fill = p]
  BY DEF ElectionWon
<1>3. /\ DOMAIN coord' = Replicas /\ \A d \in Replicas \ {c} : coord'[d] = coord[d]
      /\ {"state", "proposal"} \subseteq DOMAIN coord'[c]
      /\ coord'[c].state = coord[c].state /\ coord'[c].proposal = coord[c].proposal
  BY <1>0, <1>2
<1>4. Sends(c) /\ KeepsVoting
  BY <1>0, EndPhaseSends DEF ElectionWon
<1>5. phase' = [phase EXCEPT ![c] = Check] /\ UNCHANGED <<started, env>>
  BY DEF ElectionWon, Bounds
<1> QED
  BY <1>0, <1>1, <1>3, <1>4, <1>5, StepKeeps DEF Check, Phase
-----------------------------------------------------------------------------
\* A replica answers one request: if it accepts an implicit promise, no other
\* coordinator has, or can get, its promise for the same number.
LEMMA DeliverKeeps ==
    ASSUME IInv, Deliver
    PROVE  IInv'
<1>0. Voting /\ Messages /\ \A c \in Replicas : Campaign(c)
  BY DEF IInv
<1>p. PICK m \in requests :
      LET reply == OutcomeOf(replica[m.to], m.request).reply
      IN  /\ replica' = [replica EXCEPT ![m.to] = Handled(@, m.request)]
          /\ requests' \subseteq requests \ {m}
          /\ replies' = IF m.owner = Nobody \/ reply = Silent THEN replies
                        ELSE [replies EXCEPT ![m.owner] =
                                @ \cup {[from |-> m.to, reply |-> reply]}]
          /\ UNCHANGED <<coord, phase, started, env>>
  BY DEF Deliver, Bounds
<1> DEFINE s == m.to
           o == m.owner
           reply == OutcomeOf(replica[s], m.request).reply
           x == [from |-> s, reply |-> reply]
<1>u. /\ coord' = coord /\ phase' = phase /\ started' = started /\ env' = env
      /\ requests' \subseteq requests \ {m}
  BY <1>p
<1>1. s \in Replicas /\ (m.request.type = "implicit" => m.request.proposal \in Nat)
  BY <1>0 DEF Messages
<1>2. KeepsVoting /\ replica'[s].promised = OutcomeOf(replica[s], m.request).promised
  <2>1. /\ {"status", "promised"} \subseteq DOMAIN Handled(replica[s], m.request)
        /\ Handled(replica[s], m.request).status = "VOTING"
        /\ Handled(replica[s], m.request).promised \in Nat
        /\ Handled(replica[s], m.request).promised >= replica[s].promised
        /\ Handled(replica[s], m.request).promised = OutcomeOf(replica[s], m.request).promised
    <3>1. /\ {"status", "promised"} \subseteq DOMAIN replica[s]
          /\ replica[s].status = "VOTING" /\ replica[s].promised \in Nat
      BY <1>0, <1>1 DEF Voting
    <3> QED
      BY <1>1, <3>1, HandledKeeps
  <2>2. /\ DOMAIN replica' = DOMAIN replica /\ replica'[s] = Handled(replica[s], m.request)
        /\ \A r \in Replicas \ {s} : replica'[r] = replica[r]
    BY <1>0, <1>1, <1>p DEF Voting
  <2>3. ASSUME NEW r \in Replicas
        PROVE  /\ {"status", "promised"} \subseteq DOMAIN replica'[r]
               /\ replica'[r].status = "VOTING" /\ replica'[r].promised \in Nat
               /\ replica'[r].promised >= replica[r].promised
    <3>1. CASE r = s
      BY <2>1, <2>2, <3>1
    <3>2. CASE r # s
      BY <1>0, <2>2, <3>2 DEF Voting
    <3> QED
      BY <3>1, <3>2
  <2>4. DOMAIN replica' = Replicas
    BY <1>0, <2>2 DEF Voting
  <2> QED
    BY <2>1, <2>2, <2>3, <2>4 DEF KeepsVoting
<1>k. ASSUME NEW r \in Replicas
      PROVE  /\ replica[r].promised \in Nat /\ replica'[r].promised \in Nat
             /\ replica'[r].promised >= replica[r].promised
  BY <1>0, <1>2 DEF KeepsVoting, Voting
<1>3. /\ DOMAIN replies' = Replicas
      /\ \A d \in Replicas : replies[d] \subseteq replies'[d]
      /\ \A d \in Replicas : \A y \in replies'[d] : y \notin replies[d] => d = o /\ y = x
  BY <1>0, <1>p DEF Voting
<1>4. Voting'
  BY <1>0, <1>2, <1>3, <1>u DEF Voting, KeepsVoting, Writers
<1>5. Messages'
  BY <1>0, <1>u DEF Messages
<1>6. ASSUME NEW d \in Replicas PROVE (Electing(d)' <=> Electing(d)) /\ (HasWon(d)' <=> HasWon(d))
  BY <1>u DEF Electing, HasWon, Writers
<1>7. ASSUME o \in Replicas, Electing(o)
      PROVE  /\ phase[o].proposal \in Nat /\ reply.type \in {"ACCEPT", "REJECT"}
             /\ reply.type = "ACCEPT" =>
                  /\ replica[s].promised < phase[o].proposal
                  /\ replica'[s].promised = phase[o].proposal
             /\ \A y \in replies[o] : y.from # s
             /\ \A n \in requests' : n.owner = o => n.to # s
  <2>1. m.request.type = "implicit" /\ m.request.proposal = phase[o].proposal
    BY <1>0, <1>7 DEF Campaign
  <2>2. replica[s].status = "VOTING" /\ replica[s].promised \in Nat
    BY <1>0, <1>1 DEF Voting
  <2>3. /\ reply.type \in {"ACCEPT", "REJECT"}
        /\ reply.type = "ACCEPT" =>
             /\ replica[s].promised < phase[o].proposal
             /\ replica'[s].promised = phase[o].proposal
    BY <1>1, <1>2, <2>1, <2>2, ImplicitReply
  <2> HIDE DEF reply
  <2> QED
    BY <1>0, <1>7, <1>u, <2>3 DEF Campaign
<1> HIDE DEF x, reply
<1>x. x.from = s /\ x.reply = reply
  BY DEF x
<1>8. ASSUME NEW d \in Replicas, Electing(d), NEW r \in Accepts(d)', r \notin Accepts(d)
      PROVE  d = o /\ r = s /\ replica[s].promised < phase[d].proposal
  <2>1. PICK y \in replies'[d] : y.reply.type = "ACCEPT" /\ r = y.from
    BY <1>8 DEF Accepts
  <2>2. y \notin replies[d]
    BY <1>8, <2>1 DEF Accepts
  <2>3. d = o /\ y = x
    BY <1>3, <2>1, <2>2
  <2> QED
    BY <1>7, <1>8, <1>x, <2>1, <2>3
<1>9. ASSUME NEW d \in Replicas, Electing(d), NEW r \in Accepts(d)
      PROVE  /\ r \in Replicas /\ replica[r].promised >= phase[d].proposal
             /\ replica[r].promised \in Nat /\ phase[d].proposal \in Nat
  BY <1>0, <1>9 DEF Accepts, Campaign, Voting
<1>10. Exclusive'
  <2> SUFFICES ASSUME NEW c \in Replicas, NEW d \in Replicas \ {c}, Electing(c), Electing(d),
                      phase[c].proposal = phase[d].proposal,
                      NEW r \in Accepts(c)' \cap Accepts(d)'
               PROVE  FALSE
    BY <1>6, <1>u DEF Exclusive
  <2>1. r \notin Accepts(c) \/ r \notin Accepts(d)
    BY DEF IInv, Exclusive
  <2>2. CASE r \notin Accepts(c)
    <3>1. c = o /\ r = s /\ replica[r].promised < phase[c].proposal
      BY <1>8, <2>2
    <3>2. r \in Accepts(d)
      BY <1>8, <3>1
    <3> QED
      BY <1>9, <3>1, <3>2
  <2>3. CASE r \notin Accepts(d)
    <3>1. d = o /\ r = s /\ replica[r].promised < phase[d].proposal
      BY <1>8, <2>3
    <3>2. r \in Accepts(c)
      BY <1>8, <3>1
    <3> QED
      BY <1>9, <3>1, <3>2
  <2> QED
    BY <2>1, <2>2, <2>3
<1>11. ASSUME NEW c \in Replicas PROVE Campaign(c)'
  <2> SUFFICES ASSUME Electing(c) PROVE Campaign(c)'
    BY <1>6 DEF Campaign
  <2>1. /\ c \in Writers' /\ ~started'[c]
        /\ coord'[c].state = "ELECTING" /\ coord'[c].proposal = phase'[c].proposal
        /\ phase'[c].proposal \in Nat
    BY <1>0, <1>u DEF Campaign, Writers
  <2>2. ASSUME NEW n \in requests', n.owner = c
        PROVE  /\ n.request.type = "implicit" /\ n.request.proposal = phase'[c].proposal
               /\ \A y \in replies'[c] : y.from # n.to
               /\ \A k \in requests' : k.owner = c /\ k.to = n.to => k = n
    <3>1. /\ n \in requests
          /\ n.request.type = "implicit" /\ n.request.proposal = phase[c].proposal
          /\ \A y \in replies[c] : y.from # n.to
          /\ \A k \in requests : k.owner = c /\ k.to = n.to => k = n
      BY <1>0, <1>u, <2>2 DEF Campaign
    <3>2. ASSUME NEW y \in replies'[c], y \notin replies[c] PROVE y.from # n.to
      BY <1>3, <1>7, <1>x, <2>2, <3>2
    <3> QED
      BY <1>u, <3>1, <3>2
  <2>3. ASSUME NEW y \in replies'[c]
        PROVE  /\ y.from \in Replicas /\ y.reply.type \in {"ACCEPT", "REJECT"}
               /\ y.reply.type = "ACCEPT" => replica'[y.from].promised >= phase'[c].proposal
               /\ \A z \in replies'[c] : z.from = y.from => z = y
    <3>1. CASE y \in replies[c]
      <4>1. /\ y.from \in Replicas /\ y.reply.type \in {"ACCEPT", "REJECT"}
            /\ y.reply.type = "ACCEPT" => replica[y.from].promised >= phase[c].proposal
            /\ phase[c].proposal \in Nat
        BY <1>0, <3>1 DEF Campaign
      <4>2. y.reply.type = "ACCEPT" => replica'[y.from].promised >= phase'[c].proposal
        <5>1. phase'[c].proposal = phase[c].proposal /\ phase[c].proposal \in Nat
          BY <1>0, <1>u DEF Campaign
        <5> QED
          BY <1>k, <4>1, <5>1
      <4>3. ASSUME NEW z \in replies'[c], z.from = y.from PROVE z = y
        <5>1. CASE z \in replies[c]
          BY <1>0, <3>1, <4>3, <5>1 DEF Campaign
        <5>2. CASE z \notin replies[c]
          BY <1>3, <1>7, <1>x, <3>1, <4>3, <5>2
        <5> QED
          BY <5>1, <5>2
      <4> QED
        BY <4>1, <4>2, <4>3
    <3>2. CASE y \notin replies[c]
      <4>1. c = o /\ y = x
        BY <1>3, <3>2
      <4>2. \A z \in replies'[c] : z.from = y.from => z = y
        BY <1>3, <1>7, <1>x, <4>1
      <4>3. y.reply.type = "ACCEPT" => replica'[y.from].promised >= phase'[c].proposal
        BY <1>7, <1>u, <1>x, <4>1
      <4> QED
        BY <1>1, <1>7, <1>x, <4>1, <4>2, <4>3
    <3> QED
      BY <3>1, <3>2
  <2> QED
    BY <2>1, <2>2, <2>3 DEF Campaign
<1>12. ASSUME NEW c \in Replicas, HasWon(c)' PROVE Leads(c)'
  <2>1. Leads(c)
    BY <1>6, <1>12 DEF IInv
  <2>2. ASSUME NEW r \in Replicas, Backs(r, c) PROVE Backs(r, c)'
    <3>1. replica[r].promised >= coord[c].proposal /\ replica[r].promised \in Nat
          /\ coord[c].proposal \in Nat
      BY <1>0, <2>1, <2>2 DEF Backs, Voting, Leads
    <3>2. replica'[r].promised >= coord'[c].proposal
      BY <1>k, <1>u, <2>1, <3>1
    <3>3. ASSUME NEW d \in Replicas \ {c}, Electing(d), phase[d].proposal = coord[c].proposal
          PROVE  r \notin Accepts(d)'
      BY <1>8, <2>2, <3>1, <3>3 DEF Backs
    <3> QED
      BY <1>6, <1>u, <3>2, <3>3 DEF Backs
  <2>3. Backers(c) \subseteq Backers(c)'
    BY <2>2 DEF Backers
  <2>4. Cardinality(Backers(c)) <= Cardinality(Backers(c)')
    BY <2>3, SubsetCounted DEF Backers
  <2>5. Cardinality(Backers(c)') >= Quorum
    BY <2>1, <2>4, ReplicasCounted, ReplicasAssumption DEF Leads, Backers
  <2> QED
    BY <1>6, <1>u, <2>1, <2>5 DEF Leads
<1> QED
  BY <1>4, <1>5, <1>10, <1>11, <1>12 DEF IInv
-----------------------------------------------------------------------------
LEMMA InitElects == Init => IInv
<1> SUFFICES ASSUME Init PROVE IInv
  OBVIOUS
<1>1. ASSUME NEW r \in Replicas
      PROVE  /\ {"status", "promised"} \subseteq DOMAIN replica[r]
             /\ replica[r].status = "VOTING" /\ replica[r].promised = 1
  BY DEF Init, NewReplica
<1>2. Voting
  BY <1>1, ReplicasAssumption
  DEF Voting, Init, Environment, Writers, NewCoordinator, Coordinator, Idle, Phase
<1>3. ASSUME NEW c \in Replicas PROVE ~Electing(c) /\ ~HasWon(c)
  BY DEF Init, Electing, HasWon, NewCoordinator, Coordinator, Idle, Phase
<1> QED
  BY <1>2, <1>3 DEF IInv, Messages, Exclusive, Campaign, Init

\* Two started writers never have the same proposal number
\* (CoordinatorProcess::elect with ReplicaProcess::promise), whatever the
\* interleaving of the processes and their messages, the crashes and the
\* time-outs, as long as no replica loses its storage.
THEOREM LeaderIsSole ==
    ASSUME WriterContract, \A e \in Environments : e.wipeable = {}
    PROVE  Spec => []SoleLeader
<1>1. IInv /\ [Next]_vars => IInv'
  <2> SUFFICES ASSUME IInv, [Next]_vars PROVE IInv'
    OBVIOUS
  <2>1. CASE Deliver
    BY <2>1, DeliverKeeps
  <2>2. ASSUME NEW c \in Writers, Writing(c) PROVE IInv'
    BY <2>2, StartKeeps, ElectionWonKeeps, WritingKeeps DEF Writing
  <2>3. ASSUME NEW r \in Replicas,
               CatchingUp(r) \/ Recovering(r) \/ Crash(r) \/ Abort(r) \/ Wipe(r)
        PROVE  IInv'
    BY <2>3, CatchingUpKeeps, RestartKeeps, NoneRecovers
  <2>4. CASE UNCHANGED vars
    <3>0. /\ replica' = replica /\ coord' = coord /\ phase' = phase /\ started' = started
          /\ requests' = requests /\ replies' = replies /\ env' = env
      BY <2>4 DEF vars
    <3>1. ASSUME NEW c \in Replicas
          PROVE  (Electing(c)' <=> Electing(c)) /\ (HasWon(c)' <=> HasWon(c))
      BY <3>0 DEF Electing, HasWon, Writers
    <3>2. ASSUME NEW c \in Replicas PROVE Accepts(c)' = Accepts(c)
      BY <3>0 DEF Accepts
    <3>3. ASSUME NEW c \in Replicas, Campaign(c) PROVE Campaign(c)'
      BY <3>0, <3>3, ZenonT(60) DEF Campaign, Electing, Writers
    <3>4. ASSUME NEW c \in Replicas PROVE Backers(c)' = Backers(c)
      BY <3>0, <3>1, <3>2 DEF Backers, Backs
    <3>5. ASSUME NEW c \in Replicas, Leads(c) PROVE Leads(c)'
      BY <3>0, <3>1, <3>4, <3>5 DEF Leads
    <3>6. Voting' /\ Messages'
      BY <3>0 DEF IInv, Voting, Messages, Writers
    <3>7. Exclusive'
      BY <3>0, <3>1, <3>2 DEF IInv, Exclusive
    <3> QED
      BY <3>1, <3>3, <3>5, <3>6, <3>7 DEF IInv
  <2> QED
    BY <2>1, <2>2, <2>3, <2>4 DEF Next
<1>2. IInv => SoleLeader
  BY DEF IInv, SoleLeader, HasWon, Leads, Voting
<1> QED
  BY <1>1, <1>2, InitElects, PTL DEF Spec
=============================================================================
