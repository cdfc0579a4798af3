-------------------------- MODULE Truncation_lemmas --------------------------
(***************************************************************************)
(* The inductive invariant of Truncation_proofs: whatever truncates a log  *)
(* is covered by a decided truncation.  How the replicas keep it, how the  *)
(* steps of a process that ends a phase, broadcasts or learns keep it, and *)
(* what a process concludes from the replies of a quorum.                  *)
(***************************************************************************)
EXTENDS ReplicatedLog, FiniteSetTheorems, TLAPS

LEMMA NatHasLeast ==
    ASSUME NEW T \in SUBSET Nat, T # {}
    PROVE  \E x \in T : \A y \in T : x <= y
<1>1. PICK x \in T : \A y \in T : ~(<<y, x>> \in OpToRel(<, Nat))
  BY NatLessThanWellFounded, WFMin, Zenon
<1>2. \A y \in T : ~(y < x)
  BY <1>1, Zenon DEF OpToRel
<1> QED
  BY <1>2

\* A finite set has an element where a function is largest: a least set
\* without one would leave a smaller one without one.
LEMMA FiniteHasLargest ==
    ASSUME NEW S, IsFiniteSet(S), S # {}, NEW f \in [S -> Nat]
    PROVE  \E x \in S : \A y \in S : f[y] <= f[x]
<1> DEFINE Peak(U) == \E x \in U : \A y \in U : f[y] <= f[x]
           Flat == {U \in SUBSET S : U # {} /\ ~Peak(U)}
           Sizes == {n \in Nat : \E U \in Flat : Cardinality(U) = n}
<1>f. ASSUME NEW U \in SUBSET S PROVE IsFiniteSet(U) /\ Cardinality(U) \in Nat
  BY FS_Subset, FS_CardinalityType
<1>1. SUFFICES ASSUME Flat # {} PROVE FALSE
  <2>1. S \notin Flat
    BY <1>1
  <2> QED
    BY <2>1
<1>2. PICK n \in Sizes : \A k \in Sizes : n <= k
  <2>1. Sizes \in SUBSET Nat /\ Sizes # {}
    BY <1>1, <1>f
  <2> QED
    BY <2>1, NatHasLeast, Zenon
<1>3. PICK U \in Flat : Cardinality(U) = n
  OBVIOUS
<1>4. PICK u \in U : TRUE
  OBVIOUS
<1> DEFINE V == U \ {u}
<1>5. V \in SUBSET S /\ Cardinality(V) = n - 1 /\ n - 1 \in Nat
  <2>1. U \in SUBSET S /\ V \in SUBSET S
    OBVIOUS
  <2>2. IsFiniteSet(U) /\ Cardinality(V) \in Nat
    BY <1>f, <2>1
  <2>3. Cardinality(V) = Cardinality(U) - 1
    BY <1>4, <2>2, FS_RemoveElement, Zenon
  <2> QED
    BY <1>3, <2>1, <2>2, <2>3
<1>6. V = {} \/ Peak(V)
  <2>1. n - 1 \notin Sizes
    BY <1>2
  <2> QED
    BY <1>5, <2>1, Zenon
<1>7. CASE V = {}
  <2>1. \A y \in U : f[y] <= f[u]
    BY <1>7, <1>4
  <2> QED
    BY <2>1
<1>8. CASE Peak(V)
  <2>1. PICK v \in V : \A y \in V : f[y] <= f[v]
    BY <1>8
  <2>2. \A y \in U : y = u \/ y \in V
    OBVIOUS
  <2>3. f[u] \in Nat /\ f[v] \in Nat /\ \A y \in U : f[y] \in Nat
    OBVIOUS
  <2>4. (\A y \in U : f[y] <= f[u]) \/ (\A y \in U : f[y] <= f[v])
    BY <2>1, <2>2, <2>3
  <2> QED
    BY <2>4
<1> QED
  BY <1>6, <1>7, <1>8
-----------------------------------------------------------------------------
\* The decisions D include a truncation to n or beyond.
Justified(D, n) ==
    \E d \in D : d.value.type = "TRUNCATE" /\ d.value.arg \in Nat /\ d.value.arg >= n

\* A value for the position n: a tombstone is covered by a truncation.
SoundValue(D, v, n) ==
    /\ v.type = "TOMBSTONE" => Justified(D, n + 1)
    /\ v.type = "TRUNCATE" => v.arg \in Nat

SoundAction(D, a, n) ==
    /\ DOMAIN a = {"promised", "performed", "learned", "value"}
    /\ a.promised \in Nat /\ a.performed \in Nat
    /\ SoundValue(D, a.value, n)
    /\ a.learned /\ a.value.type = "TRUNCATE" => Justified(D, a.value.arg)

SoundReplica(D, r) ==
    /\ DOMAIN r = {"status", "promised", "begin", "end", "log"}
    /\ r.promised \in Nat /\ r.begin \in Nat /\ r.end \in Position
    /\ r.begin > 0 => Justified(D, r.begin)
    /\ \A n \in Position : SoundAction(D, r.log[n], n)

SoundRequest(D, q) ==
    /\ q.proposal \in Nat /\ q.position \in Position
    /\ SoundAction(D, q.action, q.position)

SoundReply(D, y, n) ==
    /\ y.proposal \in Nat /\ y.position \in Position
    /\ SoundAction(D, y.action, n)

\* The coordinator k, the phase f and the replies Y of a process.
SoundProcess(D, k, f, Y) ==
    /\ DOMAIN k = {"state", "proposal", "from", "index", "fill"}
    /\ {k.proposal, k.from, k.index, k.fill} \subseteq Nat
    /\ f.proposal \in Nat /\ f.position \in Position
    /\ SoundValue(D, f.value, f.position)
    /\ f.kind \in {"check", "explicit", "fill"} => k.index \in Position
    /\ f.kind = "check" => f = Check
    /\ IsFiniteSet(Y) /\ \A x \in Y : SoundReply(D, x.reply, f.position)

SoundMessage(m) ==
    /\ DOMAIN m = {"to", "owner", "request"} /\ m.to \in Replicas
    /\ SoundRequest(decided, m.request)
    /\ m.owner \in Replicas => m.request.position = phase[m.owner].position

JInv ==
    /\ env \in Environments
    /\ DOMAIN replica = Replicas /\ DOMAIN coord = Replicas
    /\ DOMAIN phase = Replicas /\ DOMAIN replies = Replicas
    /\ \A r \in Replicas :
         /\ SoundReplica(decided, replica[r])
         /\ SoundProcess(decided, coord[r], phase[r], replies[r])
    /\ \A m \in requests : SoundMessage(m)
-----------------------------------------------------------------------------
\* What is covered stays covered: decisions are never taken back.
LEMMA StaysSound ==
    ASSUME NEW D, NEW E, D \subseteq E
    PROVE  /\ \A r : SoundReplica(D, r) => SoundReplica(E, r)
           /\ \A q : SoundRequest(D, q) => SoundRequest(E, q)
           /\ \A k, f, Y : SoundProcess(D, k, f, Y) => SoundProcess(E, k, f, Y)
<1>1. \A n : Justified(D, n) => Justified(E, n)
  BY DEF Justified
<1>2. \A v, n : SoundValue(D, v, n) => SoundValue(E, v, n)
  BY <1>1 DEF SoundValue
<1>3. \A a, n : SoundAction(D, a, n) => SoundAction(E, a, n)
  BY <1>1, <1>2 DEF SoundAction
<1> QED
  BY <1>1, <1>2, <1>3 DEF SoundReplica, SoundRequest, SoundProcess, SoundReply

LEMMA NoActionSound ==
    ASSUME NEW D, NEW n
    PROVE  SoundAction(D, NoAction, n)
BY DEF NoAction, NoValue, SoundAction, SoundValue

LEMMA PersistedSound ==
    ASSUME NEW D, NEW r, SoundReplica(D, r), NEW n \in Position, NEW a, SoundAction(D, a, n)
    PROVE  SoundReplica(D, Persisted(r, n, a))
<1> DEFINE b == Larger(r.begin, TruncatesTo(n, a))
           L == [i \in Position |->
                    IF i < b THEN NoAction ELSE IF i = n THEN a ELSE r.log[i]]
           e == Larger(r.end, n)
<1>1. b \in Nat /\ (b > 0 => Justified(D, b))
  BY BoundsAssumption DEF Larger, TruncatesTo, SoundReplica, SoundAction, SoundValue, Position
<1>2. e \in Position
  BY DEF Larger, SoundReplica
<1>3. \A i \in Position : SoundAction(D, L[i], i)
  <2> HIDE DEF b
  <2> QED
    BY NoActionSound DEF SoundReplica
<1>4. Persisted(r, n, a) = [r EXCEPT !.begin = b, !.end = e, !.log = L]
  BY DEF Persisted
<1> HIDE DEF b, L, e
<1> QED
  BY <1>1, <1>2, <1>3, <1>4 DEF SoundReplica

\* A replica that handles a sound request stays sound, and so is its answer:
\* the tombstone of a truncated position is covered by what truncated it.
LEMMA HandledSound ==
    ASSUME NEW D, NEW r, SoundReplica(D, r), NEW q, SoundRequest(D, q)
    PROVE  /\ SoundReplica(D, Handled(r, q))
           /\ SoundReply(D, OutcomeOf(r, q).reply, q.position)
<1> DEFINE o == OutcomeOf(r, q)
           n == q.position
           a == r.log[n]
<1>0. n \in Position /\ n \in Nat /\ 0 \in Position /\ SoundAction(D, a, n)
      /\ r.promised \in Nat /\ r.begin \in Nat /\ r.end \in Position
      /\ q.proposal \in Nat /\ SoundAction(D, q.action, n)
  BY BoundsAssumption DEF SoundReplica, SoundRequest, Position
<1>1. PromisedAt(r.promised, a) \in Nat
  BY <1>0 DEF PromisedAt, SoundAction
<1>2. /\ o.promised \in Nat
      /\ \A b \in o.persists : SoundAction(D, b, n)
      /\ SoundReply(D, o.reply, n)
  <2> USE DEF Outcome, Reply, Silent, Ignored, Reject
  <2> HIDE DEF n, a
  <2>n. SoundAction(D, NoAction, n)
    BY NoActionSound
  <2>1. CASE q.type = "learned"
    <3>1. o = Outcome(r.promised, {q.action}, Silent)
      BY <2>1 DEF OutcomeOf, Handle, n, a
    <3> QED
      BY <1>0, <2>n, <3>1 DEF SoundReply
  <2>2. CASE q.type # "learned" /\ r.status # "VOTING"
    <3>1. o = Outcome(r.promised, {}, Ignored(q.proposal))
      BY <2>2 DEF OutcomeOf, Handle, n, a
    <3> QED
      BY <1>0, <2>n, <3>1 DEF SoundReply
  <2>3. CASE r.status = "VOTING" /\ q.type = "implicit"
    <3>1. o = ImplicitPromise(r.promised, r.end, q.proposal)
      BY <2>3 DEF OutcomeOf, Handle, n, a
    <3> QED
      BY <1>0, <2>n, <3>1 DEF SoundReply, ImplicitPromise
  <2>4. CASE r.status = "VOTING" /\ q.type = "explicit"
    <3> DEFINE t == [promised |-> r.promised, performed |-> r.promised,
                     learned |-> TRUE, value |-> Tombstone]
               p == [a EXCEPT !.promised = q.proposal]
    <3>1. o = ExplicitPromise(r.promised, r.begin, a, q.proposal, n)
      BY <2>4 DEF OutcomeOf, Handle, n, a
    <3>2. SoundAction(D, p, n)
      BY <1>0 DEF SoundAction
    <3>3. ASSUME n < r.begin PROVE SoundAction(D, t, n)
      <4>1. Justified(D, n + 1)
        BY <1>0, <3>3 DEF SoundReplica, Justified
      <4> QED
        BY <1>0, <4>1 DEF SoundAction, SoundValue, Tombstone
    <3>4. \/ n < r.begin /\ o = Outcome(r.promised, {}, Reply("ACCEPT", q.proposal, n, t))
          \/ o = Outcome(r.promised, {}, Reject(PromisedAt(r.promised, a)))
          \/ o = Outcome(r.promised, {p}, Reply("ACCEPT", q.proposal, n, a))
      BY <3>1 DEF ExplicitPromise, Truncated
    <3> HIDE DEF t, p, o
    <3> QED
      BY <1>0, <1>1, <2>n, <3>2, <3>3, <3>4 DEF SoundReply
  <2>5. CASE r.status = "VOTING" /\ q.type \notin {"learned", "implicit", "explicit"}
    <3> DEFINE w == [promised |-> PromisedAt(r.promised, a), performed |-> q.proposal,
                     learned |-> FALSE, value |-> q.action.value]
    <3>1. o = Write(r.promised, r.begin, a, q.proposal, n, q.action.value)
      BY <2>5 DEF OutcomeOf, Handle, n, a
    <3>2. SoundAction(D, w, n)
      BY <1>0, <1>1 DEF SoundAction
    <3>3. \/ o = Outcome(r.promised, {}, Silent)
          \/ o = Outcome(r.promised, {}, Reject(PromisedAt(r.promised, a)))
          \/ o = Outcome(r.promised, {w}, Reply("ACCEPT", q.proposal, n, NoAction))
      BY <3>1 DEF Write
    <3> HIDE DEF w, o
    <3> QED
      BY <1>0, <1>1, <2>n, <3>2, <3>3 DEF SoundReply
  <2> QED
    BY <2>1, <2>2, <2>3, <2>4, <2>5
<1> DEFINE s == [r EXCEPT !.promised = o.promised]
<1> HIDE DEF o, n
<1>3. SoundReplica(D, s)
  BY <1>2 DEF SoundReplica
<1>4. Handled(r, q) = s \/ \E b \in o.persists : Handled(r, q) = Persisted(s, n, b)
  BY Zenon DEF Handled, o, n
<1> HIDE DEF s
<1> QED
  BY <1>0, <1>2, <1>3, <1>4, PersistedSound DEF o, n
-----------------------------------------------------------------------------
\* A request in flight after a step of process c: one of another process, or
\* one that c has sent or given up.
SentOrKept(c, m) ==
    \/ m \in requests /\ m.owner # c
    \/ /\ DOMAIN m = {"to", "owner", "request"} /\ m.to \in Replicas
       /\ SoundRequest(decided', m.request)
       /\ \/ m.owner = Nobody
          \/ m.owner = c /\ m.request.position = phase'[c].position

\* The coordinator of c becomes k.
Becomes(c, k) ==
    /\ DOMAIN coord' = Replicas /\ coord'[c] = k
    /\ \A d \in Replicas \ {c} : coord'[d] = coord[d]

\* The replies that c has got become Y.
Gets(c, Y) ==
    /\ DOMAIN replies' = Replicas /\ replies'[c] = Y
    /\ \A d \in Replicas \ {c} : replies'[d] = replies[d]

\* A step of process c, given what becomes of its coordinator, its phase,
\* its messages and the replicas.
LEMMA ProcessKeeps ==
    ASSUME JInv, NEW c \in Replicas, decided \subseteq decided', env' = env,
           DOMAIN replica' = Replicas,
           \A r \in Replicas : SoundReplica(decided', replica'[r]),
           NEW k, Becomes(c, k),
           NEW f, phase' = [phase EXCEPT ![c] = f],
           NEW Y, Gets(c, Y),
           SoundProcess(decided', k, f, Y),
           \A m \in requests' : SentOrKept(c, m)
    PROVE  JInv'
<1>1. /\ DOMAIN coord' = Replicas /\ DOMAIN phase' = Replicas /\ DOMAIN replies' = Replicas
      /\ coord'[c] = k /\ phase'[c] = f /\ replies'[c] = Y
      /\ \A d \in Replicas \ {c} :
           coord'[d] = coord[d] /\ phase'[d] = phase[d] /\ replies'[d] = replies[d]
  BY DEF JInv, Becomes, Gets
<1>2. ASSUME NEW d \in Replicas PROVE SoundProcess(decided', coord'[d], phase'[d], replies'[d])
  BY <1>1, StaysSound DEF JInv
<1>3. ASSUME NEW m \in requests' PROVE SoundMessage(m)'
  <2>1. CASE m \in requests /\ m.owner # c
    <3>1. SoundMessage(m)
      BY <2>1 DEF JInv
    <3>2. SoundRequest(decided', m.request)
      BY <3>1, StaysSound DEF SoundMessage
    <3> QED
      BY <1>1, <2>1, <3>1, <3>2 DEF SoundMessage
  <2>2. CASE ~(m \in requests /\ m.owner # c)
    BY <1>1, <2>2, ReplicasAssumption DEF SentOrKept, SoundMessage
  <2> QED
    BY <2>1, <2>2
<1> QED
  BY <1>1, <1>2, <1>3 DEF JInv

\* The requests of a phase that is over.
LEMMA DisownedSound ==
    ASSUME JInv, NEW c \in Replicas, decided \subseteq decided', NEW m \in Disowned(c)
    PROVE  SentOrKept(c, m)
<1>1. CASE m \in requests /\ m.owner # c
  BY <1>1 DEF SentOrKept
<1>2. CASE ~(m \in requests /\ m.owner # c)
  <2>1. PICK n \in requests : m = [n EXCEPT !.owner = Nobody]
    BY <1>2 DEF Disowned
  <2>2. SoundMessage(n)
    BY DEF JInv
  <2>3. /\ DOMAIN m = {"to", "owner", "request"} /\ m.to = n.to
        /\ m.request = n.request /\ m.owner = Nobody
    BY <2>1, <2>2 DEF SoundMessage
  <2> QED
    BY <2>2, <2>3, StaysSound DEF SoundMessage, SentOrKept
<1> QED
  BY <1>1, <1>2

LEMMA SentSound ==
    ASSUME NEW c, NEW q, NEW to \in SUBSET Replicas, SoundRequest(decided', q),
           NEW o, o = Nobody \/ (o = c /\ q.position = phase'[c].position),
           NEW m \in SentBy(o, q, to)
    PROVE  SentOrKept(c, m)
BY DEF SentBy, SentOrKept

\* Process c ends its phase, or begins another one.
LEMMA PhaseKeeps ==
    ASSUME JInv, NEW c \in Replicas, UNCHANGED <<decided, env>>,
           DOMAIN replica' = Replicas,
           \A r \in Replicas : SoundReplica(decided, replica'[r]),
           NEW k, Becomes(c, k),
           NEW f, phase' = [phase EXCEPT ![c] = f],
           SoundProcess(decided, k, f, {}),
           replies' = [replies EXCEPT ![c] = {}],
           \A m \in requests' : m \in Disowned(c) \/ SentOrKept(c, m)
    PROVE  JInv'
<1>2. ASSUME NEW m \in requests' PROVE SentOrKept(c, m)
  BY DisownedSound
<1>4. SoundProcess(decided', k, f, {})
      /\ \A r \in Replicas : SoundReplica(decided', replica'[r])
  OBVIOUS
<1>5. Gets(c, {})
  BY DEF JInv, Gets
<1> QED
  BY <1>2, <1>4, <1>5, ProcessKeeps, Zenon

LEMMA EndKeeps ==
    ASSUME JInv, NEW c \in Replicas, UNCHANGED <<replica, decided, env>>, EndPhase(c),
           NEW k, Becomes(c, k),
           NEW f, phase' = [phase EXCEPT ![c] = f],
           SoundProcess(decided, k, f, {})
    PROVE  JInv'
BY PhaseKeeps, Zenon DEF EndPhase, JInv

LEMMA BroadcastKeeps ==
    ASSUME JInv, NEW c \in Replicas, UNCHANGED <<replica, decided, env>>,
           NEW q, Broadcast(c, q), SoundRequest(decided, q),
           NEW k, Becomes(c, k),
           NEW f, phase' = [phase EXCEPT ![c] = f], q.position = f.position,
           SoundProcess(decided, k, f, {})
    PROVE  JInv'
<1>1. phase'[c] = f
  BY DEF JInv
<1>2. ASSUME NEW m \in requests' PROVE m \in Disowned(c) \/ SentOrKept(c, m)
  BY <1>1, SentSound DEF Broadcast
<1> QED
  BY <1>2, PhaseKeeps, Zenon DEF Broadcast, JInv

\* Process c learns the value v for the position n, and tells the others.
LEMMA LearnKeeps ==
    ASSUME JInv, NEW c \in Replicas, env' = env,
           NEW p \in Nat, NEW n \in Position, NEW v, SoundValue(decided, v, n),
           Learn(c, p, n, v),
           NEW k, Becomes(c, k),
           NEW f, phase' = [phase EXCEPT ![c] = f],
           SoundProcess(decided, k, f, {})
    PROVE  JInv'
<1> DEFINE q == Request("learned", p, n, PerformedBy(p, v, TRUE))
<1>1. /\ replica' = [replica EXCEPT ![c] = Handled(@, q)]
      /\ requests' = Disowned(c) \cup SentBy(Nobody, q, Replicas \ {c})
      /\ replies' = [replies EXCEPT ![c] = {}]
      /\ decided' = decided \cup {[position |-> n, value |-> v]}
  BY DEF Learn
<1>2. SoundRequest(decided', q)
  <2>1. v.type = "TRUNCATE" => Justified(decided', v.arg)
    <3> DEFINE d == [position |-> n, value |-> v]
    <3>1. d \in decided' /\ d.value = v
      BY <1>1
    <3> HIDE DEF d
    <3> QED
      BY <3>1 DEF Justified, SoundValue
  <2>2. SoundValue(decided', v, n)
    BY <1>1 DEF Justified, SoundValue
  <2> QED
    BY <2>1, <2>2 DEF SoundRequest, SoundAction, Request, PerformedBy
<1> HIDE DEF q
<1>3. \A r \in Replicas : SoundReplica(decided', replica[r])
  BY <1>1, StaysSound, SMTT(30) DEF JInv
<1>4. DOMAIN replica' = Replicas /\ \A r \in Replicas : SoundReplica(decided', replica'[r])
  BY <1>1, <1>2, <1>3, HandledSound, Zenon DEF JInv
<1>5. ASSUME NEW m \in requests' PROVE SentOrKept(c, m)
  <2>1. CASE m \in Disowned(c)
    BY <1>1, <2>1, DisownedSound
  <2>2. CASE m \in SentBy(Nobody, q, Replicas \ {c})
    BY <1>2, <2>2, SentSound
  <2> QED
    BY <1>1, <2>1, <2>2
<1>6. SoundProcess(decided', k, f, {}) /\ Gets(c, {})
  BY <1>1, StaysSound, SMTT(30) DEF JInv, Gets
<1> QED
  BY <1>1, <1>4, <1>5, <1>6, ProcessKeeps, Zenon
-----------------------------------------------------------------------------
LowestProposal(S) == Smallest({x.reply.proposal : x \in S})

\* What a process concludes from the replies of a quorum.
LEMMA QuorumReplies ==
    ASSUME JInv, NEW c \in Replicas, NEW S \in FirstQuorums(c)
    PROVE  /\ HighestEndPosition(S) \in Position
           /\ Nacks(S) # {} => HighestNackProposal(S) \in Nat
           /\ LowestProposal(S) \in Nat
           /\ SoundValue(decided, ValueToWrite(S), phase[c].position)
<1>0. SoundProcess(decided, coord[c], phase[c], replies[c])
  BY DEF JInv
<1>1. IsFiniteSet(S) /\ \A x \in S : SoundReply(decided, x.reply, phase[c].position)
  BY <1>0, FS_Subset DEF FirstQuorums, SoundProcess
<1>2. S # {}
  <2>1. Quorum > 0
    BY ReplicasAssumption, FS_CardinalityType
  <2> QED
    BY <2>1, FS_EmptySet DEF FirstQuorums
<1>3. HighestEndPosition(S) \in Position
  <2> DEFINE f == [x \in S |-> x.reply.position]
  <2>1. f \in [S -> Nat]
    BY <1>1 DEF SoundReply, Position
  <2>2. PICK x \in S : \A y \in S : f[y] <= f[x]
    BY <1>1, <1>2, <2>1, FiniteHasLargest, Zenon
  <2>3. \A y \in S : y.reply.position <= x.reply.position
    BY <2>2
  <2> QED
    BY <1>1, <2>3 DEF HighestEndPosition, Largest, SoundReply
<1>4. Nacks(S) # {} => HighestNackProposal(S) \in Nat
  <2> SUFFICES ASSUME Nacks(S) # {} PROVE HighestNackProposal(S) \in Nat
    OBVIOUS
  <2> DEFINE R == {y \in S : y.reply.type = "REJECT"}
             f == [x \in R |-> x.reply.proposal]
  <2>1. f \in [R -> Nat] /\ R # {} /\ IsFiniteSet(R)
    BY <1>1, FS_Subset DEF SoundReply, Nacks
  <2>2. PICK x \in R : \A y \in R : f[y] <= f[x]
    BY <2>1, FiniteHasLargest, Zenon
  <2>3. \A y \in R : y.reply.proposal <= x.reply.proposal
    BY <2>2, Zenon
  <2> QED
    BY <1>1, <2>3 DEF HighestNackProposal, Nacks, Largest, SoundReply
<1>5. LowestProposal(S) \in Nat
  <2> DEFINE T == {x.reply.proposal : x \in S}
  <2>1. T \in SUBSET Nat /\ T # {}
    BY <1>1, <1>2 DEF SoundReply
  <2>2. \E x \in T : \A y \in T : x <= y
    BY <2>1, NatHasLeast, Zenon
  <2> HIDE DEF T
  <2>3. Smallest(T) \in Nat
    BY <2>1, <2>2, Zenon DEF Smallest
  <2> QED
    BY <2>3 DEF T, LowestProposal
<1>6. SoundValue(decided, ValueToWrite(S), phase[c].position)
  <2>1. CASE Performed(S) = {}
    BY <2>1 DEF ValueToWrite, Nop, SoundValue
  <2>2. CASE Performed(S) # {}
    <3> DEFINE R == {x \in S : x.reply.action \in Performed(S)}
               f == [x \in R |-> x.reply.action.performed]
    <3>1. f \in [R -> Nat] /\ R # {} /\ IsFiniteSet(R)
      BY <1>1, <2>2, FS_Subset DEF SoundReply, SoundAction, Performed, AckActions
    <3>2. PICK x \in R : \A y \in R : f[y] <= f[x]
      BY <3>1, FiniteHasLargest, Zenon
    <3>3. \A y \in R : y.reply.action.performed <= x.reply.action.performed
      BY <3>2, Zenon
    <3>4. \A b \in Performed(S) : \E y \in R : y.reply.action = b
      BY DEF Performed, AckActions
    <3>5. \A b \in Performed(S) : b.performed <= x.reply.action.performed
      BY <3>3, <3>4
    <3>6. \E a \in Performed(S) : \A b \in Performed(S) : b.performed <= a.performed
      BY <3>5
    <3>7. PICK a \in Performed(S) : ValueToWrite(S) = a.value
      BY <2>2, <3>6, Zenon DEF ValueToWrite
    <3> QED
      BY <1>1, <3>4, <3>7 DEF SoundReply, SoundAction
  <2> QED
    BY <2>1, <2>2
<1> QED
  BY <1>3, <1>4, <1>5, <1>6

LEMMA NegativeNat ==
    ASSUME JInv, NEW c \in Replicas, NEW nack \in NegativeResults(c)
    PROVE  nack \in Nat
<1>1. nack = 0 \/ \E S \in FirstQuorums(c) : Nacks(S) # {} /\ nack = HighestNackProposal(S)
  BY DEF NegativeResults
<1> QED
  BY <1>1, QuorumReplies

\* A position that the catch-up of c finds missing.
LEMMA MissingFound ==
    ASSUME JInv, NEW c \in Replicas, phase[c].kind = "check", MissingPositions(c) # {}
    PROVE  Smallest(MissingPositions(c)) \in Position
<1>1. MissingPositions(c) \in SUBSET Nat /\ MissingPositions(c) \subseteq Position
  BY BoundsAssumption DEF MissingPositions, JInv, SoundProcess, Position
<1>2. \E x \in MissingPositions(c) : \A y \in MissingPositions(c) : x <= y
  BY <1>1, NatHasLeast
<1> QED
  BY <1>1, <1>2 DEF Smallest
-----------------------------------------------------------------------------
LEMMA Plain ==
    ASSUME NEW D, NEW n
    PROVE  SoundValue(D, NoValue, n) /\ SoundValue(D, Nop, n) /\ 0 \in Position
BY BoundsAssumption DEF SoundValue, NoValue, Nop, Position

\* The numbers of a sound process and of a sound replica.
LEMMA ProcessNumbers ==
    ASSUME NEW D, NEW k, NEW f, NEW Y, SoundProcess(D, k, f, Y)
    PROVE  /\ k.proposal \in Nat /\ k.from \in Nat /\ k.index \in Nat /\ k.fill \in Nat
           /\ f.proposal \in Nat /\ f.position \in Position
BY DEF SoundProcess

\* What a process knows stays sound with another phase and its replies.
LEMMA ChangedPhase ==
    ASSUME NEW D, NEW k, NEW f, NEW Y, SoundProcess(D, k, f, Y),
           NEW g, g.proposal \in Nat, g.position \in Position,
           SoundValue(D, g.value, g.position),
           g.kind \in {"check", "explicit", "fill"} => k.index \in Position,
           g.kind = "check" => g = Check,
           NEW Z, IsFiniteSet(Z), \A x \in Z : SoundReply(D, x.reply, g.position)
    PROVE  SoundProcess(D, k, g, Z)
BY DEF SoundProcess

\* The replies of a process.
LEMMA ProcessReplies ==
    ASSUME NEW D, NEW k, NEW f, NEW Y, SoundProcess(D, k, f, Y)
    PROVE  /\ IsFiniteSet(Y) /\ \A x \in Y : SoundReply(D, x.reply, f.position)
           /\ SoundValue(D, f.value, f.position)
           /\ f.kind \in {"check", "explicit", "fill"} => k.index \in Position
           /\ f.kind = "check" => f = Check
BY DEF SoundProcess

LEMMA ReplicaNumbers ==
    ASSUME NEW D, NEW r, SoundReplica(D, r)
    PROVE  r.promised \in Nat /\ r.begin \in Nat /\ r.end \in Position
BY DEF SoundReplica

\* A coordinator at its beginning, in a phase that tells it nothing yet.
LEMMA FreshProcess ==
    ASSUME NEW D, NEW state, NEW p \in Nat, NEW a \in Nat, NEW i \in Position,
           NEW kind, NEW q \in Nat, kind = "check" => q = 0, NEW Y, IsFiniteSet(Y),
           \A x \in Y : SoundReply(D, x.reply, 0)
    PROVE  SoundProcess(D, Coordinator(state, p, a, i), Phase(kind, q, 0, NoValue), Y)
<1> DEFINE k == Coordinator(state, p, a, i)
           f == Phase(kind, q, 0, NoValue)
<1>1. /\ DOMAIN k = {"state", "proposal", "from", "index", "fill"}
      /\ k.proposal = p /\ k.from = a /\ k.index = i /\ k.fill = 0
  BY DEF Coordinator
<1>2. /\ f.kind = kind /\ f.proposal = q /\ f.position = 0 /\ f.value = NoValue
      /\ kind = "check" => f = Check
  BY DEF Phase, Check
<1>3. i \in Nat
  BY BoundsAssumption DEF Position
<1> HIDE DEF k, f
<1>4. SoundProcess(D, k, f, Y)
  BY <1>1, <1>2, <1>3, Plain DEF SoundProcess
<1> QED
  BY <1>4 DEF k, f

\* A promise request, and the write of a sound value.
LEMMA PromiseSound ==
    ASSUME NEW D, NEW type, NEW p \in Nat, NEW n \in Position
    PROVE  /\ SoundRequest(D, Request(type, p, n, NoAction))
           /\ Request(type, p, n, NoAction).position = n
BY NoActionSound DEF SoundRequest, Request

LEMMA WriteSound ==
    ASSUME NEW D, NEW p \in Nat, NEW n \in Position, NEW v, SoundValue(D, v, n)
    PROVE  LET q == Request("write", p, n, PerformedBy(p, v, FALSE))
           IN  SoundRequest(D, q) /\ q.position = n
BY DEF SoundRequest, SoundAction, Request, PerformedBy

LEMMA ProcessFacts ==
    ASSUME JInv, NEW c \in Replicas
    PROVE  /\ SoundProcess(decided, coord[c], phase[c], replies[c])
           /\ SoundReplica(decided, replica[c])
           /\ UNCHANGED coord => Becomes(c, coord[c])
           /\ DOMAIN coord = Replicas /\ DOMAIN replica = Replicas
           /\ \A r \in Replicas : SoundReplica(decided, replica[r])
BY DEF JInv, Becomes
=============================================================================
