--------------------------- MODULE Replica_proofs ---------------------------
(***************************************************************************)
(* Replica keeps its types, a restart of it is invisible, and it           *)
(* implements Acceptor, for every number of positions and proposals and    *)
(* every choice of agreed and proposed values.                             *)
(*                                                                         *)
(* The inductive invariant relates the caches to the records on disk.  It  *)
(* says nothing about the caches below the beginning of the log, where a   *)
(* failed deletion leaves records that a restart finds again, and it needs *)
(* a record that witnesses the beginning of the log, because that is all a *)
(* restart has to compute it from.                                         *)
(***************************************************************************)
EXTENDS Replica, TLAPS, WellFoundedInduction

\* Records that are learned hold what the log agreed on.
LearnedRecords ==
    \A n \in Position : disk[n].learned => disk[n].value \in LearnedValues(n)

\* Holes and unlearned positions, from the beginning of the log on.
CachesMatch ==
    /\ \A n \in Position : n > end =>
         disk[n] = NoAction /\ n \notin holes /\ n \notin unlearned
    /\ \A n \in Position : begin <= n /\ n <= end =>
         /\ n \in holes <=> disk[n] = NoAction
         /\ n \in unlearned <=> disk[n] # NoAction /\ ~disk[n].learned
    /\ end = 0 \/ disk[end] # NoAction

\* The beginning of the log is the furthest any record truncates to.
BeginWitnessed ==
    /\ \A n \in Position : TruncatesTo(n, disk[n]) <= begin
    /\ begin = 0 \/ \E n \in Position : TruncatesTo(n, disk[n]) = begin

IInv == TypeOK /\ LearnedRecords /\ CachesMatch /\ BeginWitnessed
-----------------------------------------------------------------------------
\* What a handler may persist at a position.
Persistable(n, action) ==
    /\ action \in Action /\ action # NoAction
    /\ action.learned => action.value \in LearnedValues(n)
    /\ TruncatesTo(n, action) >= TruncatesTo(n, disk[n])
    /\ disk[n].learned => action.learned
    /\ action.learned \/ action.promised >= Guard(n)

\* A learned action truncates at most its own position, and deletes no
\* record that it does not truncate.
LEMMA TruncationBounds ==
    ASSUME NEW n \in Position, NEW action \in Action,
           action.learned => action.value \in LearnedValues(n)
    PROVE  /\ TruncatesTo(n, action) \in 0 .. n + 1
           /\ DeletesTo(n, action) \in 0 .. n
           /\ DeletesTo(n, action) <= TruncatesTo(n, action)
<1>1. CASE ~action.learned
  BY <1>1, BoundsAssumption DEF TruncatesTo, DeletesTo, Position
<1>2. CASE action.learned /\ action.value = Tombstone
  BY <1>2, BoundsAssumption DEF TruncatesTo, DeletesTo, Position, Tombstone
<1>3. CASE action.learned /\ action.value = Agreed[n]
  <2>1. /\ Agreed[n].type \in {"NOP", "APPEND", "TRUNCATE"}
        /\ Agreed[n].type = "TRUNCATE" => Agreed[n].arg <= n
        /\ Agreed[n] \in Value
    BY AgreedAssumption
  <2>2. Agreed[n].type = "TRUNCATE" => Agreed[n].arg \in Nat
    BY <2>1 DEF Value
  <2> QED
    BY <1>3, <2>1, <2>2, BoundsAssumption
    DEF TruncatesTo, DeletesTo, Position
<1> QED
  BY <1>1, <1>2, <1>3 DEF LearnedValues

\* The requests that arrive are well formed.
LEMMA RequestFacts ==
    ASSUME NEW request \in Requests
    PROVE  /\ request.position \in Position /\ request.proposal \in Proposal
           /\ request.type \in {"implicit", "explicit", "write", "learned"}
           /\ request.type = "write" =>
                request.proposal > 0 /\ request.action.value \in Value
           /\ request.type = "learned" =>
                /\ request.action \in Action /\ request.action.learned
                /\ request.action.value \in LearnedValues(request.position)
<1>1. CASE request \in PromiseRequests
  BY <1>1, BoundsAssumption DEF PromiseRequests, Request, Position
<1>2. CASE request \in WriteRequests
  <2>a. PICK n \in Position, p \in Proposal \ {0} : request \in WritesAt(n, p)
    BY <1>2 DEF WriteRequests
  <2>1. PICK v \in Proposed[n] :
          request = Request("write", p, n, PerformedBy(p, v, FALSE))
    BY <2>a DEF WritesAt
  <2>2. v \in Value
    BY ProposedAssumption
  <2> QED
    BY <2>1, <2>2, BoundsAssumption DEF Request, PerformedBy, Proposal
<1>3. CASE request \in LearnedRequests
  <2>a. PICK n \in Position, p \in Proposal : request \in NoticesAt(n, p)
    BY <1>3 DEF LearnedRequests
  <2>1. PICK v \in LearnedValues(n) :
          request = Request("learned", p, n, PerformedBy(p, v, TRUE))
    BY <2>a DEF NoticesAt
  <2>2. v \in Value
    BY AgreedAssumption DEF LearnedValues, Value, Tombstone
  <2> QED
    BY <2>1, <2>2, BoundsAssumption DEF Request, PerformedBy, Proposal, Action
<1> QED
  BY <1>1, <1>2, <1>3 DEF Requests

\* From the beginning of the log on, a read returns the record on disk.
LEMMA ReadsDisk ==
    ASSUME IInv, NEW n \in Position, begin <= n
    PROVE  Read(n) = disk[n]
BY BoundsAssumption DEF IInv, TypeOK, CachesMatch, Read, Position

\* The handler of a request persists what is Persistable.
LEMMA PersistsPersistable ==
    ASSUME IInv,
           NEW request \in Requests,
           request.type = "learned" =>
             \/ disk[request.position].value # Tombstone
             \/ request.action.value = Tombstone,
           NEW action \in Decision(request).persists
    PROVE  Persistable(request.position, action)
<1> DEFINE n == request.position
           old == disk[n]
           p == request.proposal
           read == IF n < begin THEN NoAction ELSE Read(n)
<1>1. /\ n \in Position /\ p \in Nat /\ old \in Action
      /\ old.learned => old.value \in LearnedValues(n)
      /\ begin \in Nat /\ metadata.promised \in Nat
  BY RequestFacts, BoundsAssumption
  DEF IInv, TypeOK, LearnedRecords, Proposal
<1>2. CASE request.type = "learned"
  <2>1. action = request.action
    BY <1>2 DEF Decision, Handle, Outcome
  <2>2. /\ action \in Action /\ action.learned
        /\ action.value \in LearnedValues(n)
    BY <1>2, <2>1, RequestFacts
  <2>3. action # NoAction
    BY <2>2 DEF NoAction
  <2>4. TruncatesTo(n, action) >= TruncatesTo(n, old)
    <3>1. CASE action.value = Tombstone
      BY <1>1, <2>2, <3>1, TruncationBounds, BoundsAssumption
      DEF TruncatesTo, Tombstone, Position
    <3>2. CASE old.learned /\ action.value # Tombstone
      <4>1. action.value = old.value
        BY <1>1, <1>2, <2>1, <2>2, <3>2 DEF LearnedValues
      <4> QED
        BY <1>1, <2>2, <3>2, <4>1, TruncationBounds, BoundsAssumption
        DEF TruncatesTo, Position
    <3>3. CASE ~old.learned
      BY <1>1, <2>2, <3>3, TruncationBounds, BoundsAssumption
      DEF TruncatesTo, Position
    <3> QED
      BY <3>1, <3>2, <3>3
  <2> QED
    BY <2>2, <2>3, <2>4 DEF Persistable
<1>3. CASE request.type = "explicit"
  <2>a. action \in ExplicitPromise(metadata.promised, begin, read, p, n).persists
    BY <1>3 DEF Decision, Handle, Outcome
  <2>b. ~(n < begin) /\ ~(p <= PromisedAt(metadata.promised, read))
    BY <2>a DEF ExplicitPromise, Outcome, Truncated
  <2>c. read = old
    BY <1>1, <2>b, ReadsDisk, BoundsAssumption DEF Position
  <2>1. /\ action = [old EXCEPT !.promised = p]
        /\ p > PromisedAt(metadata.promised, old)
    <3>1. action = [read EXCEPT !.promised = p]
      BY <2>a, <2>b DEF ExplicitPromise, Outcome, Truncated
    <3>2. PromisedAt(metadata.promised, old) \in Nat
      BY <1>1 DEF PromisedAt, Action
    <3> HIDE DEF read, old
    <3> QED
      BY <1>1, <2>b, <2>c, <3>1, <3>2
  <2>2. p > 0
    BY <1>1, <2>1 DEF PromisedAt, Action
  <2>3. action.promised >= Guard(n) /\ (old.learned => action.learned)
    <3>1. PromisedAt(metadata.promised, old) \in Nat
      BY <1>1 DEF PromisedAt, Action
    <3>2. action.promised = p /\ action.learned = old.learned
      BY <1>1, <2>1 DEF Action
    <3> QED
      BY <1>1, <2>1, <3>1, <3>2 DEF Guard
  <2> QED
    BY <1>1, <2>1, <2>2, <2>3, TruncationBounds, BoundsAssumption
    DEF Persistable, TruncatesTo, Action, NoAction, Position
<1>4. CASE request.type = "write"
  <2>a. action \in Write(metadata.promised, begin, read, p, n,
                        request.action.value).persists
    BY <1>4 DEF Decision, Handle, Outcome
  <2>b. ~(n < begin) /\ ~read.learned
    BY <2>a DEF Write, Outcome, Truncated
  <2>c. read = old
    BY <1>1, <2>b, ReadsDisk, BoundsAssumption DEF Position
  <2>1. /\ ~old.learned
        /\ action = [promised |-> PromisedAt(metadata.promised, old),
                     performed |-> p, learned |-> FALSE,
                     value |-> request.action.value]
    BY <2>a, <2>b, <2>c DEF Write, Outcome, Truncated
  <2>2. p > 0 /\ request.action.value \in Value
    BY <1>4, RequestFacts
  <2>3. PromisedAt(metadata.promised, old) \in Nat
    BY <1>1 DEF PromisedAt, Action
  <2>4. action.promised >= Guard(n) /\ (old.learned => action.learned)
    BY <2>1, <2>3 DEF Guard
  <2> QED
    BY <1>1, <2>1, <2>2, <2>3, <2>4
    DEF Persistable, TruncatesTo, Action, NoAction
<1>5. request.type # "implicit"
  BY DEF Decision, Handle, ImplicitPromise, Outcome, Ignored, Reject, Reply
<1> QED
  BY <1>2, <1>3, <1>4, <1>5, RequestFacts
-----------------------------------------------------------------------------
\* The records and the ends of the log after persisting.  What is deleted is
\* below the new beginning, and never the record just written.
LEMMA PersistEffect ==
    ASSUME IInv, NEW n \in Position, NEW action, NEW deletes \in BOOLEAN,
           Persistable(n, action), Persist(n, action, deletes)
    PROVE  /\ disk' \in [Position -> Action] /\ disk'[n] = action
           /\ \A m \in Position \ {n} :
                \/ disk'[m] = disk[m]
                \/ disk'[m] = NoAction /\ m < DeletesTo(n, action)
           /\ first' \in {None} \cup Position
           /\ begin' = Larger(begin, TruncatesTo(n, action))
           /\ begin' \in 0 .. MaxPosition + 1
           /\ begin' >= begin /\ begin' >= TruncatesTo(n, action)
           /\ end' = Larger(end, n) /\ end' \in Position
           /\ end' >= end /\ end' >= n
<1>1. /\ TruncatesTo(n, action) \in 0 .. n + 1
      /\ DeletesTo(n, action) \in 0 .. n
  BY TruncationBounds DEF Persistable
<1>2. /\ begin' = Larger(begin, TruncatesTo(n, action))
      /\ begin' \in 0 .. MaxPosition + 1
      /\ begin' >= begin /\ begin' >= TruncatesTo(n, action)
  BY <1>1, BoundsAssumption DEF IInv, TypeOK, Persist, Larger, Position
<1>3. /\ end' = Larger(end, n) /\ end' \in Position
      /\ end' >= end /\ end' >= n
  BY BoundsAssumption DEF IInv, TypeOK, Persist, LastWritten, Larger, Position
<1>4. first' \in {None} \cup Position
  BY <1>1, BoundsAssumption
  DEF IInv, TypeOK, Persist, Store, Position, None
<1>5. NoAction \in Action
  BY DEF NoAction, Action, NoValue, Value
<1>6. PICK from, to : disk' = [m \in Position |->
                                IF deletes /\ from <= m /\ m < to THEN NoAction
                                ELSE IF m = n THEN action ELSE disk[m]]
                     /\ to = DeletesTo(n, action)
  BY DEF Persist, Store
<1>7. ~(n < to)
  BY <1>1, <1>6, BoundsAssumption DEF Position
<1> QED
  BY <1>2, <1>3, <1>4, <1>5, <1>6, <1>7
  DEF IInv, TypeOK, Persistable

\* Persisting keeps the inductive invariant.
LEMMA PersistPreserves ==
    ASSUME IInv, NEW n \in Position, NEW action, NEW deletes \in BOOLEAN,
           Persistable(n, action), Persist(n, action, deletes),
           metadata' \in [status : Status, promised : Proposal]
    PROVE  IInv'
<1> DEFINE to == DeletesTo(n, action)
<1>1. /\ TruncatesTo(n, action) \in 0 .. n + 1
      /\ to \in 0 .. n /\ to <= TruncatesTo(n, action)
  BY TruncationBounds DEF Persistable
<1>2. /\ disk' \in [Position -> Action] /\ disk'[n] = action
      /\ \A m \in Position \ {n} :
           \/ disk'[m] = disk[m]
           \/ disk'[m] = NoAction /\ m < to
  BY PersistEffect
<1>3. /\ begin' = Larger(begin, TruncatesTo(n, action))
      /\ begin' \in 0 .. MaxPosition + 1
      /\ begin' >= begin /\ begin' >= to
      /\ end' = Larger(end, n) /\ end' \in Position
      /\ end' >= end /\ end' >= n
  BY <1>1, PersistEffect, BoundsAssumption DEF IInv, TypeOK, Position
<1>4. /\ holes' = ((holes \ {n}) \ (1 .. to - 1))
                    \cup (IF n > end THEN end + 1 .. n - 1 ELSE {})
      /\ unlearned' = IF action.learned THEN (unlearned \ {n}) \ (1 .. to - 1)
                      ELSE unlearned \cup {n}
  BY DEF Persist
<1> HIDE DEF to
<1>5. TypeOK'
  <2>1. holes' \subseteq Position /\ unlearned' \subseteq Position
    <3>1. end + 1 .. n - 1 \subseteq Position
      BY BoundsAssumption DEF IInv, TypeOK, Position
    <3> QED
      BY <1>4, <3>1 DEF IInv, TypeOK
  <2> QED
    BY <1>2, <1>3, <2>1, PersistEffect DEF TypeOK
<1>6. LearnedRecords'
  BY <1>2 DEF IInv, LearnedRecords, LearnedValues, Persistable, NoAction
<1>7. CachesMatch'
  <2>1. ASSUME NEW m \in Position, m > end'
        PROVE  disk'[m] = NoAction /\ m \notin holes' /\ m \notin unlearned'
    BY <1>1, <1>2, <1>3, <1>4, <2>1, BoundsAssumption
    DEF IInv, TypeOK, CachesMatch, Position
  <2>2. ASSUME NEW m \in Position, begin' <= m, m <= end'
        PROVE  /\ m \in holes' <=> disk'[m] = NoAction
               /\ m \in unlearned' <=> disk'[m] # NoAction /\ ~disk'[m].learned
    <3>1. m \notin 1 .. to - 1 /\ ~(m < to) /\ begin <= m
      BY <1>1, <1>3, <2>2, BoundsAssumption DEF IInv, TypeOK, Position
    <3>2. CASE m = n
      BY <1>2, <1>4, <2>2, <3>1, <3>2, BoundsAssumption
      DEF Persistable, Position
    <3>3. CASE m # n
      <4>1. disk'[m] = disk[m]
        BY <1>2, <3>1, <3>3
      <4>2. m \in unlearned' <=> m \in unlearned
        BY <1>4, <3>1, <3>3
      <4>3. CASE m <= end
        <5>1. m \in holes' <=> m \in holes
          BY <1>4, <3>1, <3>3, <4>3, BoundsAssumption
          DEF IInv, TypeOK, Position
        <5> QED
          BY <3>1, <4>1, <4>2, <4>3, <5>1 DEF IInv, CachesMatch
      <4>4. CASE m > end
        <5>1. m \in holes'
          BY <1>3, <1>4, <2>2, <3>3, <4>4, BoundsAssumption
          DEF IInv, TypeOK, Position, Larger
        <5> QED
          BY <4>1, <4>2, <4>4, <5>1 DEF IInv, CachesMatch
      <4> QED
        BY <4>3, <4>4, BoundsAssumption DEF IInv, TypeOK, Position
    <3> QED
      BY <3>2, <3>3
  <2>3. end' = 0 \/ disk'[end'] # NoAction
    <3>1. CASE end' = n
      BY <1>2, <3>1 DEF Persistable
    <3>2. CASE end' = end /\ end # n
      <4>1. ~(end < to)
        BY <1>1, <1>3, <3>2, BoundsAssumption DEF IInv, TypeOK, Position
      <4> QED
        BY <1>2, <3>2, <4>1 DEF IInv, TypeOK, CachesMatch
    <3> QED
      BY <1>3, <3>1, <3>2 DEF Larger
  <2> QED
    BY <2>1, <2>2, <2>3 DEF CachesMatch
<1>8. BeginWitnessed'
  <2>1. ASSUME NEW m \in Position
        PROVE  TruncatesTo(m, disk'[m]) <= begin'
    <3>1. CASE m = n
      BY <1>2, <3>1, PersistEffect
    <3>2. CASE m # n /\ disk'[m] = disk[m]
      <4>1. TruncatesTo(m, disk[m]) <= begin
        BY DEF IInv, BeginWitnessed
      <4>2. TruncatesTo(m, disk[m]) \in Nat
        BY TruncationBounds, BoundsAssumption
        DEF IInv, TypeOK, LearnedRecords, Position
      <4> QED
        BY <1>3, <3>2, <4>1, <4>2, BoundsAssumption DEF IInv, TypeOK
    <3>3. CASE disk'[m] = NoAction
      BY <1>3, <3>3, BoundsAssumption DEF TruncatesTo, NoAction
    <3> QED
      BY <1>2, <3>1, <3>2, <3>3
  <2>2. begin' = 0 \/ \E m \in Position : TruncatesTo(m, disk'[m]) = begin'
    <3>1. CASE begin' = TruncatesTo(n, action)
      BY <1>2, <3>1
    <3>2. CASE begin' = begin /\ begin # TruncatesTo(n, action) /\ begin # 0
      <4>1. PICK m \in Position : TruncatesTo(m, disk[m]) = begin
        BY <3>2 DEF IInv, BeginWitnessed
      <4>2. TruncatesTo(n, action) < begin
        BY <1>1, <1>3, <3>2, PersistEffect, BoundsAssumption
        DEF IInv, TypeOK, Position
      <4>3. m # n
        BY <1>1, <4>1, <4>2, BoundsAssumption
        DEF Persistable, IInv, TypeOK, Position
      <4>4. begin <= m + 1
        BY <4>1, TruncationBounds, BoundsAssumption
        DEF IInv, TypeOK, LearnedRecords, Position
      <4>5. ~(m < to)
        BY <1>1, <4>2, <4>4, BoundsAssumption DEF IInv, TypeOK, Position
      <4> QED
        BY <1>2, <3>2, <4>1, <4>3, <4>5
    <3> QED
      BY <1>3, <3>1, <3>2 DEF Larger
  <2> QED
    BY <2>1, <2>2 DEF BeginWitnessed
<1> QED
  BY <1>5, <1>6, <1>7, <1>8 DEF IInv
-----------------------------------------------------------------------------
\* Answering a request keeps the inductive invariant, whether or not the
\* deletion of truncated records succeeds.
LEMMA RespondPreserves ==
    ASSUME IInv,
           NEW request \in Requests, NEW deletes \in BOOLEAN,
           request.type = "learned" =>
             \/ disk[request.position].value # Tombstone
             \/ request.action.value = Tombstone,
           Respond(request, deletes)
    PROVE  IInv'
<1> DEFINE outcome == Decision(request)
<1>1. metadata' \in [status : Status, promised : Proposal]
  <2>1. outcome.promised \in {metadata.promised, request.proposal}
    BY DEF Decision, Handle, ImplicitPromise, ExplicitPromise, Write, Outcome
  <2>2. outcome.promised \in Proposal
    BY <2>1, RequestFacts DEF IInv, TypeOK
  <2>3. metadata' = [metadata EXCEPT !.promised = outcome.promised]
    BY DEF Respond
  <2> QED
    BY <2>2, <2>3 DEF IInv, TypeOK
<1>2. CASE outcome.persists = {}
  <2>1. UNCHANGED <<disk, first, begin, end, holes, unlearned>>
    BY <1>2 DEF Respond
  <2> QED
    BY <1>1, <2>1
    DEF IInv, TypeOK, LearnedRecords, CachesMatch, BeginWitnessed
<1>3. CASE outcome.persists # {}
  <2> DEFINE action == CHOOSE a \in outcome.persists : TRUE
  <2>1. action \in outcome.persists
    BY <1>3
  <2>2. Persist(request.position, action, deletes)
    BY <1>3 DEF Respond
  <2> HIDE DEF action
  <2>3. Persistable(request.position, action)
    BY <2>1, PersistsPersistable
  <2> QED
    BY <1>1, <2>2, <2>3, PersistPreserves, RequestFacts
<1> QED
  BY <1>2, <1>3

\* A bound of a set that belongs to it is its largest element.
LEMMA LargestIs ==
    ASSUME NEW S, S \subseteq Int, NEW m \in S, \A n \in S : n <= m
    PROVE  Largest(S) = m
<1> DEFINE c == CHOOSE k \in S : \A n \in S : n <= k
<1>1. c \in S /\ \A n \in S : n <= c
  OBVIOUS
<1>2. Largest(S) = c
  BY DEF Largest
<1> HIDE DEF c
<1>3. c \in Int /\ m \in Int /\ c <= m /\ m <= c
  BY <1>1
<1> QED
  BY <1>2, <1>3

\* The ends of the log that a restart computes are the ones in the caches.
LEMMA RestoredEnds ==
    ASSUME IInv
    PROVE  RestoredBegin(disk) = begin /\ RestoredEnd(disk) = end
<1>1. RestoredBegin(disk) = begin
  <2> DEFINE S == {0} \cup {TruncatesTo(n, disk[n]) : n \in Recorded(disk)}
  <2>1. ASSUME NEW m \in S PROVE m \in Nat /\ m <= begin
    <3>1. CASE m = 0
      BY <3>1, BoundsAssumption DEF IInv, TypeOK
    <3>2. ASSUME NEW n \in Position
          PROVE  TruncatesTo(n, disk[n]) \in Nat /\ TruncatesTo(n, disk[n]) <= begin
      BY TruncationBounds, BoundsAssumption
      DEF IInv, TypeOK, LearnedRecords, BeginWitnessed, Position
    <3> QED
      BY <3>1, <3>2 DEF Recorded
  <2>2. begin \in S
    <3>1. CASE begin = 0
      BY <3>1
    <3>2. CASE begin # 0
      <4>1. PICK n \in Position : TruncatesTo(n, disk[n]) = begin
        BY <3>2 DEF IInv, BeginWitnessed
      <4>2. disk[n] # NoAction
        BY <3>2, <4>1 DEF TruncatesTo, NoAction
      <4> QED
        BY <4>1, <4>2 DEF Recorded
    <3> QED
      BY <3>1, <3>2
  <2>3. RestoredBegin(disk) = Largest(S)
    BY DEF RestoredBegin
  <2> HIDE DEF S
  <2>4. S \subseteq Int
    BY <2>1
  <2> QED
    BY <2>1, <2>2, <2>3, <2>4, LargestIs
<1>2. RestoredEnd(disk) = end
  <2> DEFINE S == {0} \cup Recorded(disk)
  <2>1. ASSUME NEW m \in S PROVE m \in Nat /\ m <= end
    BY BoundsAssumption
    DEF IInv, TypeOK, CachesMatch, Recorded, Position
  <2>2. end \in S
    BY DEF IInv, TypeOK, CachesMatch, Recorded
  <2>3. RestoredEnd(disk) = Largest(S)
    BY DEF RestoredEnd
  <2> HIDE DEF S
  <2>4. S \subseteq Int
    BY <2>1
  <2> QED
    BY <2>1, <2>2, <2>3, <2>4, LargestIs
<1> QED
  BY <1>1, <1>2

\* The inductive invariant says that a restart is invisible.
LEMMA RestoredCaches ==
    ASSUME IInv
    PROVE  RestartInvisible
<1>1. RestoredBegin(disk) = begin /\ RestoredEnd(disk) = end
  BY RestoredEnds
<1>2. ASSUME NEW n \in begin .. end
      PROVE  /\ n \in holes <=> n \in RestoredHoles(disk)
             /\ n \in unlearned <=> n \in RestoredUnlearned(disk)
  <2>1. n \in Position /\ begin <= n /\ n <= end
    BY BoundsAssumption DEF IInv, TypeOK, Position
  <2> QED
    BY <1>1, <2>1
    DEF IInv, CachesMatch, RestoredHoles, RestoredUnlearned, Recorded
<1> QED
  BY <1>1, <1>2 DEF RestartInvisible

\* The least-number principle, for the first record on disk.
LEMMA SmallestExists ==
    ASSUME NEW S, S \subseteq Nat, S # {}
    PROVE  \E m \in S : \A n \in S : m <= n
<1> DEFINE R == OpToRel(<, Nat)
<1>1. IsWellFoundedOn(R, Nat)
  BY NatLessThanWellFounded
<1>2. \A m, n \in Nat : <<m, n>> \in R <=> m < n
  BY DEF OpToRel
<1> HIDE DEF R
<1>3. PICK m \in S : \A n \in S : ~(<<n, m>> \in R)
  BY <1>1, WFMin
<1>4. ASSUME NEW n \in S PROVE m <= n
  <2>1. m \in Nat /\ n \in Nat /\ ~(n < m)
    BY <1>2, <1>3
  <2> QED
    BY <2>1
<1> QED
  BY <1>4

\* A restart keeps the inductive invariant.
LEMMA RestartPreserves ==
    ASSUME IInv, Restart
    PROVE  IInv'
<1>1. begin' = begin /\ end' = end /\ disk' = disk /\ metadata' = metadata
  BY RestoredEnds DEF Restart
<1>2. /\ holes' = (begin .. end) \ Recorded(disk)
      /\ unlearned' = {n \in Recorded(disk) : ~disk[n].learned}
  BY RestoredEnds DEF Restart, RestoredHoles, RestoredUnlearned
<1>3. holes' \subseteq Position /\ unlearned' \subseteq Position
  <2>1. begin .. end \subseteq Position
    BY BoundsAssumption DEF IInv, TypeOK, Position
  <2> QED
    BY <1>2, <2>1 DEF Recorded
<1>4. first' \in {None} \cup Position
  <2>1. CASE Recorded(disk) = {}
    BY <2>1 DEF Restart, RestoredFirst
  <2>2. CASE Recorded(disk) # {}
    <3>1. Smallest(Recorded(disk)) \in Recorded(disk)
      <4>1. Recorded(disk) \subseteq Nat
        BY BoundsAssumption DEF Recorded, Position
      <4>2. \E m \in Recorded(disk) : \A n \in Recorded(disk) : m <= n
        BY <2>2, <4>1, SmallestExists
      <4> QED
        BY <4>2 DEF Smallest
    <3> QED
      BY <2>2, <3>1 DEF Restart, RestoredFirst, Recorded
  <2> QED
    BY <2>1, <2>2
<1>5. TypeOK'
  BY <1>1, <1>3, <1>4 DEF IInv, TypeOK
<1>6. LearnedRecords' /\ BeginWitnessed'
  BY <1>1 DEF IInv, LearnedRecords, BeginWitnessed
<1>7. CachesMatch'
  <2>1. ASSUME NEW n \in Position
        PROVE  /\ n \in holes' <=> begin <= n /\ n <= end /\ disk[n] = NoAction
               /\ n \in unlearned' <=> disk[n] # NoAction /\ ~disk[n].learned
    BY <1>2, BoundsAssumption DEF IInv, TypeOK, Recorded, Position
  <2> QED
    BY <1>1, <2>1, BoundsAssumption
    DEF IInv, TypeOK, CachesMatch, Position
<1> QED
  BY <1>5, <1>6, <1>7 DEF IInv
-----------------------------------------------------------------------------
\* A new replica satisfies the inductive invariant.
LEMMA InitEstablishes == Init => IInv
<1> SUFFICES ASSUME Init PROVE IInv
  OBVIOUS
<1>1. NoAction \in Action /\ ~NoAction.learned
  BY DEF NoAction, Action, NoValue, Value
<1>2. metadata \in [status : Status, promised : Proposal]
  BY BoundsAssumption DEF Init, Status, Proposal
<1>3. TypeOK
  BY <1>1, <1>2, BoundsAssumption DEF Init, TypeOK, Position, None
<1>4. LearnedRecords
  BY <1>1 DEF Init, LearnedRecords
<1>5. CachesMatch
  BY <1>1, BoundsAssumption DEF Init, CachesMatch, Position
<1>6. BeginWitnessed
  BY <1>1, BoundsAssumption DEF Init, BeginWitnessed, TruncatesTo
<1> QED
  BY <1>3, <1>4, <1>5, <1>6 DEF IInv

\* The three message handlers answer a request, none of which is a learned
\* notice that would replace a tombstone.
LEMMA ArrivingRequest ==
    ASSUME ~LateNotices, promise \/ write \/ learned
    PROVE  \E request \in Requests, deletes \in BOOLEAN :
             /\ request.type = "learned" =>
                  \/ disk[request.position].value # Tombstone
                  \/ request.action.value = Tombstone
             /\ Respond(request, deletes)
<1>1. CASE promise
  <2>1. PICK request \in PromiseRequests, deletes \in BOOLEAN :
          Respond(request, deletes)
    BY <1>1 DEF promise
  <2>2. request \in Requests /\ request.type # "learned"
    BY DEF Requests, PromiseRequests, Request
  <2> QED
    BY <2>1, <2>2
<1>2. CASE write
  <2>1. PICK request \in WriteRequests : Respond(request, TRUE)
    BY <1>2 DEF write
  <2>2. request \in Requests /\ request.type # "learned"
    <3>1. PICK n \in Position, p \in Proposal \ {0} : request \in WritesAt(n, p)
      BY DEF WriteRequests
    <3>2. PICK v \in Proposed[n] :
            request = Request("write", p, n, PerformedBy(p, v, FALSE))
      BY <3>1 DEF WritesAt
    <3>3. request.type = "write"
      BY <3>2 DEF Request
    <3> QED
      BY <3>3 DEF Requests
  <2> QED
    BY <2>1, <2>2
<1>3. CASE learned
  <2>1. PICK request \in LearnedRequests, deletes \in BOOLEAN :
          /\ \/ disk[request.position].value # Tombstone
             \/ request.action.value = Tombstone
          /\ Respond(request, deletes)
    BY <1>3 DEF learned
  <2>2. request \in Requests
    BY DEF Requests
  <2> QED
    BY <2>1, <2>2
<1> QED
  BY <1>1, <1>2, <1>3

\* Every step keeps the inductive invariant, as long as no learned notice
\* with the agreed value overtakes the tombstone of its position.
LEMMA NextPreserves ==
    ASSUME ~LateNotices
    PROVE  IInv /\ [Next]_vars => IInv'
<1> SUFFICES ASSUME IInv, [Next]_vars PROVE IInv'
  OBVIOUS
<1>1. CASE promise \/ write \/ learned
  <2>1. PICK request \in Requests, deletes \in BOOLEAN :
          /\ request.type = "learned" =>
               \/ disk[request.position].value # Tombstone
               \/ request.action.value = Tombstone
          /\ Respond(request, deletes)
    BY <1>1, ArrivingRequest
  <2> QED
    BY <2>1, RespondPreserves
<1>2. CASE update
  <2>1. metadata' \in [status : Status, promised : Proposal]
    BY <1>2 DEF update, IInv, TypeOK
  <2> QED
    BY <1>2, <2>1
    DEF update, IInv, TypeOK, LearnedRecords, CachesMatch, BeginWitnessed
<1>3. CASE Restart
  BY <1>3, RestartPreserves
<1>4. CASE UNCHANGED vars
  BY <1>4
  DEF vars, IInv, TypeOK, LearnedRecords, CachesMatch, BeginWitnessed
<1> QED
  BY <1>1, <1>2, <1>3, <1>4 DEF Next

\* The records and the caches of a replica keep their types: no handler and
\* no restart (replica.cpp: promise, write, learned, update, restore) leaves
\* a cache outside the positions of the log.
THEOREM TypeCorrect ==
    ASSUME ~LateNotices
    PROVE  Spec => []TypeOK
<1>1. Init => IInv
  BY InitEstablishes
<1>2. IInv /\ [Next]_vars => IInv'
  BY NextPreserves
<1>3. IInv => TypeOK
  BY DEF IInv
<1> QED
  BY <1>1, <1>2, <1>3, PTL DEF Spec

\* What ReplicaProcess::restore would rebuild from the records on disk is,
\* at every moment, what ReplicaProcess::persist maintains in the caches.
THEOREM RestartsInvisibly ==
    ASSUME ~LateNotices
    PROVE  Spec => []RestartInvisible
<1>1. Init => IInv
  BY InitEstablishes
<1>2. IInv /\ [Next]_vars => IInv'
  BY NextPreserves
<1>3. IInv => RestartInvisible
  BY RestoredCaches
<1> QED
  BY <1>1, <1>2, <1>3, PTL DEF Spec
-----------------------------------------------------------------------------
\* Given the inductive invariant, the missing positions are those from the
\* beginning of the log on whose record is not learned.
MissingAreUnlearned ==
    \A n \in Position : MissingPosition(n) <=> begin <= n /\ ~disk[n].learned

\* The inductive invariant makes ReplicaProcess::missing exact.
LEMMA MissingUnlearned == IInv => MissingAreUnlearned
<1> SUFFICES ASSUME IInv, NEW n \in Position
             PROVE  MissingPosition(n) <=> begin <= n /\ ~disk[n].learned
  BY DEF MissingAreUnlearned
<1>1. ~NoAction.learned /\ begin \in Nat /\ end \in Nat /\ n \in Nat
  BY BoundsAssumption DEF NoAction, IInv, TypeOK, Position
<1>2. CASE n < begin
  BY <1>1, <1>2 DEF MissingPosition
<1>3. CASE begin <= n /\ n > end
  BY <1>1, <1>3 DEF MissingPosition, IInv, CachesMatch
<1>4. CASE begin <= n /\ n <= end
  BY <1>1, <1>4 DEF MissingPosition, IInv, CachesMatch
<1> QED
  BY <1>1, <1>2, <1>3, <1>4

\* A step moves neither end of the log nor the implicit promise back, and
\* what it leaves of the log keeps what was learned and promised.
Keeps ==
    /\ metadata'.promised >= metadata.promised
    /\ begin' >= begin /\ end' >= end
    /\ \A n \in Position : n >= begin' =>
         /\ disk[n].learned => disk'[n].learned
         /\ disk'[n].learned \/ Guard(n)' >= Guard(n)

\* A step that leaves the records and the ends of the log alone.
LEMMA KeepsUnchanged ==
    ASSUME IInv, metadata'.promised >= metadata.promised,
           metadata'.promised \in Nat,
           begin' = begin, end' = end, disk' = disk
    PROVE  Keeps
<1>1. ASSUME NEW n \in Position PROVE Guard(n)' >= Guard(n)
  <2>1. disk[n].promised \in Nat /\ metadata.promised \in Nat
    BY BoundsAssumption DEF IInv, TypeOK, Action, Proposal
  <2> QED
    BY <2>1 DEF Guard, PromisedAt
<1> QED
  BY <1>1, BoundsAssumption DEF Keeps, IInv, TypeOK, Position

\* Answering a request forgets neither a learned value nor a promise.
LEMMA RespondKeeps ==
    ASSUME IInv,
           NEW request \in Requests, NEW deletes \in BOOLEAN,
           request.type = "learned" =>
             \/ disk[request.position].value # Tombstone
             \/ request.action.value = Tombstone,
           Respond(request, deletes)
    PROVE  Keeps
<1> DEFINE outcome == Decision(request)
           k == request.position
<1>1. /\ metadata'.promised \in Nat /\ metadata.promised \in Nat
      /\ metadata'.promised >= metadata.promised
  <2>1. metadata.promised \in Nat /\ request.proposal \in Nat
    BY RequestFacts, BoundsAssumption DEF IInv, TypeOK, Proposal
  <2>2. \/ outcome.promised = metadata.promised
        \/ outcome.promised = request.proposal
             /\ ~(request.proposal <= metadata.promised)
    BY DEF Decision, Handle, ImplicitPromise, ExplicitPromise, Write, Outcome
  <2>3. metadata'.promised = outcome.promised
    BY DEF Respond, IInv, TypeOK
  <2> QED
    BY <2>1, <2>2, <2>3
<1>2. CASE outcome.persists = {}
  BY <1>1, <1>2, KeepsUnchanged DEF Respond
<1>3. CASE outcome.persists # {}
  <2> DEFINE action == CHOOSE a \in outcome.persists : TRUE
  <2>1. action \in outcome.persists
    BY <1>3
  <2>2. Persist(k, action, deletes)
    BY <1>3 DEF Respond
  <2> HIDE DEF action
  <2>3. Persistable(k, action) /\ k \in Position
    BY <2>1, PersistsPersistable, RequestFacts
  <2>4. /\ disk'[k] = action
        /\ begin' >= begin /\ end' >= end /\ begin' >= TruncatesTo(k, action)
        /\ begin' \in Nat
        /\ \A m \in Position \ {k} :
             disk'[m] = disk[m] \/ m < DeletesTo(k, action)
    BY <2>2, <2>3, PersistEffect, BoundsAssumption
  <2>5. /\ DeletesTo(k, action) \in Nat /\ TruncatesTo(k, action) \in Nat
        /\ DeletesTo(k, action) <= TruncatesTo(k, action)
    BY <2>3, TruncationBounds, BoundsAssumption DEF Persistable, Position
  <2>6. ASSUME NEW n \in Position, n >= begin'
        PROVE  /\ disk[n].learned => disk'[n].learned
               /\ disk'[n].learned \/ Guard(n)' >= Guard(n)
    <3>1. CASE n = k
      <4>1. disk'[n] # NoAction
        BY <2>3, <2>4, <3>1 DEF Persistable
      <4> QED
        BY <2>3, <2>4, <3>1, <4>1 DEF Persistable, Guard, PromisedAt
    <3>2. CASE n # k
      <4>1. disk'[n] = disk[n]
        BY <2>4, <2>5, <2>6, <3>2, BoundsAssumption DEF Position
      <4>2. disk[n].promised \in Nat
        BY DEF IInv, TypeOK, Action
      <4> QED
        BY <1>1, <4>1, <4>2 DEF Guard, PromisedAt
    <3> QED
      BY <3>1, <3>2
  <2> QED
    BY <1>1, <2>4, <2>6 DEF Keeps
<1> QED
  BY <1>2, <1>3

\* No step does, restarts included.
LEMMA NextKeeps ==
    ASSUME ~LateNotices
    PROVE  IInv /\ [Next]_vars => Keeps
<1> SUFFICES ASSUME IInv, [Next]_vars PROVE Keeps
  OBVIOUS
<1>0. metadata.promised \in Nat /\ metadata.promised >= metadata.promised
  BY BoundsAssumption DEF IInv, TypeOK, Proposal
<1>1. CASE promise \/ write \/ learned
  <2>1. PICK request \in Requests, deletes \in BOOLEAN :
          /\ request.type = "learned" =>
               \/ disk[request.position].value # Tombstone
               \/ request.action.value = Tombstone
          /\ Respond(request, deletes)
    BY <1>1, ArrivingRequest
  <2> QED
    BY <2>1, RespondKeeps
<1>2. CASE update
  <2>1. metadata'.promised = metadata.promised
    BY <1>2 DEF update, IInv, TypeOK
  <2> QED
    BY <1>0, <1>2, <2>1, KeepsUnchanged DEF update
<1>3. CASE Restart
  BY <1>0, <1>3, RestoredEnds, KeepsUnchanged DEF Restart
<1>4. CASE UNCHANGED vars
  BY <1>0, <1>4, KeepsUnchanged DEF vars
<1> QED
  BY <1>1, <1>2, <1>3, <1>4 DEF Next

\* A replica forgets nothing across requests and restarts: its promise and
\* the ends of its log never move back, and what it has learned never
\* becomes missing again (ReplicaProcess::missing).
THEOREM ForgetsNothing ==
    ASSUME ~LateNotices
    PROVE  Spec => NothingForgotten
<1>1. Init => IInv
  BY InitEstablishes
<1>2. IInv /\ [Next]_vars => IInv'
  BY NextPreserves
<1>3. IInv' => MissingAreUnlearned'
  BY MissingUnlearned, PTL
<1>4. ASSUME IInv, IInv', [Next]_vars
      PROVE  /\ metadata'.promised >= metadata.promised
             /\ begin' >= begin
             /\ end' >= end
             /\ \A n \in Position : MissingPosition(n)' => MissingPosition(n)
  <2>1. Keeps
    BY <1>4, NextKeeps
  <2>2. ASSUME NEW n \in Position, MissingPosition(n)' PROVE MissingPosition(n)
    <3>1. begin \in Nat /\ begin' \in Nat /\ n \in Nat
      BY <1>4, BoundsAssumption DEF IInv, TypeOK, Position
    <3>2. begin' <= n /\ ~disk'[n].learned
      BY <1>3, <1>4, <2>2 DEF MissingAreUnlearned
    <3> QED
      BY <1>4, <2>1, <3>1, <3>2, MissingUnlearned
      DEF Keeps, MissingAreUnlearned
  <2> QED
    BY <2>1, <2>2 DEF Keeps
<1> QED
  BY <1>1, <1>2, <1>4, PTL DEF Spec, NothingForgotten

\* Until a position is learned or truncated the proposal that guards it
\* never goes down (ReplicaProcess::promise and ReplicaProcess::write).
THEOREM KeepsPromises ==
    ASSUME ~LateNotices
    PROVE  Spec => PromisesKept
<1>1. Init => IInv
  BY InitEstablishes
<1>2. IInv /\ [Next]_vars => IInv'
  BY NextPreserves
<1>3. IInv' => MissingAreUnlearned'
  BY MissingUnlearned, PTL
<1>4. ASSUME IInv, IInv', [Next]_vars
      PROVE  \A n \in Position : MissingPosition(n)' => Guard(n)' >= Guard(n)
  <2>1. Keeps
    BY <1>4, NextKeeps
  <2>2. ASSUME NEW n \in Position, MissingPosition(n)'
        PROVE  Guard(n)' >= Guard(n)
    <3>1. begin' \in Nat /\ n \in Nat
      BY <1>4, BoundsAssumption DEF IInv, TypeOK, Position
    <3>2. begin' <= n /\ ~disk'[n].learned
      BY <1>3, <1>4, <2>2 DEF MissingAreUnlearned
    <3> QED
      BY <2>1, <3>1, <3>2 DEF Keeps
  <2> QED
    BY <2>2
<1> QED
  BY <1>1, <1>2, <1>4, PTL DEF Spec, PromisesKept
-----------------------------------------------------------------------------
(***************************************************************************)
(* Replica implements Acceptor.  ReplicatedLog is composed of the abstract *)
(* state of replicas: this is what allows it to leave out the storage, the *)
(* caches and the restarts.                                                *)
(*                                                                         *)
(* The inductive invariant says that a handler reads what is on disk, that *)
(* a deletion reaches only records below the new beginning of the log,     *)
(* which the mapping hides, and that a restart rebuilds the ends of the    *)
(* log: it is a stuttering step.                                           *)
(***************************************************************************)
State(status, p, from, last, log) ==
    [status |-> status, promised |-> p, begin |-> from, end |-> last, log |-> log]

ShownLog == [n \in Position |-> IF n < begin THEN NoAction ELSE disk[n]]

\* What is visible of a replica: the refinement mapping of Replica.
Shown == State(metadata.status, metadata.promised, begin, end, ShownLog)

\* The decision of a handler depends on what is visible only.
LEMMA DecidesOnShown ==
    ASSUME IInv, NEW request \in Requests
    PROVE  OutcomeOf(Shown, request) = Decision(request)
<1>1. request.position \in Position
  BY RequestFacts
<1>2. /\ Shown.status = metadata.status /\ Shown.promised = metadata.promised
      /\ Shown.begin = begin /\ Shown.end = end /\ Shown.log = ShownLog
  BY DEF Shown, State
<1>3. Shown.log[request.position] =
        IF request.position < begin THEN NoAction ELSE Read(request.position)
  <2>1. CASE request.position < begin
    BY <1>1, <2>1, <1>2 DEF ShownLog
  <2>2. CASE ~(request.position < begin)
    <3>1. begin <= request.position
      BY <1>1, <2>2, BoundsAssumption DEF IInv, TypeOK, Position
    <3>2. Read(request.position) = disk[request.position]
      BY <1>1, <3>1, ReadsDisk
    <3> QED
      BY <1>1, <1>2, <2>2, <3>2 DEF ShownLog
  <2> QED
    BY <2>1, <2>2
<1> QED
  BY <1>2, <1>3 DEF OutcomeOf, Decision

\* Persisting a record, with or without the deletion of what it truncates,
\* shows as Persisted.
LEMMA PersistShows ==
    ASSUME IInv, NEW n \in Position, NEW action, NEW deletes \in BOOLEAN,
           Persistable(n, action), Persist(n, action, deletes), NEW promised,
           metadata' = [metadata EXCEPT !.promised = promised]
    PROVE  Shown' = Persisted([Shown EXCEPT !.promised = promised], n, action)
<1> DEFINE r == [Shown EXCEPT !.promised = promised]
           to == Larger(r.begin, TruncatesTo(n, action))
           log == [m \in Position |-> IF m < to THEN NoAction
                                      ELSE IF m = n THEN action ELSE r.log[m]]
<1>1. /\ disk'[n] = action
      /\ \A m \in Position \ {n} :
           disk'[m] = disk[m] \/ m < DeletesTo(n, action)
      /\ begin' = Larger(begin, TruncatesTo(n, action))
      /\ begin' \in Nat /\ begin \in Nat /\ begin' >= begin
      /\ begin' >= TruncatesTo(n, action)
      /\ end' = Larger(end, n)
  BY PersistEffect, BoundsAssumption DEF IInv, TypeOK
<1>2. /\ DeletesTo(n, action) \in Nat /\ TruncatesTo(n, action) \in Nat
      /\ DeletesTo(n, action) <= TruncatesTo(n, action)
  BY TruncationBounds, BoundsAssumption DEF Persistable, Position
<1>3. r = State(metadata.status, promised, begin, end, ShownLog)
  BY DEF Shown, State
<1>4. r.begin = begin /\ r.end = end /\ r.log = ShownLog
  <2> HIDE DEF r
  <2> QED
    BY <1>3 DEF State
<1>5. ASSUME NEW m \in Position
      PROVE  (IF m < begin' THEN NoAction ELSE disk'[m]) = log[m]
  <2>1. to = begin'
    BY <1>1, <1>4
  <2>2. CASE m < begin'
    BY <2>1, <2>2
  <2>3. CASE ~(m < begin') /\ m = n
    BY <1>1, <2>1, <2>3
  <2>4. CASE ~(m < begin') /\ m # n
    <3>1. ~(m < begin) /\ ~(m < DeletesTo(n, action))
      BY <1>1, <1>2, <2>4, BoundsAssumption DEF Position
    <3>2. disk'[m] = disk[m]
      BY <1>1, <2>4, <3>1
    <3>3. r.log[m] = disk[m]
      BY <1>4, <3>1 DEF ShownLog
    <3> QED
      BY <2>1, <2>4, <3>2, <3>3
  <2> QED
    BY <2>2, <2>3, <2>4
<1>6. ShownLog' = log
  BY <1>5 DEF ShownLog
<1>7. metadata'.status = metadata.status /\ metadata'.promised = promised
  BY DEF IInv, TypeOK
<1>8. Shown' = State(metadata.status, promised, begin', end', log)
  BY <1>6, <1>7 DEF Shown
<1>9. Persisted(r, n, action) =
        [[[r EXCEPT !.begin = to] EXCEPT !.end = Larger(end, n)] EXCEPT !.log = log]
  <2>1. Persisted(r, n, action) =
          [r EXCEPT !.begin = to, !.end = Larger(r.end, n), !.log = log]
    BY DEF Persisted
  <2> HIDE DEF r, to, log
  <2> QED
    BY <1>4, <2>1
<1>10. Persisted(r, n, action) =
        State(metadata.status, promised, to, Larger(end, n), log)
  <2> DEFINE q == [r EXCEPT !.begin = to]
             last == Larger(end, n)
             t == [q EXCEPT !.end = last]
  <2> HIDE DEF r, to, log
  <2>1. q = State(metadata.status, promised, to, end, ShownLog)
    BY <1>3 DEF State
  <2> HIDE DEF q, last
  <2>2. t = State(metadata.status, promised, to, last, ShownLog)
    BY <2>1 DEF State
  <2> HIDE DEF t
  <2>3. [t EXCEPT !.log = log] = State(metadata.status, promised, to, last, log)
    BY <2>2 DEF State
  <2> QED
    BY <1>9, <2>3 DEF t, q, last
<1> QED
  BY <1>1, <1>4, <1>8, <1>10

\* The handler of a request shows as Handled.
LEMMA RespondShows ==
    ASSUME IInv,
           NEW request \in Requests, NEW deletes \in BOOLEAN,
           request.type = "learned" =>
             \/ disk[request.position].value # Tombstone
             \/ request.action.value = Tombstone,
           Respond(request, deletes)
    PROVE  Shown' = Handled(Shown, request)
<1> DEFINE outcome == Decision(request)
<1>1. OutcomeOf(Shown, request) = outcome
  BY DecidesOnShown
<1>2. metadata' = [metadata EXCEPT !.promised = outcome.promised]
  BY DEF Respond
<1>3. CASE outcome.persists = {}
  <2>1. /\ disk' = disk /\ begin' = begin /\ end' = end
        /\ metadata'.status = metadata.status
        /\ metadata'.promised = outcome.promised
    BY <1>2, <1>3 DEF Respond, IInv, TypeOK
  <2>2. ShownLog' = ShownLog
    BY <2>1 DEF ShownLog
  <2>3. Shown' = State(metadata.status, outcome.promised, begin, end, ShownLog)
    BY <2>1, <2>2 DEF Shown
  <2> HIDE DEF outcome
  <2>4. Shown' = [Shown EXCEPT !.promised = outcome.promised]
    BY <2>3 DEF Shown, State
  <2> QED
    BY <1>1, <1>3, <2>4 DEF Handled
<1>4. CASE outcome.persists # {}
  <2> DEFINE action == CHOOSE a \in outcome.persists : TRUE
  <2>1. action \in outcome.persists
    BY <1>4
  <2>2. Persist(request.position, action, deletes)
    BY <1>4 DEF Respond
  <2>3. Handled(Shown, request) =
          Persisted([Shown EXCEPT !.promised = outcome.promised],
                    request.position, action)
    BY <1>1, <1>4 DEF Handled
  <2> HIDE DEF action, outcome
  <2>4. Persistable(request.position, action) /\ request.position \in Position
    BY <2>1, PersistsPersistable, RequestFacts DEF outcome
  <2> QED
    BY <1>2, <2>2, <2>3, <2>4, PersistShows
<1> QED
  BY <1>3, <1>4

\* The definitions of Acceptor are those that Replica uses.
LEMMA SameHandlers ==
    /\ \A r, request : Abstract!Handled(r, request) = Handled(r, request)
    /\ \A status : Abstract!NewReplica(status) = NewReplica(status)
    /\ Abstract!Status = Status
<1>1. Abstract!Status = Status
  BY DEF Abstract!Status, Status
<1>2. \A status : Abstract!NewReplica(status) = NewReplica(status)
  BY DEF Abstract!NewReplica, NewReplica, Abstract!Position, Position,
         Abstract!NoAction, NoAction, Abstract!NoValue, NoValue
<1>3. ASSUME NEW status, NEW p, NEW from, NEW last, NEW a, NEW request
      PROVE  Abstract!Handle(status, p, from, last, a, request) =
               Handle(status, p, from, last, a, request)
  BY DEF Abstract!Handle, Handle, Abstract!ImplicitPromise, ImplicitPromise,
         Abstract!ExplicitPromise, ExplicitPromise, Abstract!Write, Write,
         Abstract!Outcome, Outcome, Abstract!Reply, Reply, Abstract!Reject, Reject,
         Abstract!Silent, Silent, Abstract!Ignored, Ignored, Abstract!PromisedAt, PromisedAt,
         Abstract!Truncated, Truncated, Abstract!Tombstone, Tombstone,
         Abstract!NoAction, NoAction, Abstract!NoValue, NoValue
<1>4. ASSUME NEW r, NEW n, NEW action
      PROVE  Abstract!Persisted(r, n, action) = Persisted(r, n, action)
  BY DEF Abstract!Persisted, Persisted, Abstract!Larger, Larger,
         Abstract!TruncatesTo, TruncatesTo, Abstract!Position, Position,
         Abstract!NoAction, NoAction, Abstract!NoValue, NoValue
<1>5. ASSUME NEW r, NEW request
      PROVE  Abstract!Handled(r, request) = Handled(r, request)
  <2>1. Abstract!OutcomeOf(r, request) = OutcomeOf(r, request)
    BY <1>3 DEF Abstract!OutcomeOf, OutcomeOf
  <2> QED
    BY <1>4, <2>1 DEF Abstract!Handled, Handled
<1> QED
  BY <1>1, <1>2, <1>5

\* A step of the replica shows as a step of the acceptor or as none.
LEMMA NextShows ==
    ASSUME ~LateNotices
    PROVE  IInv /\ [Next]_vars => [Abstract!Next]_Shown
<1> SUFFICES ASSUME IInv, [Next]_vars PROVE Abstract!Next \/ Shown' = Shown
  BY DEF Abstract!Next
<1>1. CASE promise \/ write \/ learned
  <2>1. PICK request \in Requests, deletes \in BOOLEAN :
          /\ request.type = "learned" =>
               \/ disk[request.position].value # Tombstone
               \/ request.action.value = Tombstone
          /\ Respond(request, deletes)
    BY <1>1, ArrivingRequest
  <2>2. Shown' = Handled(Shown, request)
    BY <2>1, RespondShows
  <2> QED
    BY <2>2, SameHandlers DEF Abstract!Next, Abstract!HandleRequest, Shown, ShownLog, State
<1>2. CASE update
  <2>1. PICK status \in Status : metadata' = [metadata EXCEPT !.status = status]
    BY <1>2 DEF update
  <2>2. metadata'.status = status /\ metadata'.promised = metadata.promised
    BY <2>1 DEF IInv, TypeOK
  <2>3. ShownLog' = ShownLog
    BY <1>2 DEF update, ShownLog
  <2>4. Shown' = State(status, metadata.promised, begin, end, ShownLog)
    BY <1>2, <2>2, <2>3 DEF update, Shown
  <2>5. Shown' = [Shown EXCEPT !.status = status]
    BY <2>4 DEF Shown, State
  <2> QED
    BY <2>5, SameHandlers DEF Abstract!Next, Abstract!UpdateStatus, Shown, ShownLog, State
<1>3. CASE Restart
  BY <1>3, RestoredEnds DEF Restart, Shown, ShownLog
<1>4. CASE UNCHANGED vars
  BY <1>4 DEF vars, Shown, ShownLog
<1> QED
  BY <1>1, <1>2, <1>3, <1>4 DEF Next

\* The storage engine, the caches, deletions that fail and restarts
\* (replica.cpp, leveldb.cpp) cannot be told from the outside: each step of
\* a replica is one of the abstract acceptor or changes nothing of it.
THEOREM ReplicaIsAcceptor ==
    ASSUME ~LateNotices
    PROVE  Spec => ImplementsAcceptor
<1>1. Init => IInv
  BY InitEstablishes
<1>2. IInv /\ [Next]_vars => IInv'
  BY NextPreserves
<1>3. Init => Abstract!Init
  <2> SUFFICES ASSUME Init PROVE Abstract!Init
    OBVIOUS
  <2>1. Shown = NewReplica(metadata.status)
    BY BoundsAssumption DEF Init, Shown, ShownLog, State, NewReplica, Position
  <2> QED
    BY <2>1, SameHandlers DEF Init, Abstract!Init, Shown, ShownLog, State
<1>4. IInv /\ [Next]_vars => [Abstract!Next]_Shown
  BY NextShows
<1> QED
  BY <1>1, <1>2, <1>3, <1>4, PTL DEF Spec, ImplementsAcceptor, Abstract!Spec, Shown, ShownLog, State
=============================================================================
