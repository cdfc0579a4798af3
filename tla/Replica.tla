------------------------------- MODULE Replica -------------------------------
(***************************************************************************)
(* One log replica: the handlers of src/log/replica.cpp on top of the     *)
(* LevelDB storage of src/log/leveldb.cpp, with restarts at any moment.    *)
(* The replica answers from caches (begin, end, holes, unlearned, the      *)
(* metadata) that it rebuilds from the records on disk when it restarts.  *)
(* A disk write that fails changes nothing and sends no reply, which is a *)
(* stuttering step here; only the deletion of truncated records is         *)
(* best-effort and may fail on its own.                                    *)
(***************************************************************************)
EXTENDS ReplicaHandlers

CONSTANTS
    Agreed,      \* environment: the value the log agrees on at a position
    Proposed,    \* environment: the values proposers write at a position
    LateNotices  \* environment: a learned notice with the agreed value may
                 \* reach a replica that recorded the position's tombstone

ASSUME ProposedAssumption == Proposed \in [Position -> SUBSET Value]

\* A writer truncates to a position it has seen, so never past the position
\* of the truncation itself.
ASSUME AgreedAssumption ==
    /\ Agreed \in [Position -> Value]
    /\ \A n \in Position :
         /\ Agreed[n].type \in {"NOP", "APPEND", "TRUNCATE"}
         /\ Agreed[n].type = "TRUNCATE" => Agreed[n].arg <= n

ASSUME LateNoticesAssumption == LateNotices \in BOOLEAN

VARIABLES
    metadata,   \* status and implicit promise, on disk and cached
    disk,       \* leveldb: the record of each position
    first,      \* LevelDBStorage::first, None before the first record
    begin,      \* beginning of the log, after learned truncations
    end,        \* last position written
    holes,      \* positions without a record
    unlearned   \* positions with a record that is not learned

vars == <<metadata, disk, first, begin, end, holes, unlearned>>

None == -1

(***************************************************************************)
(* LevelDBStorage::restore and ReplicaProcess::restore: everything the     *)
(* caches hold is recomputed from the records.                             *)
(***************************************************************************)
Recorded(d) == {n \in Position : d[n] # NoAction}

RestoredBeginOfTruncates(d) ==
    Largest({0} \cup {TruncatesTo(n, d[n]) :
                        n \in {m \in Recorded(d) : d[m].value # Tombstone}})

RestoredBegin(d) == Largest({0} \cup {TruncatesTo(n, d[n]) : n \in Recorded(d)})

RestoredEnd(d) == Largest({0} \cup Recorded(d))

RestoredUnlearned(d) == {n \in Recorded(d) : ~d[n].learned}

RestoredHoles(d) == (RestoredBegin(d) .. RestoredEnd(d)) \ Recorded(d)

RestoredFirst(d) == IF Recorded(d) = {} THEN None ELSE Smallest(Recorded(d))

(***************************************************************************)
(* ReplicaProcess::persist.  The storage writes the record, then deletes  *)
(* the records a learned truncation covers ("deletes" is FALSE when that  *)
(* fails), from the first one it knows of; the caches follow.              *)
(***************************************************************************)
DeletesToInclusive(position, action) ==
    IF ~action.learned THEN 0
    ELSE IF action.value.type = "TRUNCATE" THEN action.value.arg + 1
    ELSE IF action.value.type = "TOMBSTONE" THEN position + 1
    ELSE 0

DeletesTo(position, action) ==
    IF ~action.learned THEN 0
    ELSE IF action.value.type = "TRUNCATE" THEN action.value.arg
    ELSE IF action.value.type = "TOMBSTONE" THEN position
    ELSE 0

Store(position, action, deletes) ==
    LET from == IF first = None \/ position < first THEN position ELSE first
        to == DeletesTo(position, action)
    IN  /\ disk' = [n \in Position |->
                      IF deletes /\ from <= n /\ n < to THEN NoAction
                      ELSE IF n = position THEN action
                      ELSE disk[n]]
        /\ first' = IF deletes /\ from < to THEN to ELSE from

LastWrittenPastEnd(position) == Larger(end, position + 1)

LastWritten(position) == Larger(end, position)

Persist(position, action, deletes) ==
    LET cleared == 1 .. DeletesTo(position, action) - 1
    IN  /\ Store(position, action, deletes)
        /\ holes' = ((holes \ {position}) \ cleared)
                      \cup (IF position > end
                            THEN end + 1 .. position - 1 ELSE {})
        /\ unlearned' = IF action.learned
                        THEN (unlearned \ {position}) \ cleared
                        ELSE unlearned \cup {position}
        /\ begin' = Larger(begin, TruncatesTo(position, action))
        /\ end' = LastWritten(position)

\* ReplicaProcess::read(position), of a position that is not truncated.
Read(position) ==
    IF end < position \/ position \in holes THEN NoAction ELSE disk[position]

(***************************************************************************)
(* The requests that may arrive.  A position is learned with the value     *)
(* the log agreed on, or as a tombstone once it has been truncated.        *)
(***************************************************************************)
LearnedValues(position) ==
    {Agreed[position]}
      \cup {Tombstone : n \in {m \in Position :
              Agreed[m].type = "TRUNCATE" /\ position < Agreed[m].arg}}

PromiseRequests ==
    {Request("implicit", p, 0, NoAction) : p \in Proposal}
      \cup {Request("explicit", p, n, NoAction) :
              p \in Proposal, n \in Position}

WritesAt(n, p) ==
    {Request("write", p, n, PerformedBy(p, v, FALSE)) : v \in Proposed[n]}

WriteRequests ==
    UNION {WritesAt(n, p) : n \in Position, p \in Proposal \ {0}}

NoticesAt(n, p) ==
    {Request("learned", p, n, PerformedBy(p, v, TRUE)) : v \in LearnedValues(n)}

LearnedRequests == UNION {NoticesAt(n, p) : n \in Position, p \in Proposal}

Requests == PromiseRequests \cup WriteRequests \cup LearnedRequests
-----------------------------------------------------------------------------
\* The replica process creates its storage and restores it: a new log has
\* one hole, position 0.  It may have been initialized by hand to vote.
Init ==
    /\ metadata \in [status : {"EMPTY", "VOTING"}, promised : {0}]
    /\ disk = [n \in Position |-> NoAction]
    /\ first = None
    /\ begin = 0 /\ end = 0
    /\ holes = {0} /\ unlearned = {}

\* What a handler decides, from the record it reads.
Decision(request) ==
    Handle(metadata.status, metadata.promised, begin, end,
           IF request.position < begin THEN NoAction
           ELSE Read(request.position), request)

Respond(request, deletes) ==
    LET outcome == Decision(request)
    IN  /\ metadata' = [metadata EXCEPT !.promised = outcome.promised]
        /\ IF outcome.persists = {}
           THEN UNCHANGED <<disk, first, begin, end, holes, unlearned>>
           ELSE Persist(request.position,
                        CHOOSE action \in outcome.persists : TRUE, deletes)

promise ==
    \E request \in PromiseRequests, deletes \in BOOLEAN :
        Respond(request, deletes)

write == \E request \in WriteRequests : Respond(request, TRUE)

learned ==
    \E request \in LearnedRequests, deletes \in BOOLEAN :
        /\ \/ LateNotices
           \/ disk[request.position].value # Tombstone
           \/ request.action.value = Tombstone
        /\ Respond(request, deletes)

\* RecoverProcess moves the replica through its statuses up to VOTING.
update ==
    /\ metadata.status # "VOTING"
    /\ \E status \in Status : metadata' = [metadata EXCEPT !.status = status]
    /\ UNCHANGED <<disk, first, begin, end, holes, unlearned>>

\* The process ends at any moment and a new one restores from disk.
Restart ==
    /\ begin' = RestoredBegin(disk)
    /\ end' = RestoredEnd(disk)
    /\ unlearned' = RestoredUnlearned(disk)
    /\ holes' = RestoredHoles(disk)
    /\ first' = RestoredFirst(disk)
    /\ UNCHANGED <<metadata, disk>>

Next == promise \/ write \/ learned \/ update \/ Restart

Spec == Init /\ [][Next]_vars
-----------------------------------------------------------------------------
\* Type correctness of the caches and of the storage.
TypeOK ==
    /\ metadata \in [status : Status, promised : Proposal]
    /\ disk \in [Position -> Action]
    /\ first \in {None} \cup Position
    /\ begin \in 0 .. MaxPosition + 1
    /\ end \in Position
    /\ holes \subseteq Position
    /\ unlearned \subseteq Position

\* Restarting is invisible: what ReplicaProcess::restore would compute from
\* the records on disk, after deletions that may have failed, agrees with
\* the caches ReplicaProcess::persist maintains, on the ends of the log and
\* on which positions between them are holes or unlearned.
RestartInvisible ==
    /\ RestoredBegin(disk) = begin
    /\ RestoredEnd(disk) = end
    /\ \A n \in begin .. end :
         /\ n \in holes <=> n \in RestoredHoles(disk)
         /\ n \in unlearned <=> n \in RestoredUnlearned(disk)

\* ReplicaProcess::missing(position).
MissingPosition(n) == n >= begin /\ (n > end \/ n \in holes \cup unlearned)

\* A replica forgets nothing, across requests and restarts: its implicit
\* promise and the ends of its log never move back, and a position it has
\* learned (or knows to be truncated) never becomes missing again.
NothingForgotten ==
    [][/\ metadata'.promised >= metadata.promised
       /\ begin' >= begin
       /\ end' >= end
       /\ \A n \in Position : MissingPosition(n)' => MissingPosition(n)]_vars

\* The proposal below which the replica rejects writes at a position.
Guard(n) == PromisedAt(metadata.promised, disk[n])

\* Promises are kept: until a position is learned or truncated, the
\* proposal that guards it never goes down, whatever requests arrive and
\* however often the replica restarts.
PromisesKept ==
    [][\A n \in Position :
         MissingPosition(n)' => Guard(n)' >= Guard(n)]_vars

\* The replica implements Acceptor: storage, caches, best-effort deletion
\* and restarts cannot be observed through its records, promise and ends.
Abstract == INSTANCE Acceptor WITH acceptor <-
    [status |-> metadata.status, promised |-> metadata.promised,
     begin |-> begin, end |-> end,
     log |-> [n \in Position |-> IF n < begin THEN NoAction ELSE disk[n]]]

ImplementsAcceptor == Abstract!Spec

\* A restarted replica recovers the beginning of its log, which is why the
\* truncation indicator of a position has to stay on disk.
RestartKeepsBegin == RestoredBegin(disk) >= begin
=============================================================================
