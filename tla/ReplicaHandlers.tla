-------------------------- MODULE ReplicaHandlers --------------------------
(***************************************************************************)
(* The decisions a log replica takes on a promise, write or learned       *)
(* request (src/log/replica.cpp), as constant-level operators.  They are   *)
(* shared by Replica, which adds the storage engine and the in-memory     *)
(* caches, by Acceptor, the abstract replica, and by ReplicatedLog, which *)
(* composes several replicas with their coordinators.                      *)
(***************************************************************************)
EXTENDS Integers

CONSTANTS
    MaxPosition,  \* bound: the positions of the log are 0 .. MaxPosition
    MaxProposal,  \* bound: the proposal numbers are 0 .. MaxProposal
    Datum         \* what clients append

ASSUME BoundsAssumption == MaxPosition \in Nat /\ MaxProposal \in Nat

Position == 0 .. MaxPosition
Proposal == 0 .. MaxProposal
Status == {"EMPTY", "STARTING", "RECOVERING", "VOTING"}

(***************************************************************************)
(* What an action does: nothing yet (a bare promise), a no-op, the        *)
(* tombstone of a truncated position, an append of the datum "arg", or a  *)
(* truncation up to but excluding the position "arg".                      *)
(***************************************************************************)
NoValue == [type |-> "NONE", arg |-> 0]
Nop == [type |-> "NOP", arg |-> 0]
Tombstone == [type |-> "TOMBSTONE", arg |-> 0]
AppendValue(data) == [type |-> "APPEND", arg |-> data]
TruncateValue(to) == [type |-> "TRUNCATE", arg |-> to]

Value ==
    [type : {"NONE", "NOP", "TOMBSTONE"}, arg : {0}]
      \cup [type : {"APPEND"}, arg : Datum]
      \cup [type : {"TRUNCATE"}, arg : Nat]

(***************************************************************************)
(* The record of one position.  An optional field that is not set is 0,   *)
(* FALSE or NoValue; a position without a record has NoAction, which no   *)
(* record equals: a record is promised to a proposal above 0, performed   *)
(* by one, or learned.                                                     *)
(***************************************************************************)
Action == [promised : Nat, performed : Nat, learned : BOOLEAN, value : Value]

NoAction ==
    [promised |-> 0, performed |-> 0, learned |-> FALSE, value |-> NoValue]

\* The action a proposer with proposal p writes, or has learned.
PerformedBy(p, value, learned) ==
    [promised |-> p, performed |-> p, learned |-> learned, value |-> value]

Request(type, p, position, action) ==
    [type |-> type, proposal |-> p, position |-> position, action |-> action]

\* The largest element of a finite set of numbers.
Largest(S) == CHOOSE m \in S : \A n \in S : n <= m
Smallest(S) == CHOOSE m \in S : \A n \in S : m <= n

(***************************************************************************)
(* How a truncation that has been learned moves the beginning of the log: *)
(* a TRUNCATE to its argument, a tombstone to the position after it.  0   *)
(* stands for an action that truncates nothing.                            *)
(***************************************************************************)
TruncatesTo(position, action) ==
    IF ~action.learned THEN 0
    ELSE IF action.value.type = "TRUNCATE" THEN action.value.arg
    ELSE IF action.value.type = "TOMBSTONE" THEN position + 1
    ELSE 0

(***************************************************************************)
(* The outcome of a handler: the highest implicit promise afterwards, the *)
(* actions it persists (none or one, the request's position is theirs)    *)
(* and its reply.  A handler whose reply is Silent sends nothing.          *)
(***************************************************************************)
Reply(type, proposal, position, action) ==
    [type |-> type, proposal |-> proposal, position |-> position,
     action |-> action]

Silent == Reply("SILENT", 0, 0, NoAction)
Ignored(p) == Reply("IGNORED", p, 0, NoAction)
Reject(p) == Reply("REJECT", p, 0, NoAction)

Outcome(promised, persists, reply) ==
    [promised |-> promised, persists |-> persists, reply |-> reply]

(***************************************************************************)
(* The proposal that guards a position: the record's own promise when     *)
(* there is a record, the implicit promise otherwise.                      *)
(***************************************************************************)
PromisedAt(promised, a) == IF a = NoAction THEN promised ELSE a.promised

ImplicitPromiseTwice(promised, end, p) ==
    IF p < promised
    THEN Outcome(promised, {}, Reject(promised))
    ELSE Outcome(p, {}, Reply("ACCEPT", p, end, NoAction))

\* An implicit promise covers every position the replica has no record of.
ImplicitPromise(promised, end, p) ==
    IF p <= promised
    THEN Outcome(promised, {}, Reject(promised))
    ELSE Outcome(p, {}, Reply("ACCEPT", p, end, NoAction))

TruncatedInclusive(position, begin) == position <= begin

Truncated(position, begin) == position < begin

\* An explicit promise, for a single position, returns the record it finds.
\* A truncated position is reported as a learned tombstone, without looking
\* at the proposal and without persisting anything.
ExplicitPromise(promised, begin, a, p, position) ==
    LET floor == PromisedAt(promised, a)
        tombstone == [promised |-> promised, performed |-> promised,
                      learned |-> TRUE, value |-> Tombstone]
    IN  IF Truncated(position, begin)
        THEN Outcome(promised, {}, Reply("ACCEPT", p, position, tombstone))
        ELSE IF p <= floor
        THEN Outcome(promised, {}, Reject(floor))
        ELSE Outcome(promised, {[a EXCEPT !.promised = p]},
                     Reply("ACCEPT", p, position, a))

WriteDropsPromise(promised, begin, a, p, position, value) ==
    IF Truncated(position, begin)
    THEN Outcome(promised, {}, Silent)
    ELSE IF p < PromisedAt(promised, a)
    THEN Outcome(promised, {}, Reject(PromisedAt(promised, a)))
    ELSE IF a.learned
    THEN Outcome(promised, {}, Silent)
    ELSE Outcome(promised,
                 {[a EXCEPT !.performed = p, !.value = value]},
                 Reply("ACCEPT", p, position, NoAction))

\* A write is accepted from the promised proposal or a higher one.  It keeps
\* the promise it found: the proposal of the write does not become one.
\* Truncated and learned positions are left alone, without a reply.
Write(promised, begin, a, p, position, value) ==
    LET floor == PromisedAt(promised, a)
    IN  IF Truncated(position, begin)
        THEN Outcome(promised, {}, Silent)
        ELSE IF p < floor
        THEN Outcome(promised, {}, Reject(floor))
        ELSE IF a.learned
        THEN Outcome(promised, {}, Silent)
        ELSE Outcome(promised,
                     {[promised |-> floor, performed |-> p,
                       learned |-> FALSE, value |-> value]},
                     Reply("ACCEPT", p, position, NoAction))

\* ReplicaProcess::promise and ReplicaProcess::write, for a request
\* [type, proposal, position, value]; "a" is the record at its position.
Handle(status, promised, begin, end, a, request) ==
    IF request.type = "learned"
    THEN Outcome(promised, {request.action}, Silent)
    ELSE IF status # "VOTING"
    THEN Outcome(promised, {}, Ignored(request.proposal))
    ELSE IF request.type = "implicit"
    THEN ImplicitPromise(promised, end, request.proposal)
    ELSE IF request.type = "explicit"
    THEN ExplicitPromise(promised, begin, a, request.proposal,
                         request.position)
    ELSE Write(promised, begin, a, request.proposal, request.position,
               request.action.value)

(***************************************************************************)
(* The abstract state of a replica: its status, its implicit promise, the *)
(* first and last position of its log and the records from the first on.  *)
(***************************************************************************)
ReplicaState ==
    [status : Status, promised : Nat, begin : Nat, end : Nat,
     log : [Position -> Action]]

Larger(m, n) == IF m >= n THEN m ELSE n

\* A replica whose storage holds nothing but its status.
NewReplica(status) ==
    [status |-> status, promised |-> 0, begin |-> 0, end |-> 0,
     log |-> [n \in Position |-> NoAction]]

\* The effect of persisting "action": records below the new beginning of
\* the log are gone.
Persisted(r, position, action) ==
    LET begin == Larger(r.begin, TruncatesTo(position, action))
    IN  [r EXCEPT !.begin = begin,
                  !.end = Larger(r.end, position),
                  !.log = [n \in Position |->
                             IF n < begin THEN NoAction
                             ELSE IF n = position THEN action
                             ELSE r.log[n]]]

OutcomeOf(r, request) ==
    Handle(r.status, r.promised, r.begin, r.end, r.log[request.position],
           request)

\* The replica after it has handled "request".
Handled(r, request) ==
    LET outcome == OutcomeOf(r, request)
        promised == [r EXCEPT !.promised = outcome.promised]
    IN  IF outcome.persists = {} THEN promised
        ELSE Persisted(promised, request.position,
                       CHOOSE action \in outcome.persists : TRUE)

\* A position is missing when the replica has not learned its value.
\* Truncated positions count as learned.
Missing(r, position) ==
    position >= r.begin /\ ~r.log[position].learned
=============================================================================
