------------------------------ MODULE LogStorage ------------------------------
(***************************************************************************)
(* The storage of versioned variables in the replicated log                *)
(* (src/state/log.cpp): the log holds SNAPSHOT, DIFF and EXPUNGE           *)
(* operations, and every storage process keeps in memory the snapshots it  *)
(* gets by applying them.                                                  *)
(*                                                                         *)
(* The log is what log.hpp promises: the position of an entry is its index *)
(* in "log", the entries below "begin" are truncated, and a writer can     *)
(* append from the time it is started until another one is.  An append     *)
(* that was not acknowledged is at some of the replicas; the writer that   *)
(* is started next finds it or does not, and one that nobody found can be  *)
(* found as long as its position is free ("proposed").                     *)
(***************************************************************************)
EXTENDS Integers, FiniteSets, Sequences, SequencesExt

CONSTANTS
    Storages,               \* the storage processes, one for each master
    Names,                  \* the names of variables
    None,
    DiffsBetweenSnapshots,  \* the flag of LogStorage
    Clients                 \* what the clients do: the names they use, and
                            \* bounds on all their writes and on the calls
                            \* each of them has outstanding

ASSUME StorageAssumption ==
    /\ None \notin Storages
    /\ DiffsBetweenSnapshots \in Nat
    /\ \A c \in Clients : c.names \subseteq Names

VARIABLES
    log,            \* the entries of the log
    whole,          \* what all its entries give, the truncated ones included
    begin,          \* the first position that is not truncated
    proposed,       \* the entries that may become the next one
    leader,         \* the storage whose writer is valid
    storage,        \* the members of each LogStorageProcess
    variable,       \* the version of each Variable a client fetched or stored
    writes,         \* the writes asked for so far; gives every one its UUID
    clients         \* the member of Clients that is explored

vars == <<log, whole, begin, proposed, leader, storage, variable, writes, clients>>

\* The UUID State::_fetch makes up for a variable that does not exist.
Missing == 0

\* The value of a DIFF that is applied to another value than its own.
Garbled == -1

NoSnapshots == [n \in Names |-> None]

\* A LogStorageProcess that has not been used.  "mutex" holds the calls that
\* wait for the mutex, the first one has it; "end" is the position the
\* writer has reached, "known" the beginning its replica has learned; what is
\* read is the range "from" to "position"; "error" is LogWriterProcess::error.
NewStorage ==
    [starting |-> "None", index |-> None, truncated |-> None, snapshots |-> NoSnapshots,
     mutex |-> <<>>, stage |-> "start", entry |-> None, getting |-> None,
     end |-> 0, position |-> 0, known |-> 0, from |-> 0, error |-> FALSE]

Writes(calls) == {calls[i] : i \in {j \in DOMAIN calls : calls[j].kind # "truncate"}}
-----------------------------------------------------------------------------
(* The operations in the log.                                              *)

\* The mutant of Patched: the position of the DIFF instead of the snapshot's.
PatchedHere(snapshot, entry, position) ==
    [position |-> position, diffs |-> snapshot.diffs + 1,
     uuid |-> IF snapshot.uuid = entry.base THEN entry.uuid ELSE Garbled]

\* Snapshot::patch
Patched(snapshot, entry, position) ==
    [position |-> snapshot.position, diffs |-> snapshot.diffs + 1,
     uuid |-> IF snapshot.uuid = entry.base THEN entry.uuid ELSE Garbled]

\* One iteration of LogStorageProcess::apply.  The reader returns no TRUNCATE
\* entries; "ok" is FALSE when CHECK_SOME(snapshot) fails.
ApplyEntry(acc, entry, position) ==
    CASE entry.type = "SNAPSHOT" ->
            [acc EXCEPT !.snapshots[entry.name] =
                 [position |-> position, diffs |-> 0, uuid |-> entry.uuid],
                        !.index = position]
      [] entry.type = "DIFF" /\ acc.snapshots[entry.name] = None ->
            [acc EXCEPT !.ok = FALSE]
      [] entry.type = "DIFF" /\ acc.snapshots[entry.name] # None ->
            [acc EXCEPT !.snapshots[entry.name] = Patched(@, entry, position),
                        !.index = position]
      [] entry.type = "EXPUNGE" ->
            [acc EXCEPT !.snapshots[entry.name] = None, !.index = position]
      [] entry.type = "TRUNCATE" -> acc

\* LogStorageProcess::apply, for the entries of a range that are past the
\* index.
ApplyRange(snapshots, index, from, to) ==
    LET Past(p) == p >= from /\ (index = None \/ p > index)
        Applied[p \in 0..to] ==
            IF p = 0
            THEN [snapshots |-> snapshots, index |-> index, ok |-> TRUE]
            ELSE LET acc == Applied[p - 1]
                 IN  IF Past(p) /\ acc.ok THEN ApplyEntry(acc, log[p], p) ELSE acc
    IN  Applied[to]

VersionIn(snapshots, n) == IF snapshots[n] = None THEN Missing ELSE snapshots[n].uuid

Later(option, position) == IF option = None \/ option < position THEN position ELSE option
-----------------------------------------------------------------------------
(* The log.                                                                *)

Holder(s) == storage[s].mutex[1]
Holds(s, kind, stage) ==
    /\ storage[s].mutex # <<>>
    /\ Holder(s).kind \in kind
    /\ storage[s].stage = stage

\* An entry gets the next position.
Lands(entry) ==
    /\ log' = Append(log, entry)
    /\ whole' = ApplyEntry(whole, entry, Len(log'))
    /\ begin' = IF entry.type = "TRUNCATE" THEN Later(begin, entry.to) ELSE begin
    /\ proposed' = {}

\* Log::Writer::append or truncate: the writer proposes its entry for the
\* position after the last one it knows.
Propose(s, entry) ==
    /\ proposed' = IF storage[s].end = Len(log)
                   THEN proposed \cup {[entry |-> entry, write |-> Holder(s)]}
                   ELSE proposed
    /\ UNCHANGED <<log, whole, begin>>

UnchangedLog == UNCHANGED <<log, whole, begin, proposed>>
-----------------------------------------------------------------------------
\* The mutex goes to the next call.
Unlocked(st) == [st EXCEPT !.mutex = Tail(@), !.stage = "start"]

Outstanding(s) ==
    Cardinality(Writes(storage[s].mutex)) + (IF storage[s].getting = None THEN 0 ELSE 1)

Init ==
    /\ log = <<>>
    /\ whole = [snapshots |-> NoSnapshots, index |-> None, ok |-> TRUE]
    /\ begin = 0
    /\ proposed = {}
    /\ leader = None
    /\ storage = [s \in Storages |-> NewStorage]
    /\ variable = [s \in Storages |-> [n \in Names |-> None]]
    /\ writes = 0
    /\ clients \in Clients

\* State::fetch and LogStorageProcess::get
get(s, n) ==
    /\ Outstanding(s) < clients.calls
    /\ storage[s].getting = None
    /\ storage' = [storage EXCEPT ![s].getting = n]
    /\ UnchangedLog /\ UNCHANGED <<leader, variable, writes, clients>>

\* LogStorageProcess::_get and State::_fetch, or the failure of start().
_get(s) ==
    /\ storage[s].getting # None
    /\ storage[s].starting \in {"ready", "failed"}
    /\ storage' = [storage EXCEPT ![s].getting = None]
    /\ variable' = IF storage[s].starting = "ready"
                   THEN [variable EXCEPT ![s][storage[s].getting] =
                            VersionIn(storage[s].snapshots, storage[s].getting)]
                   ELSE variable
    /\ UnchangedLog /\ UNCHANGED <<leader, writes, clients>>

\* State::store and State::expunge: LogStorageProcess::set and expunge wait
\* for the mutex.
Write(s, n, kind) ==
    /\ Outstanding(s) < clients.calls
    /\ variable[s][n] # None
    /\ writes < clients.writes
    /\ writes' = writes + 1
    /\ storage' = [storage EXCEPT ![s].mutex =
                      Append(@, [kind |-> kind, name |-> n, expected |-> variable[s][n],
                                 uuid |-> writes'])]
    /\ UnchangedLog /\ UNCHANGED <<leader, variable, clients>>

\* LogStorageProcess::start and LogWriterProcess::start: the election of the
\* coordinator, which finds a proposed entry or does not.  The coordinator of
\* the last start is deleted and with it a truncation it has under way.
start(s) ==
    /\ storage[s].starting = "None"
    /\ storage[s].getting # None \/ Holds(s, {"set", "expunge"}, "start")
    /\ \/ UnchangedLog
       \/ \E proposal \in proposed : Lands(proposal.entry)
    /\ leader' = s
    /\ LET elected == [storage[s] EXCEPT !.starting = "elected", !.end = Len(log'),
                                         !.position = Len(log'), !.known = begin',
                                         !.error = FALSE]
       IN  storage' = [storage EXCEPT ![s] = IF Holds(s, {"truncate"}, "append")
                                             THEN Unlocked(elected)
                                             ELSE elected]
    /\ UNCHANGED <<variable, writes, clients>>

\* The mutant of _start: what was read before is not read again.
StartOnce(s) ==
    /\ storage[s].starting = "elected"
    /\ \/ /\ storage[s].index # None
          /\ storage' = [storage EXCEPT ![s].starting = "ready"]
       \/ /\ storage[s].index = None
          /\ storage' = [storage EXCEPT ![s].starting = "reading", ![s].from = begin,
                                        ![s].truncated = begin]
    /\ UnchangedLog /\ UNCHANGED <<leader, variable, writes, clients>>

\* LogStorageProcess::_start and __start: the range to be read.  A truncation
\* that has the mutex was dispatched to the process before.
_start(s) ==
    /\ storage[s].starting = "elected"
    /\ ~Holds(s, {"truncate"}, "start")
    /\ \/ /\ storage[s].index # None
          /\ storage' = [storage EXCEPT ![s].starting = "reading",
                                        ![s].from = storage[s].index]
       \/ /\ storage[s].index = None
          /\ \E beginning \in {storage[s].known, begin} :
                storage' = [storage EXCEPT ![s].starting = "reading", ![s].from = beginning,
                                           ![s].truncated = beginning]
    /\ UnchangedLog /\ UNCHANGED <<leader, variable, writes, clients>>

\* LogReaderProcess::read of a range that the local replica has, and apply.
Read(s) ==
    /\ storage[s].starting = "reading"
    /\ storage[s].from >= storage[s].known
    /\ LET applied == ApplyRange(storage[s].snapshots, storage[s].index,
                                 storage[s].from, storage[s].position)
       IN  storage' = [storage EXCEPT ![s].snapshots = applied.snapshots,
                                      ![s].index = applied.index,
                                      ![s].starting = IF applied.ok THEN "ready" ELSE "failed"]
    /\ UnchangedLog /\ UNCHANGED <<leader, variable, writes, clients>>

\* The replica has truncated the first position of the range.  "starting" is
\* a failed future from now on.
BadReadRange(s) ==
    /\ storage[s].starting = "reading"
    /\ storage[s].from < begin
    /\ storage' = [storage EXCEPT ![s].starting = "failed"]
    /\ UnchangedLog /\ UNCHANGED <<leader, variable, writes, clients>>

\* The mutant of Mismatch: set does not compare versions.
MismatchOfExpunge(s, write) ==
    LET snapshot == storage[s].snapshots[write.name]
    IN  write.kind = "expunge" /\ (IF snapshot = None THEN TRUE ELSE snapshot.uuid # write.expected)

\* The check of the version in __set and __expunge.
Mismatch(s, write) ==
    LET snapshot == storage[s].snapshots[write.name]
    IN  IF snapshot = None THEN write.kind = "expunge" ELSE snapshot.uuid # write.expected

\* A write without effect: start() failed, the writer has failed before, or
\* the version is another one.
Refused(s) ==
    /\ Holds(s, {"set", "expunge"}, "start")
    /\ \/ storage[s].starting = "failed"
       \/ /\ storage[s].starting = "ready"
          /\ \/ storage[s].error
             \/ Mismatch(s, Holder(s))
    /\ storage' = [storage EXCEPT ![s] = Unlocked(@)]
    /\ UnchangedLog /\ UNCHANGED <<leader, variable, writes, clients>>

Begins(s, entry) ==
    /\ storage' = [storage EXCEPT ![s].stage = "append", ![s].entry = entry]
    /\ Propose(s, entry)
    /\ UNCHANGED <<leader, variable, writes, clients>>

\* LogStorageProcess::__set: a DIFF if it is smaller, or a SNAPSHOT.
__set(s) ==
    /\ Holds(s, {"set"}, "start")
    /\ storage[s].starting = "ready"
    /\ ~storage[s].error
    /\ ~Mismatch(s, Holder(s))
    /\ LET snapshot == storage[s].snapshots[Holder(s).name] IN
       \/ /\ snapshot # None
          /\ snapshot.diffs < DiffsBetweenSnapshots
          /\ Begins(s, [type |-> "DIFF", name |-> Holder(s).name, base |-> snapshot.uuid,
                        uuid |-> Holder(s).uuid])
       \/ Begins(s, [type |-> "SNAPSHOT", name |-> Holder(s).name, uuid |-> Holder(s).uuid])

\* LogStorageProcess::__expunge
__expunge(s) ==
    /\ Holds(s, {"expunge"}, "start")
    /\ storage[s].starting = "ready"
    /\ ~storage[s].error
    /\ ~Mismatch(s, Holder(s))
    /\ Begins(s, [type |-> "EXPUNGE", name |-> Holder(s).name, uuid |-> Holder(s).uuid])

\* LogStorageProcess::_truncate: nothing before the oldest snapshot is needed.
_truncate(s) ==
    /\ Holds(s, {"truncate"}, "start")
    /\ LET positions == {storage[s].snapshots[n].position :
                            n \in {m \in Names : storage[s].snapshots[m] # None}}
           useful == positions # {} /\ Min(positions) > storage[s].truncated
       IN  \/ /\ useful /\ ~storage[s].error
              /\ Begins(s, [type |-> "TRUNCATE", to |-> Min(positions)])
           \/ /\ ~useful \/ storage[s].error
              /\ storage' = [storage EXCEPT ![s] = Unlocked(@)]
              /\ UnchangedLog /\ UNCHANGED <<leader, variable, writes, clients>>

\* What the continuation of an append does to the members of the storage:
\* ___set, ___expunge (which leaves the index alone) and __truncate.
Continued(st, entry, position) ==
    LET next == [Unlocked(st) EXCEPT !.end = position]
        Truncating(t) == [t EXCEPT !.mutex = Append(@, [kind |-> "truncate"])]
    IN  CASE entry.type = "SNAPSHOT" ->
                Truncating([next EXCEPT !.index = Later(@, position),
                                        !.snapshots[entry.name] =
                                            [position |-> position, diffs |-> 0, uuid |-> entry.uuid]])
          [] entry.type = "DIFF" ->
                Truncating([next EXCEPT !.index = Later(@, position),
                                        !.snapshots[entry.name].diffs = @ + 1,
                                        !.snapshots[entry.name].uuid = entry.uuid])
          [] entry.type = "EXPUNGE" ->
                Truncating([next EXCEPT !.snapshots[entry.name] = None])
          [] entry.type = "TRUNCATE" ->
                [next EXCEPT !.truncated = Later(@, entry.to), !.index = Later(@, position)]

\* An append of the valid writer is acknowledged.
Appended(s) ==
    /\ Holds(s, {"set", "expunge", "truncate"}, "append")
    /\ leader = s
    /\ Lands(storage[s].entry)
    /\ storage' = [storage EXCEPT ![s] = Continued(@, @.entry, Len(log'))]
    /\ variable' = IF Holder(s).kind = "set"
                   THEN [variable EXCEPT ![s][Holder(s).name] = Holder(s).uuid]
                   ELSE variable
    /\ UNCHANGED <<leader, writes, clients>>

\* An append of a writer that was demoted returns None: ___set and ___expunge
\* reset "starting", __truncate does not.
Demoted(s) ==
    /\ Holds(s, {"set", "expunge", "truncate"}, "append")
    /\ leader # s
    /\ storage' = [storage EXCEPT ![s] =
                      IF Holder(s).kind = "truncate"
                      THEN Unlocked(@)
                      ELSE [Unlocked(@) EXCEPT !.starting = "None"]]
    /\ UnchangedLog /\ UNCHANGED <<leader, variable, writes, clients>>

\* LogWriterProcess::failed: the writer fails until it is started again.
AppendFails(s) ==
    /\ Holds(s, {"set", "expunge", "truncate"}, "append")
    /\ storage' = [storage EXCEPT ![s] = [Unlocked(@) EXCEPT !.error = TRUE]]
    /\ UnchangedLog /\ UNCHANGED <<leader, variable, writes, clients>>

\* The master ends, and another one starts in its place.
Crash(s) ==
    /\ storage' = [storage EXCEPT ![s] = NewStorage]
    /\ variable' = [variable EXCEPT ![s] = [n \in Names |-> None]]
    /\ leader' = IF leader = s THEN None ELSE leader
    /\ UnchangedLog /\ UNCHANGED <<writes, clients>>

Next ==
    \E s \in Storages :
        \/ \E n \in clients.names :
              \/ get(s, n)
              \/ \E kind \in {"set", "expunge"} : Write(s, n, kind)
        \/ _get(s) \/ start(s) \/ _start(s) \/ Read(s) \/ BadReadRange(s)
        \/ Refused(s) \/ __set(s) \/ __expunge(s) \/ _truncate(s)
        \/ Appended(s) \/ Demoted(s) \/ AppendFails(s) \/ Crash(s)

Spec == Init /\ [][Next]_vars
-----------------------------------------------------------------------------
(* Properties.                                                             *)

Landed == {log[i] : i \in {j \in DOMAIN log : log[j].type # "TRUNCATE"}}

\* The writes that have not proposed an entry, and those whose entry may still
\* be found.
PendingWrites ==
    LET Waiting(s) == IF storage[s].stage = "append" THEN Tail(storage[s].mutex)
                                                     ELSE storage[s].mutex
    IN  UNION {Writes(Waiting(s)) : s \in Storages}
            \cup {p.write : p \in {q \in proposed : q.entry.type # "TRUNCATE"}}

Abstract == INSTANCE VersionedStore WITH
    current <- [n \in Names |-> VersionIn(whole.snapshots, n)],
    done <- {entry.uuid : entry \in Landed},
    pending <- PendingWrites

\* The storages over the log are one versioned store, whichever masters end,
\* get demoted or truncate the log: a write takes effect at most once, and
\* only on the version its client fetched or stored (state.hpp 39-48).
IsVersionedStore == Abstract!Spec

\* A master that starts with what is left of the log gets what the whole log
\* holds: truncate() keeps every operation that a snapshot rests on.
TruncationKeepsVariables ==
    LET rest == ApplyRange(NoSnapshots, None, begin, Len(log))
    IN  rest.ok /\ rest.snapshots = whole.snapshots

\* A storage whose writer is valid and that is not waiting for an append has
\* in memory what the log has, so that the version check is made on the
\* current version.
ValidWriterIsCurrent ==
    \A s \in Storages :
        (leader = s /\ storage[s].starting = "ready")
            => \A n \in Names : VersionIn(storage[s].snapshots, n) = VersionIn(whole.snapshots, n)
=============================================================================
