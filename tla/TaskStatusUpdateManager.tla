----------------------- MODULE TaskStatusUpdateManager -----------------------
(***************************************************************************)
(* The task status update manager of an agent                              *)
(* (src/slave/task_status_update_manager.cpp), for the stream of one task: *)
(* it checkpoints the updates of the task and their acknowledgements, and  *)
(* forwards the first one that is not acknowledged until it is.            *)
(*                                                                         *)
(* The operators map a manager M to what it is after a method was called.  *)
(* M.out holds what the manager dispatches to the agent: updates to be     *)
(* forwarded, and the results of update() and acknowledgement().  An       *)
(* update is a number, its UUID; Terminal says which states are terminal.  *)
(* M.failed records that a CHECK of the manager would have failed.         *)
(***************************************************************************)
EXTENDS Integers, Sequences, SequencesExt

CONSTANTS
    None,
    Terminal(_)     \* the updates with a terminal state

\* TaskStatusUpdateStream; "timer" says whether stream->timeout is set.
NewStream(checkpoint) ==
    [checkpoint |-> checkpoint, pending |-> <<>>, received |-> {}, acknowledged |-> {},
     terminated |-> FALSE, timer |-> FALSE]

NewManager ==
    [paused |-> TRUE, stream |-> None, disk |-> <<>>, out |-> <<>>, failed |-> FALSE]

\* TaskStatusUpdateStream::_handle
Handled(stream, update, type) ==
    IF type = "UPDATE"
    THEN [stream EXCEPT !.received = @ \cup {update}, !.pending = Append(@, update)]
    ELSE [stream EXCEPT !.acknowledged = @ \cup {update}, !.pending = Tail(@),
                        !.terminated = @ \/ Terminal(update)]

\* TaskStatusUpdateStream::handle.  A write that fails ends the agent.
Checkpointed(M, update, type) ==
    [M EXCEPT !.disk = IF M.stream.checkpoint
                       THEN Append(@, [type |-> type, update |-> update]) ELSE @,
              !.stream = Handled(@, update, type)]

\* The mutant of Forwarded: the latest update goes first.
ForwardedLast(M) ==
    [M EXCEPT !.out = Append(@, [type |-> "forward", update |-> Last(M.stream.pending)]),
              !.stream.timer = TRUE]

\* TaskStatusUpdateManagerProcess::forward
Forwarded(M) ==
    [M EXCEPT !.out = Append(@, [type |-> "forward", update |-> M.stream.pending[1]]),
              !.stream.timer = TRUE]

Returns(M, result) == [M EXCEPT !.out = Append(@, result)]

\* TaskStatusUpdateManagerProcess::_update
Update(M, update, checkpoint) ==
    LET known == IF M.stream = None THEN [M EXCEPT !.stream = NewStream(checkpoint)] ELSE M
        result == [type |-> "updated", update |-> update, ok |-> TRUE]
        handled == Checkpointed(known, update, "UPDATE")
        first == ~M.paused /\ Len(handled.stream.pending) = 1
    IN  CASE known.stream.checkpoint # checkpoint ->
                Returns(M, [result EXCEPT !.ok = FALSE])
          [] known.stream.checkpoint = checkpoint
             /\ update \in known.stream.acknowledged \cup known.stream.received ->
                Returns(M, result)
          [] OTHER ->
                LET checked == [handled EXCEPT !.failed = @ \/ (first /\ handled.stream.timer)]
                IN  Returns(IF first THEN Forwarded(checked) ELSE checked, result)

\* TaskStatusUpdateManagerProcess::acknowledgement.  An acknowledgement that
\* is not for the first pending update fails and has no effect.
Acknowledgement(M, update) ==
    LET expected == IF M.stream = None THEN FALSE
                    ELSE M.stream.pending # <<>> /\ Head(M.stream.pending) = update
                            /\ update \notin M.stream.acknowledged
        handled == [Checkpointed(M, update, "ACK") EXCEPT !.stream.timer = FALSE]
        stream == handled.stream
        result == [type |-> "acked", terminated |-> stream.terminated]
    IN  CASE ~expected -> M
          [] expected /\ stream.terminated ->
                Returns([handled EXCEPT !.stream = None], result)
          [] expected /\ ~stream.terminated ->
                Returns(IF ~M.paused /\ stream.pending # <<>> THEN Forwarded(handled) ELSE handled,
                        result)

Pending(M) == IF M.stream = None THEN FALSE ELSE M.stream.pending # <<>>

\* TaskStatusUpdateManagerProcess::pause
Pause(M) == [M EXCEPT !.paused = TRUE]

\* The mutant of Resume: the updates wait for the next timeout.
ResumeLazily(M) == [M EXCEPT !.paused = FALSE]

\* TaskStatusUpdateManagerProcess::resume
Resume(M) ==
    LET resumed == [M EXCEPT !.paused = FALSE]
    IN  IF Pending(M) THEN Forwarded(resumed) ELSE resumed

\* TaskStatusUpdateManagerProcess::timeout, when the timeout has expired.
Timeout(M) ==
    Forwarded([M EXCEPT !.failed = @ \/ ~M.stream.timer])

Recorded(disk, type) == SelectSeq(disk, LAMBDA r : r.type = type)

\* TaskState::recover, TaskStatusUpdateManagerProcess::recover and
\* TaskStatusUpdateStream::replay: updates in their order, each with its
\* acknowledgement.  The stream of a terminated task is cleaned up.
Recover(disk) ==
    LET updates == Recorded(disk, "UPDATE")
        acks == {r.update : r \in Range(Recorded(disk, "ACK"))}
        Replay(stream, r) ==
            LET handled == Handled(stream, r.update, "UPDATE")
            IN  IF r.update \in acks THEN Handled(handled, r.update, "ACK") ELSE handled
        replayed == FoldLeft(Replay, NewStream(TRUE), updates)
    IN  [NewManager EXCEPT !.disk = disk,
                           !.stream = IF updates = <<>> \/ replayed.terminated THEN None
                                      ELSE replayed]
=============================================================================
