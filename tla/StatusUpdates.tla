---------------------------- MODULE StatusUpdates ----------------------------
(***************************************************************************)
(* The way of the status updates of one task of a checkpointing framework: *)
(* from its executor (src/exec/exec.cpp) to the agent (src/slave/slave.cpp)*)
(* and its task status update manager, to the master                       *)
(* (src/master/master.cpp), to the scheduler (src/sched/sched.cpp), and    *)
(* the way of the acknowledgements back.                                   *)
(*                                                                         *)
(* The executor sends the updates 1..N, of which N is terminal.  The agent *)
(* makes up a terminal update N+1 if the executor terminates before that,  *)
(* and N+2, N+3... when the master asks for a task it does not know.       *)
(* Every two processes are joined by FIFO links; the calls of the agent to *)
(* its manager are dispatches, and so are their results.  The agent may    *)
(* restart, a new master may be elected and the link between master and    *)
(* agent may break, as often as the scenario allows.                       *)
(***************************************************************************)
EXTENDS Integers, Sequences, SequencesExt

CONSTANTS
    None,
    N,              \* how many updates the executor sends
    MaxInFlight,    \* bound on the messages on a link that retries may add to
    Scenarios       \* the faults that may happen: see Init

ASSUME UpdatesAssumption == N \in Nat \ {0} /\ MaxInFlight \in Nat \ {0}

VARIABLES
    executor,       \* the executor driver
    agent,          \* the agent, and in agent.calls what it dispatched to its manager
    manager,        \* the manager, and in manager.out what it dispatched to the agent
    master,         \* the leading master
    scheduler,      \* the updates delivered to the scheduler, in the order of first delivery
    net,            \* the links
    faults          \* the faults that may still happen

vars == <<executor, agent, manager, master, scheduler, net, faults>>

Terminal(update) == update >= N
Failed == N + 1             \* sendExecutorTerminatedStatusUpdate
Reconciled(n) == N + 2 + n  \* the n-th update of Slave::reregistered
Manager == INSTANCE TaskStatusUpdateManager

-----------------------------------------------------------------------------
(* The agent.  Operators map an agent A to what it is after the call.      *)

\* executor->pendingStatusUpdates is a map in the order of insertion, and
\* containerizer->status answers in order for one container only: the
\* updates of the executor may be about a nested one ("nested"), those of the
\* agent are about the container of the executor ("own").
NewAgent(state, disk) ==
    LET updates == SelectSeq(disk, LAMBDA r : r.type = "UPDATE")
        terminal == \E r \in Range(updates) : Terminal(r.update)
        acked == \E r \in Range(disk) : r.type = "ACK" /\ Terminal(r.update)
    IN  [state |-> state, master |-> None, executor |-> "REGISTERING",
         task |-> IF ~terminal THEN "launched" ELSE IF ~acked THEN "terminated" ELSE "completed",
         latest |-> IF updates = <<>> THEN 0 ELSE Last(updates).update,
         forwarded |-> None, pendings |-> <<>>, nested |-> <<>>, own |-> <<>>,
         updating |-> {}, calls |-> <<>>, failed |-> FALSE]

Call(A, call) == [A EXCEPT !.calls = Append(@, call)]

UpdateCall(update, checkpoint) ==
    [type |-> "update", update |-> update, checkpoint |-> checkpoint]

\* Slave::statusUpdate.  The executor of a completed task is not found by
\* the task, a removed one takes the framework with it.
statusUpdate(A, update, lane) ==
    CASE A.executor = "REMOVED" -> A
      [] A.executor # "REMOVED" /\ A.task = "completed" -> Call(A, UpdateCall(update, FALSE))
      [] OTHER ->
            LET added == [A EXCEPT !.pendings = IF Contains(@, update) THEN @ ELSE Append(@, update)]
            IN  IF lane = "nested" THEN [added EXCEPT !.nested = Append(@, update)]
                ELSE [added EXCEPT !.own = Append(@, update)]

\* Executor::removePendingTaskStatus, in ___statusUpdate
NotPending(A, update) ==
    IF A.task = "completed" \/ A.executor = "REMOVED" THEN A
    ELSE [A EXCEPT !.pendings = SelectSeq(@, LAMBDA u : u # update)]

\* Executor::updateTaskState: of several pending terminal updates only the
\* first may be the last of the task.
FirstTerminal(A, update) ==
    A.pendings # <<>> => SelectSeq(A.pendings, Terminal)[1] = update

Accepts(A, update) ==
    A.task = "launched" /\ (Terminal(update) => FirstTerminal(A, update))

Checks(A, update) ==
    A.task = "launched" /\ Terminal(update) /\ A.pendings # <<>>
        => SelectSeq(A.pendings, Terminal) # <<>>


\* Slave::_statusUpdate and, when the update is not terminal, __statusUpdate
_statusUpdate(A, update) ==
    LET latest == [A EXCEPT !.latest = update]
    IN  IF Terminal(update)
        THEN [latest EXCEPT !.task = "terminated", !.updating = @ \cup {update}]
        ELSE Call(latest, UpdateCall(update, TRUE))

\* Slave::__statusUpdate of a terminal update, once the containerizer has
\* updated the resources of the container
__statusUpdate(A, update) ==
    Call([A EXCEPT !.updating = @ \ {update}], UpdateCall(update, TRUE))

\* removeExecutor and removeFramework
RemovedIfIdle(A) ==
    IF A.executor = "TERMINATED" /\ A.task = "completed"
    THEN [A EXCEPT !.executor = "REMOVED"] ELSE A

\* The mutant of _statusUpdateAcknowledgement: the task of a terminated
\* executor is not completed.
AcknowledgementWhileRunning(A, terminated) ==
    IF A.executor = "RUNNING" /\ terminated /\ A.task = "terminated"
    THEN [A EXCEPT !.task = "completed"] ELSE A

\* Slave::_statusUpdateAcknowledgement
_statusUpdateAcknowledgement(A, terminated) ==
    IF A.executor = "REMOVED" \/ A.task = "completed" THEN A
    ELSE RemovedIfIdle(IF terminated /\ A.task = "terminated" THEN [A EXCEPT !.task = "completed"] ELSE A)

\* Slave::executorTerminated
executorTerminated(A) ==
    LET terminated == [A EXCEPT !.executor = "TERMINATED"]
    IN  IF A.task = "launched" THEN statusUpdate(terminated, Failed, "own")
        ELSE RemovedIfIdle(terminated)

\* What ReregisterSlaveMessage says of the task: its latest state and the
\* update that was forwarded last.
Report(A) ==
    IF A.executor # "REMOVED" /\ A.task \in {"launched", "terminated"}
    THEN [state |-> A.latest, update |-> A.forwarded] ELSE None

-----------------------------------------------------------------------------
(* The master.                                                             *)

NewMaster(epoch) ==
    [epoch |-> epoch, registered |-> FALSE, connected |-> FALSE, framework |-> None,
     task |-> None, failed |-> FALSE]

\* Master::statusUpdate, forward and updateTask
MasterUpdated(M, update, latest) ==
    IF M.task = None THEN M
    ELSE [M EXCEPT !.task.update = IF M.framework = "connected" THEN update ELSE @,
                   !.task.state = IF Terminal(@) THEN @ ELSE latest]

\* The mutant of acknowledge: any acknowledgement of a task that has a
\* terminal update removes it.
AcknowledgeTerminal(M, update) ==
    IF M.task = None THEN M
    ELSE IF Terminal(M.task.state) THEN [M EXCEPT !.task = None] ELSE M

\* Master::acknowledge: what it does to the task of the acknowledged update
acknowledge(M, update) ==
    IF M.task = None THEN M
    ELSE IF M.task.update = update /\ Terminal(update) THEN [M EXCEPT !.task = None] ELSE M

\* Master::reconcileKnownSlave: the tasks that the agent does not report
Unreported(M, report) == M.registered /\ M.task # None /\ report = None

\* Master::_reregisterSlave and what follows it, of an agent that was admitted
MasterReregistered(M, report, framework) ==
    [M EXCEPT !.registered = TRUE, !.connected = TRUE,
              !.task = IF M.registered THEN @ ELSE report,
              !.framework = IF @ = None /\ framework THEN "recovered" ELSE @]

-----------------------------------------------------------------------------
\* "stale" holds what former masters have sent to the agent.
Links == {"toAgent", "toMaster", "toSlave", "stale", "toScheduler", "acks"}

Sent(link, messages) == [net EXCEPT ![link] = @ \o messages]
Arrives(link, type) == net[link] # <<>> /\ Head(net[link]).type = type
Received(link) == [net EXCEPT ![link] = Tail(@)]
OnLink(link, type) == {i \in DOMAIN net[link] : net[link][i].type = type}

\* The mailbox of the agent is a queue: what the manager has dispatched to it
\* is handled before what arrives later.
Idle == manager.out = <<>>

\* An agent that runs the task, registered with the first master.
Init ==
    /\ faults \in Scenarios
    /\ executor = [alive |-> TRUE, sent |-> 0, unacked |-> <<>>]
    /\ agent = [NewAgent("RUNNING", <<>>) EXCEPT !.master = 1, !.executor = "RUNNING"]
    /\ manager = [Manager!NewManager EXCEPT !.paused = FALSE]
    /\ master = [NewMaster(1) EXCEPT !.registered = TRUE, !.connected = TRUE,
                                     !.framework = "connected",
                                     !.task = [state |-> 0, update |-> None]]
    /\ scheduler = <<>>
    /\ net = [link \in Links |-> <<>>]

-----------------------------------------------------------------------------
(* The executor.                                                           *)

\* ExecutorProcess::sendStatusUpdate.  It does not wait until the driver has
\* reregistered with a restarted agent.
sendStatusUpdate ==
    /\ executor.alive /\ executor.sent < N
    /\ faults.early \/ agent.executor = "RUNNING"
    /\ executor' = [executor EXCEPT !.sent = @ + 1, !.unacked = Append(@, executor.sent + 1)]
    /\ net' = Sent("toAgent", <<[type |-> "update", update |-> executor.sent + 1]>>)
    /\ UNCHANGED <<agent, manager, master, scheduler, faults>>

Exit ==
    /\ executor.alive /\ faults.exits > 0
    /\ executor' = [executor EXCEPT !.alive = FALSE]
    /\ faults' = [faults EXCEPT !.exits = @ - 1]
    /\ UNCHANGED <<agent, manager, master, scheduler, net>>

\* ExecutorProcess::statusUpdateAcknowledgement; a driver that has not
\* reregistered with the restarted agent ignores it.
Acked(update) ==
    IF executor.alive /\ agent.executor = "RUNNING"
    THEN [executor EXCEPT !.unacked = SelectSeq(@, LAMBDA u : u # update)] ELSE executor

\* ExecutorProcess::reconnect and Slave::reregisterExecutor
reregisterExecutor ==
    /\ Idle /\ executor.alive /\ agent.executor = "REGISTERING"
    /\ LET Updated(A, update) == statusUpdate(A, update, "nested")
       IN  agent' = FoldLeft(Updated, [agent EXCEPT !.executor = "RUNNING"], executor.unacked)
    /\ UNCHANGED <<executor, manager, master, scheduler, net, faults>>

-----------------------------------------------------------------------------
(* The agent.                                                              *)

StatusUpdate ==
    /\ Idle /\ Arrives("toAgent", "update")
    /\ agent' = statusUpdate(agent, Head(net.toAgent).update, "nested")
    /\ net' = Received("toAgent")
    /\ UNCHANGED <<executor, manager, master, scheduler, faults>>

\* containerizer->status has answered.  A rejected update is acknowledged.
ContainerStatus(lane) ==
    /\ Idle /\ agent[lane] # <<>>
    /\ LET update == Head(agent[lane])
           A == [agent EXCEPT ![lane] = Tail(@), !.failed = @ \/ ~Checks(agent, update)]
       IN  IF agent.executor = "REMOVED" THEN agent' = A /\ UNCHANGED executor
           ELSE IF Accepts(agent, update)
           THEN agent' = _statusUpdate(A, update) /\ UNCHANGED executor
           ELSE agent' = NotPending(A, update) /\ executor' = Acked(update)
    /\ UNCHANGED <<manager, master, scheduler, net, faults>>

ContainerUpdated ==
    /\ Idle
    /\ \E update \in agent.updating : agent' = __statusUpdate(agent, update)
    /\ UNCHANGED <<executor, manager, master, scheduler, net, faults>>

Result(type) == manager.out # <<>> /\ Head(manager.out).type = type
Taken == manager' = [manager EXCEPT !.out = Tail(@)]

\* Slave::___statusUpdate
___statusUpdate ==
    /\ Result("updated")
    /\ LET result == Head(manager.out)
       IN  /\ agent' = [NotPending(agent, result.update) EXCEPT !.failed = @ \/ ~result.ok]
           /\ executor' = Acked(result.update)
    /\ Taken
    /\ UNCHANGED <<master, scheduler, net, faults>>

\* Slave::forward
forward ==
    /\ Result("forward")
    /\ LET update == Head(manager.out).update
           task == Report(agent) # None
       IN  IF agent.state # "RUNNING" THEN UNCHANGED <<agent, net>>
           ELSE /\ agent' = [agent EXCEPT !.forwarded = IF task THEN update ELSE @]
                /\ net' = IF agent.master = master.epoch
                          THEN Sent("toMaster",
                                    <<[type |-> "update", update |-> update,
                                       latest |-> IF task THEN agent.latest ELSE update]>>)
                          ELSE net
    /\ Taken
    /\ UNCHANGED <<executor, master, scheduler, faults>>

Acknowledged ==
    /\ Result("acked")
    /\ agent' = _statusUpdateAcknowledgement(agent, Head(manager.out).terminated)
    /\ Taken
    /\ UNCHANGED <<executor, master, scheduler, net, faults>>

ExecutorTerminated ==
    /\ Idle
    /\ ~executor.alive /\ agent.executor \in {"RUNNING", "REGISTERING", "TERMINATING"}
    /\ agent' = executorTerminated(agent)
    /\ UNCHANGED <<executor, manager, master, scheduler, net, faults>>

\* Slave::statusUpdateAcknowledgement: only of the master the agent is
\* registered with.
statusUpdateAcknowledgement(link) ==
    /\ Idle /\ Arrives(link, "ack")
    /\ LET message == Head(net[link])
       IN  agent' = IF agent.state = "RUNNING" /\ agent.master = message.epoch
                    THEN Call(agent, [type |-> "ack", update |-> message.update]) ELSE agent
    /\ net' = Received(link)
    /\ UNCHANGED <<executor, manager, master, scheduler, faults>>

\* Slave::reregistered, with the update for a task that the master asks for
\* and the agent does not know
reregistered(link) ==
    /\ Idle /\ Arrives(link, "reregistered")
    /\ LET message == Head(net[link])
           running == IF agent.state = "RUNNING" THEN agent
                      ELSE Call([agent EXCEPT !.state = "RUNNING"], [type |-> "resume"])
           unknown == message.reconcile /\ Report(agent) = None
       IN  /\ agent' = IF agent.master # message.epoch THEN agent
                       ELSE IF unknown THEN Call(running, UpdateCall(Reconciled(faults.reconciled), FALSE))
                       ELSE running
           /\ faults' = [faults EXCEPT !.reconciled =
                                 IF agent.master = message.epoch /\ unknown THEN @ + 1 ELSE @]
    /\ net' = Received(link)
    /\ UNCHANGED <<executor, manager, master, scheduler>>

\* Slave::updateFramework
updateFramework(link) ==
    /\ Idle /\ Arrives(link, "updateFramework")
    /\ agent' = IF agent.state = "RUNNING" /\ agent.executor # "REMOVED"
                THEN Call(agent, [type |-> "resume"]) ELSE agent
    /\ net' = Received(link)
    /\ UNCHANGED <<executor, manager, master, scheduler, faults>>

\* Slave::detected: a new master, or the known one after a ping that says
\* that it considers the agent disconnected
detected ==
    /\ Idle /\ agent.state \in {"DISCONNECTED", "RUNNING"}
    /\ \/ agent.master # master.epoch
       \/ agent.state = "RUNNING" /\ master.registered /\ ~master.connected
    /\ agent' = Call([agent EXCEPT !.state = "DISCONNECTED", !.master = master.epoch],
                     [type |-> "pause"])
    /\ UNCHANGED <<executor, manager, master, scheduler, net, faults>>

\* Slave::doReliableRegistration, which is repeated until it is answered
doReliableRegistration ==
    /\ Idle /\ agent.state = "DISCONNECTED" /\ agent.master = master.epoch
    /\ OnLink("toMaster", "reregister") = {}
    /\ Len(net.toSlave) < MaxInFlight
    /\ net' = Sent("toMaster", <<[type |-> "reregister", task |-> Report(agent),
                                  framework |-> agent.executor # "REMOVED"]>>)
    /\ UNCHANGED <<executor, agent, manager, master, scheduler, faults>>

\* Slave::reregisterExecutorTimeout, which ends the recovery.
reregisterExecutorTimeout ==
    /\ Idle /\ agent.state = "RECOVERING"
    /\ agent' = [agent EXCEPT !.state = "DISCONNECTED",
                              !.executor = IF @ = "REGISTERING" THEN "TERMINATING" ELSE @]
    /\ executor' = [executor EXCEPT !.alive = @ /\ agent.executor # "REGISTERING"]
    /\ UNCHANGED <<manager, master, scheduler, net, faults>>

-----------------------------------------------------------------------------
(* The manager.                                                            *)

\* One call of the agent is served.
Serve ==
    /\ agent.calls # <<>>
    /\ LET call == Head(agent.calls)
       IN  manager' = CASE call.type = "update" ->
                                Manager!Update(manager, call.update, call.checkpoint)
                        [] call.type = "ack" -> Manager!Acknowledgement(manager, call.update)
                        [] call.type = "pause" -> Manager!Pause(manager)
                        [] call.type = "resume" -> Manager!Resume(manager)
    /\ agent' = [agent EXCEPT !.calls = Tail(@)]
    /\ UNCHANGED <<executor, master, scheduler, net, faults>>

\* The timer of the first pending update; the update it sends again is not
\* still on its way.
Timeout ==
    /\ ~manager.paused /\ Manager!Pending(manager)
    /\ \A i \in DOMAIN manager.out : manager.out[i].type # "forward"
    /\ OnLink("toMaster", "update") = {}
    /\ Len(net.toScheduler) + Len(net.acks) + Len(net.toSlave) + Len(agent.calls) < MaxInFlight
    /\ manager' = Manager!Timeout(manager)
    /\ UNCHANGED <<executor, agent, master, scheduler, net, faults>>

-----------------------------------------------------------------------------
(* The master and the scheduler.                                           *)

MasterStatusUpdate ==
    /\ Arrives("toMaster", "update")
    /\ LET message == Head(net.toMaster)
       IN  IF ~master.registered THEN net' = Received("toMaster") /\ UNCHANGED master
           ELSE /\ master' = MasterUpdated(master, message.update, message.latest)
                /\ net' = [Received("toMaster") EXCEPT
                             !.toScheduler = IF master.framework = "connected"
                                             THEN Append(@, [type |-> "update",
                                                             update |-> message.update])
                                             ELSE @]
    /\ UNCHANGED <<executor, agent, manager, scheduler, faults>>

\* SchedulerProcess::statusUpdate, with implicit acknowledgements
SchedulerStatusUpdate ==
    /\ Arrives("toScheduler", "update")
    /\ LET update == Head(net.toScheduler).update
       IN  /\ scheduler' = IF Contains(scheduler, update) THEN scheduler
                           ELSE Append(scheduler, update)
           /\ net' = [Received("toScheduler") EXCEPT
                        !.acks = Append(@, [type |-> "ack", update |-> update])]
    /\ UNCHANGED <<executor, agent, manager, master, faults>>

\* Master::acknowledge
MasterAcknowledge ==
    /\ Arrives("acks", "ack")
    /\ LET update == Head(net.acks).update
           known == IF master.task = None THEN TRUE ELSE master.task.update # None
       IN  IF ~master.registered \/ ~master.connected \/ ~known
           THEN net' = Received("acks") /\ UNCHANGED master
           ELSE /\ master' = acknowledge(master, update)
                /\ net' = [Received("acks") EXCEPT
                             !.toSlave = Append(@, [type |-> "ack", epoch |-> master.epoch,
                                                    update |-> update])]
    /\ UNCHANGED <<executor, agent, manager, scheduler, faults>>

UpdateFramework == [type |-> "updateFramework", epoch |-> master.epoch]

\* Another master is elected.
Elected(failed) ==
    /\ master' = [NewMaster(master.epoch + 1) EXCEPT !.failed = failed]
    /\ net' = [net EXCEPT !.toMaster = <<>>, !.toScheduler = <<>>, !.acks = <<>>,
                          !.toSlave = <<>>, !.stale = @ \o net.toSlave]

\* Master::reregisterSlave, reconcileKnownSlave and updateSlaveFrameworks.
\* The master aborts if the framework of an unreported task is a recovered one.
reregisterSlave ==
    /\ Arrives("toMaster", "reregister")
    /\ LET message == Head(net.toMaster)
           unreported == Unreported(master, message.task)
           reply == [type |-> "reregistered", epoch |-> master.epoch, reconcile |-> unreported]
       IN  IF unreported /\ master.framework = "recovered" THEN Elected(TRUE)
           ELSE /\ master' = MasterReregistered(master, message.task, message.framework)
                /\ net' = [Received("toMaster") EXCEPT
                             !.toSlave = @ \o <<reply>>
                                 \o (IF master.framework # None /\ message.framework
                                     THEN <<UpdateFramework>> ELSE <<>>)]
    /\ UNCHANGED <<executor, agent, manager, scheduler, faults>>

\* Master::_subscribe and sendFrameworkUpdates, after a failover
FrameworkReregisters ==
    /\ master.framework # "connected"
    /\ master' = [master EXCEPT !.framework = "connected"]
    /\ net' = IF master.registered THEN Sent("toSlave", <<UpdateFramework>>) ELSE net
    /\ UNCHANGED <<executor, agent, manager, scheduler, faults>>

-----------------------------------------------------------------------------
(* Faults.                                                                 *)

\* The agent dies and is started again: Slave::recover
Restart ==
    /\ faults.restarts > 0
    /\ faults' = [faults EXCEPT !.restarts = @ - 1]
    /\ manager' = Manager!Recover(manager.disk)
    /\ agent' = [NewAgent("RECOVERING", manager.disk) EXCEPT
                   !.executor = IF agent.executor = "REMOVED" THEN "REMOVED" ELSE @,
                   !.failed = agent.failed]
    /\ master' = [master EXCEPT !.connected = FALSE]
    /\ net' = [net EXCEPT !.toAgent = <<>>, !.toSlave = <<>>, !.stale = <<>>]
    /\ UNCHANGED <<executor, scheduler>>

Failover ==
    /\ faults.failovers > 0
    /\ faults' = [faults EXCEPT !.failovers = @ - 1]
    /\ Elected(master.failed)
    /\ UNCHANGED <<executor, agent, manager, scheduler>>

\* The link between the master and the agent breaks: Master::exited
Break ==
    /\ faults.breaks > 0 /\ master.registered /\ master.connected
    /\ faults' = [faults EXCEPT !.breaks = @ - 1]
    /\ master' = [master EXCEPT !.connected = FALSE]
    /\ net' = [net EXCEPT !.toMaster = <<>>, !.toSlave = <<>>]
    /\ UNCHANGED <<executor, agent, manager, scheduler>>

-----------------------------------------------------------------------------
Agent ==
    \/ reregisterExecutor \/ StatusUpdate \/ ContainerStatus("nested") \/ ContainerStatus("own")
    \/ ContainerUpdated \/ ___statusUpdate \/ forward \/ Acknowledged \/ ExecutorTerminated
    \/ \E link \in {"toSlave", "stale"} :
          statusUpdateAcknowledgement(link) \/ reregistered(link) \/ updateFramework(link)
    \/ detected \/ doReliableRegistration \/ reregisterExecutorTimeout

Master == MasterStatusUpdate \/ MasterAcknowledge \/ reregisterSlave \/ FrameworkReregisters

Next ==
    \/ sendStatusUpdate \/ Exit
    \/ Agent \/ Serve \/ Timeout \/ Master \/ SchedulerStatusUpdate
    \/ Restart \/ Failover \/ Break

Spec == Init /\ [][Next]_vars

\* Every process serves its mailbox, links deliver, timers fire, detectors
\* notice a new master and a framework subscribes again.  The executor goes
\* on to its terminal update.  The detection of a master has its turn in the
\* mailbox of the agent even if the manager dispatches to it again and again
\* (SF).  Nothing is assumed of the faults.
FairSpec ==
    /\ Spec
    /\ WF_vars(sendStatusUpdate) /\ WF_vars(___statusUpdate \/ forward \/ Acknowledged)
    /\ WF_vars(reregisterExecutor) /\ WF_vars(StatusUpdate)
    /\ WF_vars(ContainerStatus("nested")) /\ WF_vars(ContainerStatus("own"))
    /\ WF_vars(ContainerUpdated) /\ WF_vars(ExecutorTerminated)
    /\ \A link \in {"toSlave", "stale"} :
          WF_vars(statusUpdateAcknowledgement(link) \/ reregistered(link) \/ updateFramework(link))
    /\ SF_vars(detected) /\ WF_vars(doReliableRegistration) /\ WF_vars(reregisterExecutorTimeout)
    /\ WF_vars(Serve) /\ WF_vars(Timeout)
    /\ WF_vars(MasterStatusUpdate \/ reregisterSlave) /\ WF_vars(MasterAcknowledge)
    /\ WF_vars(FrameworkReregisters) /\ WF_vars(SchedulerStatusUpdate)

-----------------------------------------------------------------------------
(* Properties.                                                             *)

OnDisk(update) == \E r \in Range(manager.disk) : r.type = "UPDATE" /\ r.update = update

\* The scheduler sees the checkpointed updates in the order in which the
\* agent has checkpointed them, and none is left out, whatever is sent again:
\* TaskStatusUpdateManagerProcess sends the next one only when the first is
\* acknowledged, across restarts, failovers and broken links.
DeliveredInOrder ==
    LET checkpointed == SelectSeq(manager.disk, LAMBDA r : r.type = "UPDATE")
        order == [i \in DOMAIN checkpointed |-> checkpointed[i].update]
    IN  IsPrefix(SelectSeq(scheduler, OnDisk), order)


\* The task is forgotten, by the master (Master::acknowledge, removeTask) and
\* by the agent (Executor::completeTask), only when the scheduler has seen a
\* terminal update of it.
ForgottenIsDelivered ==
    \/ \E i \in DOMAIN scheduler : Terminal(scheduler[i])
    \/ /\ agent.task # "completed"
       /\ master.registered => master.task # None

\* No CHECK fails: CHECK_SOME and CHECK_NONE of the timeout of a stream,
\* CHECK_READY of the result of the manager, CHECK(firstTerminal != end).
NoUpdateCheckFails == ~manager.failed /\ ~agent.failed

\* Master::reconcileKnownSlave: "if a master has a task that the agent doesn't
\* know about, the framework must have reregistered with this master since
\* the last master failover", which it goes on to CHECK.
UnknownTaskHasFramework == ~master.failed

\* A task always ends: the scheduler gets a terminal update of it and the
\* agent completes it, because the manager sends its first update until it is
\* acknowledged.
TaskCompletes ==
    <>[](agent.task = "completed" /\ \E i \in DOMAIN scheduler : Terminal(scheduler[i]))

=============================================================================
