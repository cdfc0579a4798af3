--------------------------- MODULE AgentLifecycle ---------------------------
(***************************************************************************)
(* How the leading master (src/master/master.cpp, src/master/http.cpp)     *)
(* admits, loses, drains and removes agents: the handlers that keep the    *)
(* in-memory "slaves" structure of master.hpp in step with the registry    *)
(* and with the allocator, composed with the registrar of that master, its *)
(* allocator and the agents that (re-)register with it.                    *)
(*                                                                         *)
(* The master is an actor: one handler at a time.  A handler changes the   *)
(* in-memory state and applies operations to the registrar; the rest of it *)
(* runs when the operation's promise is set, with other handlers between.  *)
(* A CHECK that fails, and an operation that fails, end the master, and    *)
(* another one recovers from the registry.                                 *)
(*                                                                         *)
(* One framework takes offers; it is always connected.  The resources of   *)
(* an agent are one unit, which an offer or a task holds as a whole.       *)
(* Whether a draining agent still has other tasks or operations is an      *)
(* input of the handlers that look at it.                                  *)
(***************************************************************************)
EXTENDS Registrar, Allocator

CONSTANTS
    None,               \* no id
    Scenarios,          \* where the behaviours start, and what happens in them
    MaxAgentAge,        \* --registry_max_agent_age
    MaxAgentCount,      \* --registry_max_agent_count
    MaxClock,           \* bound on the clock
    MaxInFlight,        \* bound on the operations that are not answered yet
    MaxCalls,           \* bound on the calls the allocator has not handled yet
    MaxLate             \* bound on the stores that may take effect late

VARIABLES
    slaves,             \* Master::slaves
    authorizing,        \* the (re-)registrations that await authorization
    agents,             \* the id and the info each agent (re-)registers with
    assigned,           \* the ids that have been assigned
    clock,
    failures,           \* the CHECKs that have failed
    scenario            \* the member of Scenarios

masterVars == <<slaves, authorizing, failures>>
agentVars == <<agents, assigned>>
vars == <<storageVars, masterVars, agentVars, clock, scenario>>

\* A scenario has the agents (by their address, the UPID) and the registry
\* it starts with, the ids and infos there are, and the features in use.
Hosts == DOMAIN agents
SlaveIDs == scenario.ids
Uses(feature) == feature \in scenario.features

NoSlaves ==
    [elected |-> FALSE, recovered |-> <<>>, recoveredTimer |-> {},
     registering |-> {}, reregistering |-> {}, registered |-> <<>>, pids |-> <<>>,
     removing |-> {}, markingUnreachable |-> {}, markingGone |-> {},
     draining |-> <<>>, deactivated |-> {}, removed |-> {},
     unreachable |-> <<>>, gone |-> <<>>, unreachableTasks |-> {},
     offers |-> {}, used |-> {}, calls |-> <<>>,
     allocator |-> NewAllocator, offering |-> <<>>]

\* The linked maps of the unreachable and the gone agents (sequences in
\* order of insertion).
EraseAll(list, ids) == SelectSeq(list, LAMBDA e : e.id \notin ids)
Insert(list, id, time) ==
    IF id \in Ids(list)
    THEN [list EXCEPT ![PlaceOf(id, list)].time = time]
    ELSE Append(list, [id |-> id, time |-> time])
-----------------------------------------------------------------------------
(***************************************************************************)
(* What a handler does: the slaves it leaves, the operations it applies,   *)
(* or the CHECK that failed.  S is the slaves the handler finds.           *)
(***************************************************************************)
Applies(S, operations) == [slaves |-> S, operations |-> operations, failed |-> {}]
Done(S) == Applies(S, <<>>)
Fatal(check) == [Done(NoSlaves) EXCEPT !.failed = {check}]

removeSlave(S, id) ==
    IF id \in S.markingUnreachable \cup S.markingGone \cup S.removing
    THEN Done(S)
    ELSE Applies([S EXCEPT !.removing = @ \cup {id}],
                 <<[type |-> "RemoveSlave", id |-> id]>>)

\* Calls that the master dispatches to the allocator.
Call(name, id) == <<[name |-> name, id |-> id]>>
CallWith(name, id, flag) == <<[name |-> name, id |-> id, flag |-> flag]>>
Dispatch(S, calls) == IF Uses("offers") THEN [S EXCEPT !.calls = @ \o calls] ELSE S

\* rescindOffer, if there is an offer; discardOffer does the same.
RescindOffer(S, id) ==
    IF id \in S.offers
    THEN Dispatch([S EXCEPT !.offers = @ \ {id}], CallWith("recoverResources", id, FALSE))
    ELSE S

\* updateTask with a terminal state, if there is a task.
EndTask(S, id) ==
    IF id \in S.used
    THEN Dispatch([S EXCEPT !.used = @ \ {id}], CallWith("recoverResources", id, TRUE))
    ELSE S

\* The slave leaves the map of the registered ones; so does its address.
\* The allocator forgets it first, not to offer what is recovered.
Forget(S, id) ==
    LET emptied == RescindOffer(EndTask(Dispatch(S, Call("removeSlave", id)), id), id)
    IN  [emptied EXCEPT !.registered = Erase(@, {id}),
                        !.pids = Erase(@, {S.registered[id].pid}),
                        !.removed = @ \cup {id}]

_removeSlave(S, id, result) ==
    IF id \notin S.removing \/ ~result
    THEN Fatal("_removeSlave")
    ELSE Done([Forget(S, id) EXCEPT !.removing = @ \ {id},
                                    !.draining = Erase(@, {id}),
                                    !.deactivated = @ \ {id}])

\* used: the agent has a task.
addSlave(S, id, host, info, used) ==
    LET added == [S EXCEPT
            !.registered = Put(@, id, [pid |-> host, info |-> info,
                                       connected |-> TRUE, active |-> TRUE]),
            !.pids = Put(@, host, id),
            !.used = IF used THEN @ \cup {id} ELSE @]
    IN  IF id \in DOMAIN S.registered \cup Ids(S.unreachable) \cup S.removed
        THEN Fatal("addSlave")
        ELSE Done(Dispatch(added, CallWith("addSlave", id, used)))

deactivate(S, id) ==
    RescindOffer(Dispatch([S EXCEPT !.registered[id].active = FALSE],
                          Call("deactivateSlave", id)), id)

\* idle: the agent has no other tasks and no operations.
checkAndTransitionDrainingAgent(S, id, idle) ==
    CASE \/ id \notin DOMAIN S.draining
         \/ ~idle \/ id \in S.used
         \/ id \in S.markingGone -> Done(S)
      [] OTHER ->
         CASE S.draining[id].state = "DRAINED" -> Done(S)
           [] S.draining[id].state # "DRAINED" /\ S.draining[id].mark_gone ->
                  Applies([S EXCEPT !.markingGone = @ \cup {id}],
                          <<[type |-> "MarkSlaveGone", id |-> id, time |-> clock]>>)
           [] OTHER -> Applies(S, <<[type |-> "MarkAgentDrained", id |-> id]>>)


markUnreachable(S, id, duringMasterFailover) ==
    IF \/ duringMasterFailover /\ id \notin DOMAIN S.recovered
       \/ ~duringMasterFailover /\ id \notin DOMAIN S.registered
       \/ id \in S.reregistering \cup S.markingUnreachable \cup S.removing
                 \cup S.removed \cup S.markingGone \cup Ids(S.gone)
    THEN Done(S)
    ELSE IF id \in Ids(S.unreachable)
         THEN Fatal("markUnreachable")
         ELSE Applies([S EXCEPT !.markingUnreachable = @ \cup {id}],
                      <<[type |-> "MarkSlaveUnreachable", id |-> id, time |-> clock,
                         failover |-> duringMasterFailover]>>)

_markUnreachable(S, op, result) ==
    LET marked == [S EXCEPT !.markingUnreachable = @ \ {op.id},
                            !.unreachable = Insert(@, op.id, op.time),
                            !.unreachableTasks = @ \cup ({op.id} \cap S.used)]
        known == IF op.failover THEN DOMAIN S.recovered ELSE DOMAIN S.registered
    IN  CASE ~result -> Fatal("_markUnreachable: result")
          [] result /\ ( \/ op.id \notin S.markingUnreachable \cap known
                         \/ op.id \in Ids(S.unreachable) ) -> Fatal("_markUnreachable")
          [] OTHER -> Done(IF op.failover
                           THEN [marked EXCEPT !.recovered = Erase(@, {op.id})]
                           ELSE Forget(marked, op.id))

\* The result of the operation is not looked at.
markGone(S, id, time) ==
    LET gone == [S EXCEPT !.markingGone = @ \ {id}, !.gone = Insert(@, id, time)]
    IN  CASE id \in DOMAIN S.registered -> Done(Forget(gone, id))
          [] id \notin DOMAIN S.registered /\ id \in DOMAIN S.recovered -> Done(gone)
          [] id \notin DOMAIN S.registered \cup DOMAIN S.recovered
             /\ id \in Ids(S.unreachable) ->
                 Done([gone EXCEPT !.unreachable = EraseAll(@, {id}),
                                   !.unreachableTasks = @ \ {id},
                                   !.draining = Erase(@, {id}),
                                   !.deactivated = @ \ {id}])
          [] OTHER -> Fatal("markGone")
-----------------------------------------------------------------------------
\* The agents of a list that doRegistryGc removes: the first ones, until at
\* most MaxAgentCount are left, and every one that is too old.
Expired(list) ==
    {list[i].id : i \in {j \in DOMAIN list :
                            \/ j <= Len(list) - MaxAgentCount
                            \/ clock - list[j].time > MaxAgentAge}}

doRegistryGc(S) ==
    LET prune == [type |-> "Prune", unreachable |-> Expired(S.unreachable),
                  gone |-> Expired(S.gone)]
    IN  IF prune.unreachable = {} /\ prune.gone = {}
        THEN Done(S)
        ELSE Applies(S, <<prune>>)

_doRegistryGc(S, op) ==
    Done([S EXCEPT !.unreachable = EraseAll(@, op.unreachable),
                   !.unreachableTasks = @ \ (op.unreachable \cap Ids(S.unreachable)),
                   !.gone = EraseAll(@, op.gone)])

_drainAgent(S, op, idle) ==
    LET drained == [S EXCEPT
            !.draining = Put(@, op.id, [state |-> "DRAINING", mark_gone |-> op.mark_gone]),
            !.deactivated = @ \cup {op.id}]
    IN  IF op.id \in DOMAIN S.registered
        THEN checkAndTransitionDrainingAgent(deactivate(drained, op.id), op.id, idle)
        ELSE Done(drained)

_markAgentDrained(S, id) ==
    Done(IF id \in DOMAIN S.draining
         THEN [S EXCEPT !.draining[id].state = "DRAINED"]
         ELSE S)

_deactivateAgent(S, id) ==
    LET deactivated == [S EXCEPT !.deactivated = @ \cup {id}]
    IN  Done(IF id \in DOMAIN S.registered THEN deactivate(deactivated, id)
                                           ELSE deactivated)

_reactivateAgent(S, id) ==
    LET reactivated == [S EXCEPT !.draining = Erase(@, {id}),
                                 !.deactivated = @ \ {id}]
    IN  Done(IF id \in DOMAIN S.registered /\ S.registered[id].connected
             THEN Dispatch([reactivated EXCEPT !.registered[id].active = TRUE],
                           Call("activateSlave", id))
             ELSE reactivated)
-----------------------------------------------------------------------------
__registerSlave(S, op, result) ==
    LET admitted == addSlave(S, op.id, op.host, op.info, FALSE)
    IN  CASE op.host \notin S.registering -> Fatal("__registerSlave")
          [] op.host \in S.registering /\ ~result ->
                 Done([S EXCEPT !.registering = @ \ {op.host}])
          [] OTHER -> [admitted EXCEPT !.slaves.registering = @ \ {op.host}]

\* The agent is not registered: it is added, with the task it reports.
__reregisterSlave(S, id, host, info, result, idle) ==
    LET finished == [S EXCEPT !.reregistering = @ \ {id}]
        added == addSlave([finished EXCEPT !.recovered = Erase(@, {id}),
                                           !.removed = @ \ {id},
                                           !.unreachable = EraseAll(@, {id}),
                                           !.unreachableTasks = @ \ {id}],
                          id, host, info, ~idle /\ id \in S.unreachableTasks)
        T == IF id \in S.deactivated THEN deactivate(added.slaves, id) ELSE added.slaves
    IN  CASE id \notin S.reregistering \/ ~result -> Fatal("__reregisterSlave")
          [] /\ id \in S.reregistering /\ result
             /\ id \in S.markingGone \cup Ids(S.gone) -> Done(finished)
          [] OTHER -> IF added.failed # {}
                      THEN added
                      ELSE checkAndTransitionDrainingAgent(T, id, idle)

\* The mutant of ___reregisterSlave: a deactivated agent becomes active.
ReregisteredActive(S, id, host, info, result, idle) ==
    LET finished == [S EXCEPT !.reregistering = @ \ {id}]
        updated == Dispatch([finished EXCEPT !.registered[id] =
            [pid |-> host, info |-> info, connected |-> TRUE, active |-> TRUE]],
            Call("updateSlave", id) \o Call("activateSlave", id))
    IN  IF id \in S.markingGone \cup Ids(S.gone) \/ id \notin DOMAIN S.registered
        THEN Done(finished)
        ELSE checkAndTransitionDrainingAgent(updated, id, idle)

\* The agent is registered: what is known about it is brought up to date.
___reregisterSlave(S, id, host, info, result, idle) ==
    LET finished == [S EXCEPT !.reregistering = @ \ {id}]
        activates == ~S.registered[id].connected /\ id \notin S.deactivated
        updated == Dispatch([finished EXCEPT !.registered[id] =
            [pid |-> host, info |-> info, connected |-> TRUE,
             active |-> @.active \/ activates]],
            Call("updateSlave", id)
                \o (IF activates THEN Call("activateSlave", id) ELSE <<>>))
    IN  CASE id \notin S.reregistering \/ ~result -> Fatal("___reregisterSlave")
          [] /\ id \in S.reregistering /\ result
             /\ \/ id \in S.markingGone \cup Ids(S.gone)
                \/ id \notin DOMAIN S.registered -> Done(finished)
          [] OTHER -> checkAndTransitionDrainingAgent(updated, id, idle)

\* The rest of registerSlave, once it is authorized.
_registerSlave(S, host, info, id) ==
    LET removal == IF host \in DOMAIN S.pids THEN removeSlave(S, S.pids[host])
                                             ELSE Done(S)
        admit == [type |-> "AdmitSlave", id |-> id, host |-> host, info |-> info]
    IN  Applies(removal.slaves, Append(removal.operations, admit))

\* The mutant of _reregisterSlave: the agent may have been marked gone while
\* the authorization was pending.
ReregisteredGone(S, id, host, info, idle) ==
    LET operation(type) == [type |-> type, id |-> id, host |-> host, info |-> info,
                            known |-> id \in DOMAIN S.registered]
    IN  CASE id \in DOMAIN S.registered ->
                 IF S.registered[id].info = info
                 THEN ___reregisterSlave(S, id, host, info, TRUE, idle)
                 ELSE Applies(S, <<operation("UpdateSlave")>>)
          [] id \notin DOMAIN S.registered /\ id \in DOMAIN S.recovered ->
                 __reregisterSlave(S, id, host, info, TRUE, idle)
          [] OTHER -> Applies(S, <<operation("MarkSlaveReachable")>>)

\* The rest of reregisterSlave, once it is authorized.
_reregisterSlave(S, id, host, info, idle) ==
    LET operation(type) == [type |-> type, id |-> id, host |-> host, info |-> info,
                            known |-> id \in DOMAIN S.registered]
    IN  CASE id \in S.markingGone \cup Ids(S.gone) ->
                 Done([S EXCEPT !.reregistering = @ \ {id}])
          [] id \notin S.markingGone \cup Ids(S.gone)
             /\ id \in DOMAIN S.registered ->
                 IF S.registered[id].info = info
                 THEN ___reregisterSlave(S, id, host, info, TRUE, idle)
                 ELSE Applies(S, <<operation("UpdateSlave")>>)
          [] id \notin S.markingGone \cup Ids(S.gone) \cup DOMAIN S.registered
             /\ id \in DOMAIN S.recovered ->
                 IF S.recovered[id] = info
                 THEN __reregisterSlave(S, id, host, info, TRUE, idle)
                 ELSE Applies(S, <<operation("UpdateSlave")>>)
          [] OTHER -> Applies(S, <<operation("MarkSlaveReachable")>>)

\* The mutant of _recover: the unreachable agents' draining is not recovered.
RecoverAdmitted(registry) ==
    LET Entry(id) == registry.slaves[PlaceOf(id, registry.slaves)]
        draining == {id \in Ids(registry.slaves) : Entry(id).status.drain # "NONE"}
        Timed(list) == [i \in DOMAIN list |-> [id |-> list[i].id, time |-> list[i].time]]
    IN  [NoSlaves EXCEPT
            !.elected = TRUE,
            !.recovered = [id \in Ids(registry.slaves) |-> Entry(id).info],
            !.recoveredTimer = Ids(registry.slaves),
            !.draining = [id \in draining |-> [state |-> Entry(id).status.drain,
                                               mark_gone |-> Entry(id).status.mark_gone]],
            !.deactivated = {id \in Ids(registry.slaves) : Entry(id).status.deactivated},
            !.unreachable = Timed(registry.unreachable),
            !.gone = Timed(registry.gone)]

\* Master::_recover
_recover(registry) ==
    LET entries == {registry.slaves[i] : i \in DOMAIN registry.slaves}
                   \cup {registry.unreachable[i] : i \in DOMAIN registry.unreachable}
        Entry(id) == CHOOSE e \in entries : e.id = id
        draining == {e.id : e \in {f \in entries : f.status.drain # "NONE"}}
        Timed(list) == [i \in DOMAIN list |-> [id |-> list[i].id, time |-> list[i].time]]
    IN  [NoSlaves EXCEPT
            !.elected = TRUE,
            !.recovered = [id \in Ids(registry.slaves) |->
                               registry.slaves[PlaceOf(id, registry.slaves)].info],
            !.recoveredTimer = Ids(registry.slaves),
            !.draining = [id \in draining |-> [state |-> Entry(id).status.drain,
                                               mark_gone |-> Entry(id).status.mark_gone]],
            !.deactivated = {e.id : e \in {f \in entries : f.status.deactivated}},
            !.unreachable = Timed(registry.unreachable),
            !.gone = Timed(registry.gone)]

\* What the continuation of an operation does when its promise is set.
Continue(S, r, idle) ==
    LET op == r.op
        result == r.result = "permitted"
    IN
    CASE op.type = "Recover" -> Done(_recover(registrar.registry))
      [] op.type = "AdmitSlave" -> __registerSlave(S, op, result)
      [] op.type \in {"UpdateSlave", "MarkSlaveReachable"} ->
             IF op.known
             THEN ___reregisterSlave(S, op.id, op.host, op.info, result, idle)
             ELSE __reregisterSlave(S, op.id, op.host, op.info, result, idle)
      [] op.type = "MarkSlaveUnreachable" -> _markUnreachable(S, op, result)
      [] op.type = "RemoveSlave" -> _removeSlave(S, op.id, result)
      [] op.type = "MarkSlaveGone" -> markGone(S, op.id, op.time)
      [] op.type = "Prune" -> _doRegistryGc(S, op)
      [] op.type = "DrainAgent" -> _drainAgent(S, op, idle)
      [] op.type = "MarkAgentDrained" -> _markAgentDrained(S, op.id)
      [] op.type = "DeactivateAgent" -> _deactivateAgent(S, op.id)
      [] op.type = "ReactivateAgent" -> _reactivateAgent(S, op.id)
-----------------------------------------------------------------------------
Init ==
    /\ scenario \in Scenarios
    /\ stored = scenario.stored
    /\ agents = scenario.agents
    /\ assigned = {agents[h].id : h \in Hosts} \ {None}
    /\ StorageInit
    /\ slaves = NoSlaves
    /\ authorizing = {}
    /\ clock = 0
    /\ failures = {}

\* The master ends; its store may still take effect.
Terminate(failed) ==
    /\ registrar' = NewRegistrar
    /\ slaves' = NoSlaves
    /\ authorizing' = {}
    /\ late' = late \cup Abandoned(registrar)
    /\ failures' = failures \cup failed

Becomes(R, pending, outcome) ==
    IF outcome.failed # {}
    THEN Terminate(outcome.failed)
    ELSE /\ slaves' = outcome.slaves
         /\ registrar' = ApplyAll(R, outcome.operations)
         /\ authorizing' = pending
         /\ UNCHANGED <<late, failures>>

InFlight(R) ==
    Len(R.operations) + Len(R.results)
        + (IF Updating(R) THEN Len(R.storing[1].applied) ELSE 0)

\* A message is handled by a master that has recovered.
Serving ==
    /\ slaves.elected
    /\ InFlight(registrar) < MaxInFlight
    /\ Len(slaves.calls) < MaxCalls
Handles(outcome) ==
    /\ Becomes(registrar, authorizing, outcome)
    /\ UNCHANGED <<stored, agentVars, clock, scenario>>

\* The agent gets, or does not get, the id it is registered with.
Acknowledged(host, id, delivered) ==
    agents' = IF delivered /\ agents[host].id = None
              THEN [agents EXCEPT ![host].id = id]
              ELSE agents
-----------------------------------------------------------------------------
\* (Re-)registration.
registerSlave(h) ==
    /\ Serving
    /\ agents[h].id = None
    /\ h \notin slaves.registering
    /\ slaves' = [slaves EXCEPT !.registering = @ \cup {h}]
    /\ authorizing' = authorizing \cup {[id |-> None, host |-> h, info |-> agents[h].info]}
    /\ UNCHANGED <<storageVars, agentVars, clock, failures, scenario>>

\* In most scenarios an agent that was removed does not come back before the
\* allocator has handled its removal, and the master what was offered of it.
Prompt(id) ==
    \/ Uses("slow_allocator")
    \/ id \in DOMAIN slaves.registered
    \/ slaves.calls = <<>> /\ slaves.offering = <<>>

reregisterSlave(h) ==
    LET id == agents[h].id IN
    /\ Serving
    /\ Prompt(id)
    /\ id # None
    /\ id \notin slaves.reregistering \cup slaves.markingUnreachable
                 \cup slaves.markingGone \cup Ids(slaves.gone)
    /\ slaves' = [slaves EXCEPT !.reregistering = @ \cup {id}]
    /\ authorizing' = authorizing \cup {[id |-> id, host |-> h, info |-> agents[h].info]}
    /\ UNCHANGED <<storageVars, agentVars, clock, failures, scenario>>

\* The agent is not authorized, or its machine, version or domain is refused.
Refuse(m) ==
    /\ slaves' = [slaves EXCEPT !.registering = IF m.id = None THEN @ \ {m.host} ELSE @,
                                !.reregistering = @ \ {m.id}]
    /\ authorizing' = authorizing \ {m}
    /\ UNCHANGED <<storageVars, agentVars, clock, failures, scenario>>

\* A registered and connected agent gets its id again.
RegisteredAlready(m, delivered) ==
    /\ m.id = None
    /\ m.host \in DOMAIN slaves.pids
    /\ slaves.registered[slaves.pids[m.host]].connected
    /\ slaves' = [slaves EXCEPT !.registering = @ \ {m.host}]
    /\ authorizing' = authorizing \ {m}
    /\ Acknowledged(m.host, slaves.pids[m.host], delivered)
    /\ UNCHANGED <<storageVars, assigned, clock, failures, scenario>>

RegisterAuthorized(m, id) ==
    /\ m.id = None
    /\ m.host \in DOMAIN slaves.pids => ~slaves.registered[slaves.pids[m.host]].connected
    /\ id \notin assigned
    /\ assigned' = assigned \cup {id}
    /\ Becomes(registrar, authorizing \ {m}, _registerSlave(slaves, m.host, m.info, id))
    /\ UNCHANGED <<stored, agents, clock, scenario>>

ReregisterAuthorized(m, idle) ==
    /\ m.id # None
    /\ Becomes(registrar, authorizing \ {m},
               _reregisterSlave(slaves, m.id, m.host, m.info, idle))
    /\ UNCHANGED <<stored, agentVars, clock, scenario>>

\* The promise of the oldest answered operation.
Result(idle, delivered) ==
    LET r == Head(registrar.results)
        outcome == Continue(slaves, r, idle)
    IN  /\ registrar.results # <<>>
        /\ r.result # "failed"
        /\ Becomes([registrar EXCEPT !.results = Tail(@)], authorizing, outcome)
        /\ IF r.op.type = "AdmitSlave" /\ r.result = "permitted" /\ outcome.failed = {}
           THEN Acknowledged(r.op.host, r.op.id, delivered)
           ELSE UNCHANGED agents
        /\ UNCHANGED <<stored, assigned, clock, scenario>>

\* An operation that failed ends the master, and so does anything else.
Failover ==
    /\ \/ Uses("failover")
       \/ registrar.results # <<>> /\ Head(registrar.results).result = "failed"
    /\ Terminate({})
    /\ UNCHANGED <<stored, agentVars, clock, scenario>>
-----------------------------------------------------------------------------
\* Health checks and timeouts.
exited(h) ==
    /\ Serving
    /\ h \in DOMAIN slaves.pids
    /\ slaves.registered[slaves.pids[h]].connected
    /\ slaves' = [deactivate(slaves, slaves.pids[h])
                  EXCEPT !.registered[slaves.pids[h]].connected = FALSE]
    /\ UNCHANGED <<storageVars, authorizing, agentVars, clock, failures, scenario>>

\* The SlaveObserver's pings went unanswered, or the agent did not come
\* back in time.
AgentLost(id) ==
    /\ Serving
    /\ id \in DOMAIN slaves.registered
    /\ Handles(markUnreachable(slaves, id, FALSE))

recoveredSlavesTimeout(id) ==
    /\ Serving
    /\ id \in slaves.recoveredTimer
    /\ Handles(markUnreachable([slaves EXCEPT !.recoveredTimer = @ \ {id}], id, TRUE))

RegistryGc ==
    /\ Serving
    /\ Uses("gc")
    /\ Handles(doRegistryGc(slaves))

Tick ==
    /\ Uses("gc")
    /\ clock < MaxClock
    /\ clock' = clock + 1
    /\ UNCHANGED <<storageVars, masterVars, agentVars, scenario>>
-----------------------------------------------------------------------------
\* The operators, through the HTTP API.
IsKnown(id) ==
    id \in DOMAIN slaves.recovered \cup DOMAIN slaves.registered \cup Ids(slaves.unreachable)

markAgentGone(id) ==
    /\ Serving
    /\ Uses("gone")
    /\ IsKnown(id)
    /\ id \notin Ids(slaves.gone) \cup slaves.markingGone \cup slaves.removing
                 \cup slaves.markingUnreachable
    /\ Handles(Applies([slaves EXCEPT !.markingGone = @ \cup {id}],
                       <<[type |-> "MarkSlaveGone", id |-> id, time |-> clock]>>))

drainAgent(id, mark_gone) ==
    /\ Serving
    /\ Uses("drain")
    /\ mark_gone => Uses("gone")
    /\ IsKnown(id)
    /\ id \notin slaves.markingGone
    /\ Handles(Applies(slaves, <<[type |-> "DrainAgent", id |-> id,
                                  mark_gone |-> mark_gone]>>))

deactivateAgent(id) ==
    /\ Serving
    /\ Uses("drain")
    /\ IsKnown(id)
    /\ Handles(Applies(slaves, <<[type |-> "DeactivateAgent", id |-> id]>>))

reactivateAgent(id) ==
    /\ Serving
    /\ Uses("drain")
    /\ id \in slaves.deactivated
    /\ id \in DOMAIN slaves.draining => slaves.draining[id].state # "DRAINING"
    /\ Handles(Applies(slaves, <<[type |-> "ReactivateAgent", id |-> id]>>))

\* An acknowledgement or an UpdateSlaveMessage after which the agent has
\* nothing to do any more.
Drained(id) ==
    /\ Serving
    /\ id \in DOMAIN slaves.registered
    /\ checkAndTransitionDrainingAgent(slaves, id, TRUE) # Done(slaves)
    /\ Handles(checkAndTransitionDrainingAgent(slaves, id, TRUE))
-----------------------------------------------------------------------------
\* The agents.
unregisterSlave(h) ==
    LET id == agents[h].id IN
    /\ Serving
    /\ Uses("unregister")
    /\ id \in DOMAIN slaves.registered
    /\ slaves.registered[id].pid = h
    /\ Handles(removeSlave(slaves, id))

-----------------------------------------------------------------------------
\* The allocator, and the framework it makes offers to.
Changes(S) ==
    /\ slaves' = S
    /\ UNCHANGED <<storageVars, authorizing, agentVars, clock, failures, scenario>>

AllocatorHandles ==
    /\ slaves.calls # <<>>
    /\ Changes([slaves EXCEPT !.allocator = Handle(@, Head(slaves.calls)),
                              !.calls = Tail(@)])

generateOffers(id) ==
    /\ Offerable(slaves.allocator, id)
    /\ Changes([slaves EXCEPT !.allocator = Offered(@, id),
                              !.offering = Append(@, id)])

\* The agent may have been removed or deactivated since.
offer ==
    LET id == Head(slaves.offering)
        rest == [slaves EXCEPT !.offering = Tail(@)]
    IN  /\ slaves.offering # <<>>
        /\ IF id \in DOMAIN slaves.registered /\ slaves.registered[id].active
           THEN Changes([rest EXCEPT !.offers = @ \cup {id}])
           ELSE Changes(Dispatch(rest, CallWith("recoverResources", id, FALSE)))

\* The framework declines the offer, or --offer_timeout passes.
decline(id) ==
    /\ Serving
    /\ id \in slaves.offers
    /\ Changes(RescindOffer(slaves, id))

\* The framework accepts the offer and launches a task.  An accepted offer
\* from which nothing is launched ends as a declined one.
_accept(id) ==
    /\ Serving
    /\ id \in slaves.offers
    /\ slaves.registered[id].connected
    /\ Changes(Dispatch([slaves EXCEPT !.offers = @ \ {id}, !.used = @ \cup {id}],
                        Call("transitionOfferedToAllocated", id)))

\* The agent sends a terminal status update.
updateTask(id) ==
    /\ Serving
    /\ id \in slaves.used
    /\ Changes(EndTask(slaves, id))
-----------------------------------------------------------------------------
\* An agent restarts with another configuration, or without its old state.
Reconfigure(h, info) ==
    /\ Uses("reconfigure")
    /\ agents[h].info # info
    /\ agents' = [agents EXCEPT ![h].info = info]
    /\ UNCHANGED <<storageVars, masterVars, assigned, clock, scenario>>

StartAnew(h) ==
    /\ Uses("restart")
    /\ agents[h].id # None
    /\ agents' = [agents EXCEPT ![h].id = None]
    /\ UNCHANGED <<storageVars, masterVars, assigned, clock, scenario>>

\* The clock of the next master is behind.
Skew ==
    /\ registrar.state = "NEW"
    /\ clock > 0
    /\ clock' = clock - 1
    /\ UNCHANGED <<storageVars, masterVars, agentVars, scenario>>
-----------------------------------------------------------------------------
Storage ==
    /\ \/ Recover
       \/ StoreSucceeds
       \/ Uses("failover") /\ StoreFails
       \/ \E value \in late : LateStore(value)
    /\ UNCHANGED <<masterVars, agentVars, clock, scenario>>

Next ==
    /\ \/ Storage
       \/ \E h \in Hosts : \/ registerSlave(h) \/ reregisterSlave(h) \/ exited(h)
                           \/ unregisterSlave(h) \/ StartAnew(h)
                           \/ \E info \in scenario.infos : Reconfigure(h, info)
       \/ \E m \in authorizing :
              \/ Refuse(m)
              \/ \E delivered \in BOOLEAN : RegisteredAlready(m, delivered)
              \/ \E id \in SlaveIDs : RegisterAuthorized(m, id)
              \/ \E idle \in BOOLEAN : ReregisterAuthorized(m, idle)
       \/ \E idle, delivered \in BOOLEAN : Result(idle, delivered)
       \/ Failover
       \/ \E id \in SlaveIDs :
              \/ AgentLost(id) \/ recoveredSlavesTimeout(id) \/ markAgentGone(id)
              \/ \E mark_gone \in BOOLEAN : drainAgent(id, mark_gone)
              \/ deactivateAgent(id) \/ reactivateAgent(id) \/ Drained(id)
              \/ generateOffers(id) \/ decline(id) \/ _accept(id) \/ updateTask(id)
       \/ AllocatorHandles
       \/ offer
       \/ RegistryGc
       \/ Tick
    /\ Cardinality(late') <= MaxLate

Spec == Init /\ [][Next]_vars

\* As Spec, with masters whose clocks differ.
SkewSpec == Init /\ [][Next \/ Skew]_vars

\* Timers fire, the authorizer and the storage answer, and the master runs
\* its continuations.
FairSpec ==
    /\ Spec
    /\ WF_vars(Storage)
    /\ WF_vars(\E idle, delivered \in BOOLEAN : Result(idle, delivered))
    /\ WF_vars(\E m \in authorizing :
                   \/ Refuse(m)
                   \/ \E idle \in BOOLEAN : ReregisterAuthorized(m, idle))
    /\ WF_vars(\E id \in SlaveIDs : recoveredSlavesTimeout(id))
-----------------------------------------------------------------------------
Quiescent == registrar.state = "RECOVERED" /\ InFlight(registrar) = 0

IdsOf(list) == [i \in DOMAIN list |-> list[i].id]

\* The master's memory and the registry do not drift apart: when no
\* operation is under way, the registered and the recovered agents are the
\* admitted ones, and the unreachable and the gone agents are those of the
\* registry in its order, which is what doRegistryGc relies on.
MemoryMatchesRegistry ==
    Quiescent =>
        /\ DOMAIN slaves.registered \cup (DOMAIN slaves.recovered \ Ids(slaves.gone))
               = Ids(registrar.registry.slaves)
        /\ IdsOf(slaves.unreachable) = IdsOf(registrar.registry.unreachable)
        /\ IdsOf(slaves.gone) = IdsOf(registrar.registry.gone)

\* However the handlers, the batches and the failovers interleave, an agent
\* is in at most one list of the stored registry, and in it once.
OneListPerAgent ==
    Cardinality(Ids(stored.slaves) \cup Ids(stored.unreachable) \cup Ids(stored.gone))
        = Len(stored.slaves) + Len(stored.unreachable) + Len(stored.gone)

\* A registrar that has recovered is the only writer: between its stores
\* the storage has its copy, whatever stores earlier masters left behind.
RegistrarOwnsRegistry ==
    registrar.state = "RECOVERED" /\ ~Updating(registrar) => registrar.registry = stored

\* An agent whose deactivation is stored is not active, in any order of
\* disconnection, re-registration, draining and failover; an active agent
\* is connected, and only active agents have outstanding offers.
DeactivatedGetsNoOffers ==
    /\ \A id \in DOMAIN slaves.registered :
          slaves.registered[id].active =>
              /\ slaves.registered[id].connected
              /\ Quiescent /\ Known(registrar.registry, id) =>
                     ~StatusOf(registrar.registry, id).deactivated
    /\ \A id \in slaves.offers :
          id \in DOMAIN slaves.registered /\ slaves.registered[id].active

\* Draining is not forgotten: an agent that drains according to the registry
\* is known to drain, also when it was unreachable during a failover.
DrainingIsRemembered ==
    Quiescent =>
        \A id \in SlaveIDs :
            Known(registrar.registry, id)
            /\ StatusOf(registrar.registry, id).drain # "NONE" => id \in DOMAIN slaves.draining

\* As long as an agent is deactivated the registry requires AGENT_DRAINING,
\* so that a master that does not know about it cannot take over.
DrainingNeedsCapability ==
    \A id \in SlaveIDs :
        Known(stored, id) /\ StatusOf(stored, id).deactivated => stored.agent_draining



\* The CHECK of markGone: "If the `Slave` struct does not exist, then the
\* agent must be either recovered or unreachable."
GoneAgentIsKnown == "markGone" \notin failures

\* What master.hpp says of slaves.recovered: an agent leaves it when it
\* re-registers or when the timer marks it unreachable.
RecoveredAreResolved ==
    \A id \in UNION {s.ids : s \in Scenarios} :
        id \in DOMAIN slaves.recovered ~> id \notin DOMAIN slaves.recovered
=============================================================================
