------------------------------ MODULE Registry ------------------------------
(***************************************************************************)
(* The registry the master keeps in the replicated log, and the operations *)
(* on it (src/master/registry_operations.cpp).                             *)
(*                                                                         *)
(* A registry has the lists of admitted, unreachable and gone agents, in   *)
(* the order of the protobuf, and whether AGENT_DRAINING is a minimum      *)
(* capability.  An agent's "status" is its drain_info and deactivated.     *)
(* Perform(op, r) is the registry after the operation and whether the      *)
(* operation was permitted, i.e. did not return an Error.  Whether it      *)
(* mutated the registry is not used by the registrar and left out.         *)
(***************************************************************************)
EXTENDS Integers, Sequences, SequencesExt

NotDraining == [drain |-> "NONE", mark_gone |-> FALSE, deactivated |-> FALSE]

EmptyRegistry ==
    [slaves |-> <<>>, unreachable |-> <<>>, gone |-> <<>>,
     agent_draining |-> FALSE]

\* The ids of a list, and the place of an id in it (0: not there).
Ids(list) == {list[i].id : i \in DOMAIN list}
PlaceOf(id, list) == SelectInSeq(list, LAMBDA e : e.id = id)
Without(list, id) == RemoveAt(list, PlaceOf(id, list))

Permitted(r) == [success |-> TRUE, registry |-> r]
Refused(r) == [success |-> FALSE, registry |-> r]
-----------------------------------------------------------------------------
AdmitSlave(op, r) ==
    IF op.id \in Ids(r.slaves)
    THEN Refused(r)
    ELSE Permitted([r EXCEPT !.slaves =
             Append(@, [id |-> op.id, info |-> op.info, status |-> NotDraining])])

UpdateSlave(op, r) ==
    IF op.id \notin Ids(r.slaves)
    THEN Refused(r)
    ELSE Permitted([r EXCEPT !.slaves[PlaceOf(op.id, r.slaves)].info = op.info])

MarkSlaveUnreachable(op, r) ==
    IF op.id \notin Ids(r.slaves)
    THEN Refused(r)
    ELSE LET slave == r.slaves[PlaceOf(op.id, r.slaves)] IN
         Permitted([r EXCEPT
             !.slaves = Without(@, op.id),
             !.unreachable = Append(@, [id |-> op.id, time |-> op.time,
                                        status |-> slave.status])])

MarkSlaveReachable(op, r) ==
    IF op.id \in Ids(r.slaves)
    THEN Permitted(r)
    ELSE LET found == op.id \in Ids(r.unreachable)
             status == IF found
                       THEN r.unreachable[PlaceOf(op.id, r.unreachable)].status
                       ELSE NotDraining
         IN  Permitted([r EXCEPT
                 !.unreachable = IF found THEN Without(@, op.id) ELSE @,
                 !.slaves = Append(@, [id |-> op.id, info |-> op.info,
                                       status |-> status])])

RemoveSlave(op, r) ==
    IF op.id \notin Ids(r.slaves)
    THEN Refused(r)
    ELSE Permitted([r EXCEPT !.slaves = Without(@, op.id)])

MarkSlaveGone(op, r) ==
    LET gone == [r EXCEPT !.gone = Append(@, [id |-> op.id, time |-> op.time])] IN
    CASE op.id \in Ids(r.gone) -> Refused(r)
      [] op.id \notin Ids(r.gone) /\ op.id \in Ids(r.slaves) ->
             Permitted([gone EXCEPT !.slaves = Without(@, op.id)])
      [] op.id \notin Ids(r.gone) \cup Ids(r.slaves)
         /\ op.id \in Ids(r.unreachable) ->
             Permitted([gone EXCEPT !.unreachable = Without(@, op.id)])
      [] OTHER -> Refused(r)
-----------------------------------------------------------------------------
(***************************************************************************)
(* RepeatedPtrField::DeleteSubrange of protobuf 3.5.0: num elements from   *)
(* start on are deleted and the size goes down by num.  With fewer than    *)
(* num elements there it is undefined (a debug build asserts): either the  *)
(* master ends, which it may at any time, or the list has the size below.  *)
(***************************************************************************)
DeleteSubrange(list, start, num) ==
    SubSeq(SubSeq(list, 1, start) \o SubSeq(list, start + num + 1, Len(list)),
           1, Len(list) - num)

\* The mutant of Deletes.
DeletesTwo(i) == 2

\* How many elements Prune deletes when it finds an agent to remove at
\* place i: it passes (i, i+1) as if the second argument were an end.
Deletes(i) == i + 1

\* The loop of Prune: Loop[n] is the list and the index after n rounds.
Pruned(list, toRemove) ==
    LET Round(w) ==
            CASE w.i >= Len(w.list) -> w
              [] w.i < Len(w.list) /\ w.list[w.i + 1].id \in toRemove ->
                     [w EXCEPT !.list = DeleteSubrange(@, w.i, Deletes(w.i))]
              [] OTHER -> [w EXCEPT !.i = @ + 1]
        Loop[n \in 0 .. Len(list)] ==
            IF n = 0 THEN [list |-> list, i |-> 0] ELSE Round(Loop[n - 1])
    IN  Loop[Len(list)].list

Prune(op, r) ==
    Permitted([r EXCEPT !.unreachable = Pruned(@, op.unreachable),
                        !.gone = Pruned(@, op.gone)])
-----------------------------------------------------------------------------
StatusOf(r, id) ==
    IF id \in Ids(r.slaves)
    THEN r.slaves[PlaceOf(id, r.slaves)].status
    ELSE r.unreachable[PlaceOf(id, r.unreachable)].status

\* The admitted entry of an agent is changed, or else the unreachable one.
\* "returned found": an agent in neither list is no error.
WithStatus(r, id, status) ==
    CASE id \in Ids(r.slaves) ->
             [r EXCEPT !.slaves[PlaceOf(id, r.slaves)].status = status]
      [] id \notin Ids(r.slaves) /\ id \in Ids(r.unreachable) ->
             [r EXCEPT !.unreachable[PlaceOf(id, r.unreachable)].status = status]
      [] OTHER -> r

Known(r, id) == id \in Ids(r.slaves) \cup Ids(r.unreachable)

\* The mutant of DrainAgent: the capability is only added for an admitted agent.
DrainWithoutCapability(op, r) ==
    Permitted([WithStatus(r, op.id, [drain |-> "DRAINING",
                    mark_gone |-> op.mark_gone, deactivated |-> TRUE])
               EXCEPT !.agent_draining = @ \/ op.id \in Ids(r.slaves)])

DrainAgent(op, r) ==
    Permitted([WithStatus(r, op.id, [drain |-> "DRAINING",
                    mark_gone |-> op.mark_gone, deactivated |-> TRUE])
               EXCEPT !.agent_draining = @ \/ Known(r, op.id)])

MarkAgentDrained(op, r) ==
    IF Known(r, op.id) /\ StatusOf(r, op.id).drain # "DRAINING"
    THEN Refused(r)
    ELSE Permitted(WithStatus(r, op.id, [StatusOf(r, op.id) EXCEPT !.drain = "DRAINED"]))

DeactivateAgent(op, r) ==
    Permitted([WithStatus(r, op.id, [StatusOf(r, op.id) EXCEPT !.deactivated = TRUE])
               EXCEPT !.agent_draining = @ \/ Known(r, op.id)])

\* The minimum capability goes with the last deactivated agent.
ReactivateAgent(op, r) ==
    LET Deactivated(list) ==
            \E i \in DOMAIN list : list[i].id # op.id /\ list[i].status.deactivated
        others == Deactivated(r.slaves) \/ Deactivated(r.unreachable)
    IN  Permitted([WithStatus(r, op.id, NotDraining)
                   EXCEPT !.agent_draining = @ /\ (others \/ ~Known(r, op.id))])
-----------------------------------------------------------------------------
Perform(op, r) ==
    CASE op.type = "Recover" -> Permitted(r)
      [] op.type = "AdmitSlave" -> AdmitSlave(op, r)
      [] op.type = "UpdateSlave" -> UpdateSlave(op, r)
      [] op.type = "MarkSlaveUnreachable" -> MarkSlaveUnreachable(op, r)
      [] op.type = "MarkSlaveReachable" -> MarkSlaveReachable(op, r)
      [] op.type = "RemoveSlave" -> RemoveSlave(op, r)
      [] op.type = "MarkSlaveGone" -> MarkSlaveGone(op, r)
      [] op.type = "Prune" -> Prune(op, r)
      [] op.type = "DrainAgent" -> DrainAgent(op, r)
      [] op.type = "MarkAgentDrained" -> MarkAgentDrained(op, r)
      [] op.type = "DeactivateAgent" -> DeactivateAgent(op, r)
      [] op.type = "ReactivateAgent" -> ReactivateAgent(op, r)
=============================================================================
