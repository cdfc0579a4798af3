------------------------------ MODULE Allocator ------------------------------
(***************************************************************************)
(* What the hierarchical allocator (src/master/allocator/mesos/            *)
(* hierarchical.cpp) keeps about the resources of agents, and the calls by *)
(* which the master changes it.                                            *)
(*                                                                         *)
(* The allocator is an actor of its own: the calls are dispatched to it in *)
(* order, and it dispatches Master::offer.  The resources of an agent are  *)
(* one unit, offered or allocated as a whole, so that offering something   *)
(* twice and losing it can be told apart from handling it well.  How the   *)
(* unit is shared out (roles, quota, sorters, filters) is left out.        *)
(***************************************************************************)
EXTENDS Sequences, SequencesExt

\* Maps: functions whose domain is the set of keys.
Put(map, key, value) == (key :> value) @@ map
Erase(map, keys) == Restrict(map, DOMAIN map \ keys)

\* slaves: HierarchicalAllocatorProcess::slaves; offeredOrAllocated and
\* allocated: whether these totals of the agent have the unit.
NewAllocator == [slaves |-> <<>>, failed |-> {}]

NewSlave(used) == [activated |-> TRUE, offeredOrAllocated |-> used, allocated |-> used]

CheckFails(A, check) == [A EXCEPT !.failed = @ \cup {check}]


\* An agent that is not known any more is ignored.
recoverResources(A, id, isAllocated) ==
    IF id \notin DOMAIN A.slaves
    THEN A
    ELSE IF \/ isAllocated /\ ~A.slaves[id].allocated
            \/ ~A.slaves[id].offeredOrAllocated
         THEN CheckFails(A, "recoverResources")
         ELSE [A EXCEPT !.slaves[id].allocated = @ /\ ~isAllocated,
                        !.slaves[id].offeredOrAllocated = FALSE]

\* A call of the master, as the allocator handles it.
Handle(A, call) ==
    LET id == call.id
        known == id \in DOMAIN A.slaves
    IN
    CASE call.name = "recoverResources" -> recoverResources(A, id, call.flag)
      [] call.name = "addSlave" /\ ~known ->
             [A EXCEPT !.slaves = Put(@, id, NewSlave(call.flag))]
      [] call.name = "removeSlave" /\ known -> [A EXCEPT !.slaves = Erase(@, {id})]
      [] call.name = "updateSlave" /\ known -> A
      [] call.name = "activateSlave" /\ known -> [A EXCEPT !.slaves[id].activated = TRUE]
      [] call.name = "deactivateSlave" /\ known -> [A EXCEPT !.slaves[id].activated = FALSE]
      [] call.name = "transitionOfferedToAllocated" /\ known ->
             [A EXCEPT !.slaves[id].allocated = TRUE]
      [] OTHER -> CheckFails(A, call.name)

\* Whether __generateOffers can offer the agent, and what it then keeps.
Offerable(A, id) ==
    /\ id \in DOMAIN A.slaves
    /\ A.slaves[id].activated
    /\ ~A.slaves[id].offeredOrAllocated
Offered(A, id) == [A EXCEPT !.slaves[id].offeredOrAllocated = TRUE]
=============================================================================
