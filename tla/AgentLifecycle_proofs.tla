------------------------ MODULE AgentLifecycle_proofs ------------------------
(***************************************************************************)
(* A registrar that has recovered is the only writer of the registry, for  *)
(* any agents, registries, operations and numbers of failovers.            *)
(*                                                                         *)
(* The invariant says more than the property: once the registrar has       *)
(* recovered no store of an earlier master can take effect any more.  The  *)
(* first store of a registrar, the one of the Recover operation, makes it  *)
(* true: it only succeeds on the version that was read, and it voids the   *)
(* stores made for that version.  What the operations do to the registry   *)
(* plays no part: Performed is never expanded.                             *)
(***************************************************************************)
EXTENDS AgentLifecycle, TLAPS

IsRegistrar(R) ==
    R = [field \in {"state", "registry", "operations", "storing", "results"} |->
             R[field]]

SoleWriter ==
    /\ IsRegistrar(registrar)
    /\ registrar.state = "RECOVERED" => registrar.registry = stored /\ late = {}

\* The registrar R2 knows the same registry, in the same state, as R1.
SameRegistry(R1, R2) ==
    /\ IsRegistrar(R2)
    /\ R2.state = R1.state
    /\ R2.registry = R1.registry

\* RegistrarProcess::update starts a store; it does not touch the registry
\* the registrar has, nor its state.
LEMMA UpdateKeepsRegistry ==
    ASSUME NEW R, IsRegistrar(R)
    PROVE  SameRegistry(R, Update(R))
BY DEF Update, IsRegistrar, SameRegistry

\* Neither does RegistrarProcess::_apply.
LEMMA ApplyKeepsRegistry ==
    ASSUME NEW R, NEW op, IsRegistrar(R)
    PROVE  SameRegistry(R, Apply(R, op))
<1> DEFINE queued == [R EXCEPT !.operations = Append(@, op)]
<1>1. SameRegistry(R, queued)
  BY DEF IsRegistrar, SameRegistry
<1>2. SameRegistry(queued, Update(queued))
  BY <1>1, UpdateKeepsRegistry DEF SameRegistry
<1>3. CASE R.state = "ERROR"
  BY <1>3 DEF Apply, IsRegistrar, SameRegistry
<1>4. CASE R.state # "ERROR"
  <2>1. Apply(R, op) \in {queued, Update(queued)}
    BY <1>4 DEF Apply
  <2> QED
    BY <2>1, <1>1, <1>2 DEF SameRegistry
<1> QED
  BY <1>3, <1>4

LEMMA ApplyAllKeepsRegistry ==
    ASSUME NEW R, NEW operations, IsRegistrar(R)
    PROVE  SameRegistry(R, ApplyAll(R, operations))
<1> DEFINE first == Apply(R, operations[1])
<1>1. SameRegistry(R, first)
  BY ApplyKeepsRegistry
<1>2. SameRegistry(first, Apply(first, operations[2]))
  BY <1>1, ApplyKeepsRegistry DEF SameRegistry
<1>3. ApplyAll(R, operations) \in {R, first, Apply(first, operations[2])}
  BY DEF ApplyAll
<1> QED
  BY <1>1, <1>2, <1>3 DEF SameRegistry

\* A handler of the master, whatever its outcome, keeps SoleWriter: it
\* applies operations or it ends the master, and its registrar with it.
LEMMA HandlerKeepsSoleWriter ==
    ASSUME NEW R, NEW pending, NEW outcome, SoleWriter,
           SameRegistry(registrar, R), Becomes(R, pending, outcome),
           UNCHANGED stored
    PROVE  SoleWriter'
<1>1. CASE outcome.failed # {}
  <2>1. registrar' = NewRegistrar
    BY <1>1 DEF Becomes, Terminate
  <2> QED
    BY <2>1 DEF SoleWriter, NewRegistrar, IsRegistrar
<1>2. CASE ~(outcome.failed # {})
  <2>1. registrar' = ApplyAll(R, outcome.operations) /\ late' = late
    BY <1>2 DEF Becomes
  <2>2. SameRegistry(R, registrar')
    BY <2>1, ApplyAllKeepsRegistry DEF SameRegistry
  <2> QED
    BY <2>1, <2>2 DEF SoleWriter, SameRegistry
<1> QED
  BY <1>1, <1>2

\* The steps of the registrar and of the storage keep SoleWriter.
LEMMA StorageKeepsSoleWriter ==
    ASSUME SoleWriter, Storage
    PROVE  SoleWriter'
<1>1. CASE Recover
  <2> DEFINE R == [registrar EXCEPT !.state = "RECOVERING", !.registry = stored,
                                    !.operations = <<[type |-> "Recover"]>>]
  <2>1. IsRegistrar(R) /\ R.state = "RECOVERING"
    BY DEF SoleWriter, IsRegistrar
  <2>2. SameRegistry(R, registrar')
    BY <1>1, <2>1, UpdateKeepsRegistry DEF Recover
  <2> QED
    BY <2>1, <2>2 DEF SoleWriter, SameRegistry
<1>2. CASE StoreSucceeds
  <2> DEFINE R == [registrar EXCEPT
                        !.state = "RECOVERED",
                        !.registry = registrar.storing[1].registry,
                        !.storing = NoStore,
                        !.results = @ \o registrar.storing[1].applied]
  <2>1. IsRegistrar(R) /\ R.registry = registrar.storing[1].registry
    BY DEF SoleWriter, IsRegistrar
  <2>2. SameRegistry(R, registrar')
    BY <1>2, <2>1, UpdateKeepsRegistry DEF StoreSucceeds
  <2> QED
    BY <1>2, <2>1, <2>2 DEF SoleWriter, SameRegistry, StoreSucceeds
<1>3. CASE StoreFails
  <2>1. IsRegistrar(Aborted(registrar)) /\ Aborted(registrar).state = "ERROR"
    BY DEF SoleWriter, IsRegistrar, Aborted
  <2> QED
    BY <1>3, <2>1 DEF StoreFails, SoleWriter
<1>4. ASSUME NEW value \in late, LateStore(value)
      PROVE  SoleWriter'
  <2>1. registrar.state # "RECOVERED"
    BY DEF SoleWriter
  <2>2. IsRegistrar(registrar') /\ registrar'.state = registrar.state
    BY <1>4 DEF SoleWriter, IsRegistrar, LateStore
  <2> QED
    BY <2>1, <2>2 DEF SoleWriter
<1> QED
  BY <1>1, <1>2, <1>3, <1>4 DEF Storage

\* A message whose handler is Becomes, for a registrar that is as before.
LEMMA MessageKeepsSoleWriter ==
    ASSUME NEW outcome, SoleWriter, Handles(outcome)
    PROVE  SoleWriter'
<1>1. SameRegistry(registrar, registrar)
  BY DEF SoleWriter, SameRegistry
<1> QED
  BY <1>1, HandlerKeepsSoleWriter DEF Handles

\* Steps that leave the registrar and the storage alone.
LEMMA OthersKeepSoleWriter ==
    ASSUME SoleWriter, UNCHANGED storageVars
    PROVE  SoleWriter'
BY DEF SoleWriter, storageVars

\* Steps of the allocator, and handlers of the framework's messages.
LEMMA OffersKeepSoleWriter ==
    ASSUME NEW S, SoleWriter, Changes(S)
    PROVE  SoleWriter'
BY OthersKeepSoleWriter DEF Changes

\* Every step of the master, its agents, its operators and its storage
\* keeps SoleWriter.
LEMMA NextKeepsSoleWriter ==
    ASSUME SoleWriter, [Next]_vars
    PROVE  SoleWriter'
<1> USE OthersKeepSoleWriter, MessageKeepsSoleWriter
<1>1. SameRegistry(registrar, registrar)
  BY DEF SoleWriter, SameRegistry
<1>2. CASE Storage
  BY <1>2, StorageKeepsSoleWriter
<1>3. ASSUME NEW h \in Hosts,
             \/ registerSlave(h) \/ reregisterSlave(h) \/ exited(h)
             \/ StartAnew(h) \/ \E info \in scenario.infos : Reconfigure(h, info)
      PROVE  SoleWriter'
  BY <1>3 DEF registerSlave, reregisterSlave, exited, StartAnew, Reconfigure
<1>4. ASSUME NEW h \in Hosts, unregisterSlave(h)
      PROVE  SoleWriter'
  BY <1>4 DEF unregisterSlave
<1>5. ASSUME NEW m \in authorizing,
             Refuse(m) \/ \E delivered \in BOOLEAN : RegisteredAlready(m, delivered)
      PROVE  SoleWriter'
  BY <1>5 DEF Refuse, RegisteredAlready
<1>6. ASSUME NEW m \in authorizing, NEW id \in SlaveIDs, RegisterAuthorized(m, id)
      PROVE  SoleWriter'
  BY <1>1, <1>6, HandlerKeepsSoleWriter DEF RegisterAuthorized
<1>7. ASSUME NEW m \in authorizing, NEW idle \in BOOLEAN,
             ReregisterAuthorized(m, idle)
      PROVE  SoleWriter'
  BY <1>1, <1>7, HandlerKeepsSoleWriter DEF ReregisterAuthorized
<1>8. ASSUME NEW idle \in BOOLEAN, NEW delivered \in BOOLEAN,
             Result(idle, delivered)
      PROVE  SoleWriter'
  <2> DEFINE R == [registrar EXCEPT !.results = Tail(@)]
  <2>1. SameRegistry(registrar, R)
    BY DEF SoleWriter, SameRegistry, IsRegistrar
  <2> QED
    BY <1>8, <2>1, HandlerKeepsSoleWriter DEF Result
<1>9. CASE Failover
  <2>1. registrar' = NewRegistrar
    BY <1>9 DEF Failover, Terminate
  <2> QED
    BY <2>1 DEF SoleWriter, NewRegistrar, IsRegistrar
<1>10. ASSUME NEW id \in SlaveIDs,
              \/ AgentLost(id) \/ recoveredSlavesTimeout(id) \/ markAgentGone(id)
              \/ \E mark_gone \in BOOLEAN : drainAgent(id, mark_gone)
              \/ deactivateAgent(id) \/ reactivateAgent(id) \/ Drained(id)
       PROVE  SoleWriter'
  BY <1>10 DEF AgentLost, recoveredSlavesTimeout, markAgentGone, drainAgent,
               deactivateAgent, reactivateAgent, Drained
<1>11. CASE RegistryGc
  BY <1>11 DEF RegistryGc
<1>12. CASE Tick
  BY <1>12 DEF Tick
<1>13. ASSUME NEW id \in SlaveIDs,
              generateOffers(id) \/ decline(id) \/ _accept(id) \/ updateTask(id)
       PROVE  SoleWriter'
  BY <1>13, OffersKeepSoleWriter DEF generateOffers, decline, _accept, updateTask
<1>14. CASE AllocatorHandles \/ offer
  BY <1>14, OffersKeepSoleWriter DEF AllocatorHandles, offer
<1>15. CASE UNCHANGED vars
  BY <1>15 DEF vars
<1> QED
  BY <1>2, <1>3, <1>4, <1>5, <1>6, <1>7, <1>8, <1>9, <1>10, <1>11, <1>12, <1>13,
     <1>14, <1>15 DEF Next

\* A recovered registrar is the only writer: no store that a master before
\* it left behind (a timeout of RegistrarProcess::update, a failover) changes
\* the registry under it, so that between its stores the storage has what
\* the registrar has.
THEOREM RecoveredRegistrarIsSoleWriter == Spec => []RegistrarOwnsRegistry
<1>1. Init => SoleWriter
  BY DEF Init, StorageInit, NewRegistrar, SoleWriter, IsRegistrar
<1>2. SoleWriter /\ [Next]_vars => SoleWriter'
  BY NextKeepsSoleWriter
<1>3. SoleWriter => RegistrarOwnsRegistry
  BY DEF SoleWriter, RegistrarOwnsRegistry
<1> QED
  BY <1>1, <1>2, <1>3, PTL DEF Spec
=============================================================================
