------------------------------ MODULE Registrar ------------------------------
(***************************************************************************)
(* The registrar (src/master/registrar.cpp): the process of a master that  *)
(* applies operations to its copy of the registry in batches and stores    *)
(* the result in a versioned variable.  "stored" is that variable as the   *)
(* storage has it.                                                         *)
(*                                                                         *)
(* A store that timed out, or whose master ended, has not been cancelled   *)
(* for good: it may still take effect as long as the variable has the      *)
(* version the store was made for.  "late" holds the registries of such    *)
(* stores; every store that takes effect changes the version and so makes  *)
(* all others void.                                                        *)
(*                                                                         *)
(* The operators on a record R of type Registrar are the methods of        *)
(* RegistrarProcess; the module of the master decides when they are called *)
(* and consumes R.results, the promises that were set or failed, in order. *)
(***************************************************************************)
EXTENDS Registry

VARIABLES
    stored,         \* the registry in the storage
    late,           \* the stores that may still take effect
    registrar       \* the registrar of the leading master

storageVars == <<stored, late, registrar>>

NoStore == <<>>

\* A registrar whose recover() has not been called.
NewRegistrar ==
    [state |-> "NEW", registry |-> EmptyRegistry, operations |-> <<>>,
     storing |-> NoStore, results |-> <<>>]

Updating(R) == R.storing # NoStore

\* The operations of a batch are performed one after the other; one that
\* is not permitted does not keep the others from being stored.
Performed(registry, operations) ==
    FoldLeft(LAMBDA acc, op :
                 LET o == Perform(op, acc.registry)
                 IN  [acc EXCEPT !.registry = o.registry,
                                 !.applied = Append(@, [op |-> op,
                                     result |-> IF o.success THEN "permitted" ELSE "refused"])],
             [registry |-> registry, applied |-> <<>>], operations)

\* RegistrarProcess::update
Update(R) ==
    IF R.operations = <<>>
    THEN R
    ELSE LET batch == Performed(R.registry, R.operations) IN
         [R EXCEPT !.operations = <<>>,
                   !.storing = <<[registry |-> batch.registry, applied |-> batch.applied,
                                  current |-> TRUE]>>]

\* RegistrarProcess::_apply
Apply(R, op) ==
    IF R.state = "ERROR"
    THEN [R EXCEPT !.results = Append(@, [op |-> op, result |-> "failed"])]
    ELSE LET queued == [R EXCEPT !.operations = Append(@, op)] IN
         IF Updating(R) THEN queued ELSE Update(queued)

\* The calls of apply() that a handler of the master makes: two at most.
ApplyAll(R, operations) ==
    CASE Len(operations) = 0 -> R
      [] Len(operations) = 1 -> Apply(R, operations[1])
      [] OTHER -> Apply(Apply(R, operations[1]), operations[2])

\* RegistrarProcess::abort, after the operations of the batch have failed.
Aborted(R) ==
    LET Failed(op) == [op |-> op, result |-> "failed"]
        applied == [i \in DOMAIN R.storing[1].applied |-> R.storing[1].applied[i].op]
        operations == applied \o R.operations
    IN  [R EXCEPT !.state = "ERROR",
                  !.storing = NoStore,
                  !.operations = <<>>,
                  !.results = @ \o [i \in DOMAIN operations |-> Failed(operations[i])]]
-----------------------------------------------------------------------------
StorageInit ==
    /\ late = {}
    /\ registrar = NewRegistrar

\* RegistrarProcess::recover and _recover: the registry is fetched and the
\* Recover operation is stored, which makes this registrar the only writer.
Recover ==
    /\ registrar.state = "NEW"
    /\ registrar' = Update([registrar EXCEPT !.state = "RECOVERING",
                                             !.registry = stored,
                                             !.operations = <<[type |-> "Recover"]>>])
    /\ UNCHANGED <<stored, late>>

\* The mutant of StoreSucceeds: the storage does not compare versions.
StoreAlwaysSucceeds ==
    /\ Updating(registrar)
    /\ stored' = registrar.storing[1].registry
    /\ UNCHANGED late
    /\ registrar' = Update([registrar EXCEPT
                        !.state = "RECOVERED",
                        !.registry = registrar.storing[1].registry,
                        !.storing = NoStore,
                        !.results = @ \o registrar.storing[1].applied])

\* RegistrarProcess::_update with a store that succeeded.  A store is only
\* made when the version is the one that was read.
StoreSucceeds ==
    /\ Updating(registrar)
    /\ registrar.storing[1].current
    /\ stored' = registrar.storing[1].registry
    /\ late' = {}
    /\ registrar' = Update([registrar EXCEPT
                        !.state = "RECOVERED",
                        !.registry = registrar.storing[1].registry,
                        !.storing = NoStore,
                        !.results = @ \o registrar.storing[1].applied])

\* The stores in flight when the registrar gives up on them.
Abandoned(R) ==
    {R.storing[i].registry : i \in {j \in DOMAIN R.storing : R.storing[j].current}}

\* _update with a store that failed, was refused, or timed out.
StoreFails ==
    /\ Updating(registrar)
    /\ registrar' = Aborted(registrar)
    /\ late' = late \cup Abandoned(registrar)
    /\ UNCHANGED stored

\* A store of a master that ended, or that timed out, takes effect.
LateStore(value) ==
    /\ stored' = value
    /\ late' = {}
    /\ registrar' = [registrar EXCEPT !.storing =
                         [i \in DOMAIN @ |-> [@[i] EXCEPT !.current = FALSE]]]
=============================================================================
