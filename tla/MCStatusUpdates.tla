--------------------------- MODULE MCStatusUpdates ---------------------------
(***************************************************************************)
(* Instances of StatusUpdates: one task that reports twice, and which      *)
(* faults may happen to it.                                                *)
(***************************************************************************)
EXTENDS StatusUpdates

Faults(exits, restarts, failovers, breaks, early) ==
    [exits |-> exits, restarts |-> restarts, failovers |-> failovers, breaks |-> breaks,
     early |-> early, reconciled |-> 0]

\* The agent restarts and the executor exits, or another master is elected,
\* or the link breaks.
AnyFault ==
    {Faults(1, 1, 0, 0, FALSE), Faults(0, 0, 1, 0, FALSE), Faults(0, 0, 0, 1, FALSE)}

\* The agent restarts and the executor reports before it has reregistered.
EarlyReport == {Faults(0, 1, 0, 0, TRUE)}

OneFailover == {Faults(0, 0, 1, 0, FALSE)}
=============================================================================
