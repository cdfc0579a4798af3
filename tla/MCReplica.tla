------------------------------ MODULE MCReplica ------------------------------
(***************************************************************************)
(* Replica on a log whose position 1 is truncated by the entry at          *)
(* position 2.                                                             *)
(***************************************************************************)
EXTENDS Replica

MCDatum == {1}

MCAgreed ==
    [n \in Position |-> IF n = MaxPosition THEN TruncateValue(MaxPosition)
                        ELSE AppendValue(1)]

\* A proposer writes the value that ends up agreed, or one that loses.
MCProposed == [n \in Position |-> {Nop, MCAgreed[n]}]
=============================================================================
