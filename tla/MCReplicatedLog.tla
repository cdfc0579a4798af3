--------------------------- MODULE MCReplicatedLog ---------------------------
(***************************************************************************)
(* Three replicas, one or two of which run a writer.  Each writer appends  *)
(* its own name, and r1 and r2 have the same role in every environment, so *)
(* that they can be exchanged.                                             *)
(***************************************************************************)
EXTENDS ReplicatedLog, TLC

CONSTANTS r1, r2, r3

MCReplicas == {r1, r2, r3}
MCData == [c \in Replicas |-> c]

Symmetry == Permutations({r1, r2})

Of(writers, wipeable, truncations, position, proposal, lost, late) ==
    [writers |-> writers, wipeable |-> wipeable, truncations |-> truncations,
     position |-> position, proposal |-> proposal,
     crashes |-> lost, timeouts |-> late]

Rivals == {r1, r2}

\* Two writers compete; a single one truncates, crashes and is elected again.
TwoWriters == Of(Rivals, {}, FALSE, 1, 4, 0, 0)
CrashingWriter == Of({r3}, {}, TRUE, 2, 4, 1, 0)
NoWipe == {TwoWriters, CrashingWriter}

\* The storage that is lost is the writer's, or the one of both others.
WriterWiped == Of({r3}, {r3}, TRUE, 1, 3, 0, 1)
OthersWiped == Of({r3}, Rivals, FALSE, 1, 3, 0, 0)
Wipes == {WriterWiped, OthersWiped}
TwoWipes == {OthersWiped}

\* Two writers, with the third replica wiped, with truncations, or with
\* room for one more proposal.
ThirdWiped == {Of(Rivals, {r3}, FALSE, 1, 3, 0, 0)}
Truncating == {Of(Rivals, {}, TRUE, 1, 4, 0, 0)}
Overtaken == {Of(Rivals, {}, FALSE, 1, 5, 0, 0)}
=============================================================================
