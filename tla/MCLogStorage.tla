---------------------------- MODULE MCLogStorage ----------------------------
(***************************************************************************)
(* Small instances of LogStorage.                                          *)
(***************************************************************************)
EXTENDS LogStorage, TLC

StorageSymmetry == Permutations(Storages)

\* Clients that wait for each answer, as the registrar does: three writes of
\* one variable, or writes of two variables.
Sequential == {
    [names |-> {"x"}, writes |-> 3, calls |-> 1],
    [names |-> {"x", "y"}, writes |-> 2, calls |-> 1] }

\* Clients that have two calls outstanding.
Concurrent == { [names |-> {"x", "y"}, writes |-> 3, calls |-> 2] }
=============================================================================
