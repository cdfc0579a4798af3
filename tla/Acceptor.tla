------------------------------ MODULE Acceptor ------------------------------
(***************************************************************************)
(* What a log replica promises to the rest of the system, without its     *)
(* storage engine, caches and restarts: a record per position, a promise, *)
(* and the beginning and end of the log, changed only by the requests it  *)
(* handles.  Replica implements this specification; ReplicatedLog is      *)
(* built from it.                                                          *)
(***************************************************************************)
EXTENDS ReplicaHandlers

CONSTANT
    Requests  \* the promise, write and learned requests that may arrive

VARIABLE acceptor

Init == \E status \in {"EMPTY", "VOTING"} : acceptor = NewReplica(status)

HandleRequest ==
    \E request \in Requests : acceptor' = Handled(acceptor, request)

\* RecoverProcess moves the replica through its statuses.
UpdateStatus ==
    \E status \in Status : acceptor' = [acceptor EXCEPT !.status = status]

Next == HandleRequest \/ UpdateStatus

Spec == Init /\ [][Next]_acceptor
=============================================================================
