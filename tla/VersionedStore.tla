---------------------------- MODULE VersionedStore ----------------------------
(***************************************************************************)
(* What State (include/mesos/state/state.hpp) promises of a store: every   *)
(* variable has a version, and a write takes effect only if the variable   *)
(* still has the version the writer fetched, or does not exist.            *)
(*                                                                         *)
(* A write that was refused, or given up because its caller ended, may     *)
(* take effect later.  It does so at most once and on the same condition.  *)
(***************************************************************************)
CONSTANTS
    Names,          \* the names of variables
    Missing         \* the version of a variable that does not exist

VARIABLES
    current,        \* the version of each variable
    pending,        \* the writes that may still take effect
    done            \* the identities of the writes that have taken effect

vars == <<current, pending, done>>

Init ==
    /\ current = [n \in Names |-> Missing]
    /\ pending = {}
    /\ done = {}

\* State::store and State::expunge: a write that never took effect before.
Ask ==
    /\ pending \subseteq pending'
    /\ \A write \in pending' \ pending : write.uuid \notin done
    /\ UNCHANGED <<current, done>>

\* A write can no longer take effect: its version is out of date.
Lapse ==
    /\ pending' \subseteq pending
    /\ UNCHANGED <<current, done>>

\* Storage::set may create a variable; Storage::expunge needs one.
Matches(write) ==
    \/ current[write.name] = write.expected
    \/ current[write.name] = Missing /\ write.kind = "set"

Effect(write) ==
    /\ Matches(write)
    /\ current' = [current EXCEPT ![write.name] =
                      IF write.kind = "set" THEN write.uuid ELSE Missing]
    /\ pending' \subseteq pending \ {write}
    /\ done' = done \cup {write.uuid}

Next == Ask \/ Lapse \/ \E write \in pending : Effect(write)

Spec == Init /\ [][Next]_vars
=============================================================================
