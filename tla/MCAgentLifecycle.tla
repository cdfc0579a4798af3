-------------------------- MODULE MCAgentLifecycle --------------------------
(***************************************************************************)
(* Small instances of AgentLifecycle.                                      *)
(***************************************************************************)
EXTENDS AgentLifecycle

Starts(hosts, ids, infos, features) ==
    [agents |-> [h \in hosts |-> [id |-> None, info |-> "i1"]],
     stored |-> EmptyRegistry, ids |-> ids, infos |-> infos, features |-> features]

\* One agent that operators drain and mark gone; one that is drained and
\* unregisters; one that changes its info while it is drained; one that comes
\* back as a new agent while others are forgotten; one that is forgotten across
\* failovers; two agents that are lost and forgotten; and one whose resources
\* are offered while it is lost and drained.
AllScenarios == {
    Starts({"h1"}, {"s1"}, {"i1"}, {"failover", "gone", "drain"}),
    Starts({"h1"}, {"s1"}, {"i1"}, {"failover", "drain", "unregister"}),
    Starts({"h1"}, {"s1"}, {"i1", "i2"}, {"failover", "drain", "reconfigure"}),
    Starts({"h1"}, {"s1", "s2"}, {"i1"}, {"gc", "restart", "unregister"}),
    Starts({"h1"}, {"s1", "s2"}, {"i1"}, {"failover", "gc"}),
    Starts({"h1", "h2"}, {"s1", "s2"}, {"i1"}, {"gc"}),
    Starts({"h1"}, {"s1"}, {"i1"}, {"offers", "drain"}) }

\* As the last scenario, but the agent may come back before the allocator has
\* handled its removal.
SlowScenario == { Starts({"h1"}, {"s1"}, {"i1"}, {"offers", "slow_allocator"}) }

\* An agent that is forgotten while an operator marks it gone.
GoneScenario == { Starts({"h1"}, {"s1"}, {"i1"}, {"gone", "gc"}) }

\* The registry has these agents when the first master recovers.
Recovers(hosts, ids, features) ==
    LET Entry(i) == [id |-> ids[i], info |-> "i1", status |-> NotDraining]
    IN  [agents |-> [h \in hosts |-> [id |-> ids[1], info |-> "i1"]],
         stored |-> [EmptyRegistry EXCEPT !.slaves = [i \in DOMAIN ids |-> Entry(i)]],
         ids |-> Range(ids), infos |-> {"i1"}, features |-> features]

\* Three agents that do not come back, one of them lost when the clock of the
\* master was behind.
SkewScenario == { Recovers({}, <<"s1", "s2", "s3">>, {"gc", "failover"}) }

\* An agent that re-registers with the master that recovers it.
RecoveredScenario == { Recovers({"h1"}, <<"s1">>, {}) }
=============================================================================
