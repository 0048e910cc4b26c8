--------------------------- MODULE MCDockerStack ---------------------------
(* Instances of DockerStack for TLC. *)
EXTENDS DockerStack

MCService(name, edge, replicas, engine, secrets) ==
  [name |-> name, edge |-> edge, replicas |-> replicas, engine |-> engine,
   secrets |-> secrets, file |-> ~edge]

MCConfig(services, provider, identity) ==
  [services |-> services, port |-> 8443, provider |-> provider, identity |-> identity]

MCEdge(replicas) == MCService("web", TRUE, replicas, "none", {})
MCStore == MCService("store", FALSE, 1, "postgres", {"DB_PASSWORD"})
MCAuth == MCService("auth", FALSE, 1, "none", {})

\* An edge in front of a store on postgres; the same with a second edge process, signed in
\* through an entity of its own; one whose edge is on an engine and one
\* too large for the subnet, which init refuses.
MCSmall == MCConfig(<<MCEdge(1), MCStore>>, "", {"CLIENT_SECRET"})
MCGrown == MCConfig(<<MCEdge(2), MCStore, MCAuth>>, "auth", {"CLIENT_SECRET"})
MCRefused == MCConfig(<<MCService("web", TRUE, 1, "redis", {"REDIS_PASSWORD"})>>, "", {})

MCTooMany == MCConfig(<<MCEdge(4), MCStore>>, "", {})

MCConfigs == {MCSmall, MCGrown, MCRefused, MCTooMany}
MCOne == {MCSmall}
MCNone == {}
=============================================================================
