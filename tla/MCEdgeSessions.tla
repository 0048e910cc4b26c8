----------------------------- MODULE MCEdgeSessions -----------------------------
(* EdgeSessions on small instances. *)
EXTENDS EdgeSessions

\* Credentials are random: nothing tells two unused ones apart.  Browsers and
\* connection slots are alike.
Symmetry == Permutations(Token) \cup Permutations(Browser) \cup Permutations(Conn)
================================================================================
