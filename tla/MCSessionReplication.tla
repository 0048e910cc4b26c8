-------------------------- MODULE MCSessionReplication --------------------------
(* SessionReplication on small instances. *)
EXTENDS SessionReplication

\* Credentials are random, and edges, browsers and connection slots are alike.
Symmetry == Permutations(Token) \cup Permutations(Edge)
                \cup Permutations(Browser) \cup Permutations(Conn)
================================================================================
