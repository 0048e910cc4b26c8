---------------------------- MODULE SessionLifecycle ----------------------------
(***************************************************************************)
(* What an edge promises about sessions, with no credentials in sight: a   *)
(* session is alive from the moment it begins until it ends, once; a       *)
(* connection is attached to a living session and is let go of in the very *)
(* step that ends it.  Rotating a credential with a hand-off is nothing at *)
(* all here: it is the same session.  EdgeSessions implements this.        *)
(***************************************************************************)
EXTENDS FiniteSets

CONSTANTS Session, Conn, Nothing

VARIABLES
    status,     \* each session is unborn, alive or ended
    attached    \* the session each connection is attached to, or Nothing

lifecycleVars == <<status, attached>>

Alive == {s \in Session : status[s] = "alive"}
Unborn == {s \in Session : status[s] = "unborn"}

LifecycleInit ==
    /\ status = [s \in Session |-> "unborn"]
    /\ attached = [c \in Conn |-> Nothing]

\* Sessions end (signed out, revoked, evicted, expired) and at most one begins.
Turnover(begun, ended) ==
    /\ status' = [s \in Session |-> IF s \in begun THEN "alive"
                                    ELSE IF s \in ended THEN "ended" ELSE status[s]]
    /\ attached' = [c \in Conn |-> IF attached[c] \in ended THEN Nothing ELSE attached[c]]

\* A sign-in that leaves no hand-off: the session goes on as another one, with
\* the connections it had.
Reissue(s, n) ==
    /\ status' = [status EXCEPT ![s] = "ended", ![n] = "alive"]
    /\ attached' = [c \in Conn |-> IF attached[c] = s THEN n ELSE attached[c]]

Attach(c, s) ==
    /\ attached[c] = Nothing
    /\ attached' = [attached EXCEPT ![c] = s]
    /\ UNCHANGED status

Detach(c) ==
    /\ attached' = [attached EXCEPT ![c] = Nothing]
    /\ UNCHANGED status

LifecycleNext ==
    \/ \E ended \in SUBSET Alive : \E begun \in {{}} \cup {{s} : s \in Unborn} :
          Turnover(begun, ended)
    \/ \E s \in Alive, n \in Unborn : Reissue(s, n)
    \/ \E c \in Conn, s \in Alive : Attach(c, s)
    \/ \E c \in Conn : Detach(c)

LifecycleSpec == LifecycleInit /\ [][LifecycleNext]_lifecycleVars
================================================================================
