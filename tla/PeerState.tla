------------------------------ MODULE PeerState ------------------------------
(***************************************************************************)
(* The peer state machine (peer_state.py) and the two functions of node.py *)
(* that drive it through more than one transition.  States only: a         *)
(* transition that VALID_TRANSITIONS does not list raises ValueError.      *)
(***************************************************************************)
EXTENDS Naturals

States == {"disconnected", "connecting", "connected", "idle", "suspect",
           "resolving", "failed", "archived"}

VALID_TRANSITIONS ==
    [disconnected |-> {"connecting", "resolving", "archived"},
     connecting   |-> {"connected", "disconnected"},
     connected    |-> {"idle", "disconnected"},
     idle         |-> {"suspect", "connected", "disconnected"},
     suspect      |-> {"disconnected", "connected"},
     resolving    |-> {"connecting", "failed"},
     failed       |-> {"disconnected", "resolving"},
     archived     |-> {"connecting", "resolving"}]

Allowed(s, t) == t \in VALID_TRANSITIONS[s]

\* update_state where the caller catches ValueError and goes on.
Try(s, t) == IF Allowed(s, t) THEN t ELSE s

(***************************************************************************)
(* _mark_peer_connected: the steps that lead from s to connected.          *)
(***************************************************************************)
ConnectPath(s) ==
    CASE s \in {"disconnected", "archived", "resolving"} ->
             <<"connecting", "connected">>
      [] s = "failed" -> <<"disconnected", "connecting", "connected">>
      [] s = "connected" -> <<>>
      [] OTHER -> <<"connected">>

\* Where it ends: if a step of the path were not allowed, the machine is set
\* to connecting by force and moved on from there.
MarkConnected(s) ==
    LET path == ConnectPath(s)
        from(i) == IF i = 1 THEN s ELSE path[i - 1]
        ok == \A i \in DOMAIN path : Allowed(from(i), path[i])
    IN  IF path = <<>> \/ ok THEN "connected" ELSE Try("connecting", "connected")

(***************************************************************************)
(* set_peer_archived, after the row is written: the state it leads to, and *)
(* whether it leaves with the ValueError that it does not catch.           *)
(***************************************************************************)
SetArchived(s, archived) ==
    LET target == IF archived THEN "archived" ELSE "disconnected"
        stuck == ~Allowed(s, "disconnected")
    IN  IF s = target \/ Allowed(s, target)
        THEN [state |-> target, raises |-> FALSE]
        ELSE IF archived
             THEN [state |-> IF stuck THEN s ELSE "archived", raises |-> stuck]
             ELSE [state |-> s, raises |-> s = "archived"]
=============================================================================
