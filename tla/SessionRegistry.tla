-------------------------- MODULE SessionRegistry --------------------------
(***************************************************************************)
(* The registry of active sessions (session.py) at a node with many        *)
(* contacts: two dictionaries under one lock, kept in step.                *)
(***************************************************************************)
EXTENDS Naturals, FiniteSets

CONSTANTS
    Peers,          \* peer_ids
    Sids,           \* session_ids
    MAX_SESSIONS,
    NoPeer, NoSid

ASSUME RegistryAssumption ==
    /\ MAX_SESSIONS \in Nat
    /\ NoPeer \notin Peers
    /\ NoSid \notin Sids
    /\ IsFiniteSet(Sids)

VARIABLES
    bySession,  \* _by_session: the peer of the session filed under an id
    byPeer,     \* _by_peer: the id of the session filed under a peer
    drawn       \* the ids drawn so far: 16 random bytes do not repeat

vars == <<bySession, byPeer, drawn>>

TypeOK ==
    /\ bySession \in [Sids -> Peers \cup {NoPeer}]
    /\ byPeer \in [Peers -> Sids \cup {NoSid}]
    /\ drawn \in SUBSET Sids

Init ==
    /\ bySession = [s \in Sids |-> NoPeer]
    /\ byPeer = [p \in Peers |-> NoSid]
    /\ drawn = {}

Active == {s \in Sids : bySession[s] # NoPeer}

\* Mutant: one session too many.
FullLate == Cardinality(Active) > MAX_SESSIONS

Full == Cardinality(Active) >= MAX_SESSIONS

\* Mutant: the session that is replaced stays filed under its id.
FiledKeepsOld(s, p) == [bySession EXCEPT ![s] = p]

\* _by_session once s is filed for p and p's old session is gone.
Filed(s, p) ==
    [t \in Sids |-> IF t = s THEN p
                    ELSE IF t = byPeer[p] THEN NoPeer ELSE bySession[t]]

\* register; at the limit it raises RuntimeError, also when the session
\* would replace another.
Register(s, p) ==
    /\ s \notin drawn
    /\ drawn' = drawn \cup {s}
    /\ \/ /\ Full
          /\ UNCHANGED <<bySession, byPeer>>
       \/ /\ ~Full
          /\ bySession' = Filed(s, p)
          /\ byPeer' = [byPeer EXCEPT ![p] = s]

\* remove, called with the id of whatever session the caller holds.
Remove(s) ==
    /\ bySession[s] # NoPeer
    /\ byPeer' = [byPeer EXCEPT ![bySession[s]] = NoSid]
    /\ bySession' = [bySession EXCEPT ![s] = NoPeer]
    /\ UNCHANGED drawn

Next == \E s \in Sids : Remove(s) \/ \E p \in Peers : Register(s, p)

Spec == Init /\ [][Next]_vars
-----------------------------------------------------------------------------
(***************************************************************************)
(* The two dictionaries agree, through every replacement and removal: the  *)
(* session found by its id (incoming packets) is the one found by its peer *)
(* (outgoing messages), and a peer has one session at most.                *)
(***************************************************************************)
Consistent ==
    \A s \in Sids, p \in Peers : bySession[s] = p <=> byPeer[p] = s

(***************************************************************************)
(* There are never more than MAX_SESSIONS sessions (session.py).           *)
(***************************************************************************)
Bounded == Cardinality(Active) <= MAX_SESSIONS
=============================================================================
