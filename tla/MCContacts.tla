----------------------------- MODULE MCContacts -----------------------------
(***************************************************************************)
(* Three peers, one of them with a lower peer_id than this node, and room  *)
(* for two sessions: replacements, removals and a full registry.           *)
(***************************************************************************)
EXTENDS Contacts, TLC

CONSTANTS a, b, c, s1, s2, s3

PeerSet == {a, b, c}
SidSet == {s1, s2, s3}
Lower == {a}

\* Ids are random bytes: which one is drawn makes no difference.  b and c
\* are alike too.
Symmetry == Permutations(SidSet) \cup Permutations({b, c})

Few == [hello |-> 2, ack |-> 1, user |-> 2, timer |-> 1]
=============================================================================
