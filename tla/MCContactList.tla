--------------------------- MODULE MCContactList ---------------------------
(***************************************************************************)
(* Two contacts, any of them there from the start.                         *)
(***************************************************************************)
EXTENDS ContactList

CONSTANTS a, b

PeerSet == {a, b}

Few == [add |-> 1, message |-> 1, step |-> 3]
=============================================================================
