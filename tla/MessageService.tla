--------------------------- MODULE MessageService ---------------------------
(***************************************************************************)
(* What the delivery layer promises the user who sends messages, said      *)
(* without sessions, numbers, retries or a database: a message reaches its *)
(* receiver only if it was sent, and is reported delivered only if it has  *)
(* reached its receiver.  A report may be withdrawn again: the retry loop  *)
(* can put a delivered message back in the queue.                          *)
(***************************************************************************)
CONSTANT Messages

VARIABLES
    accepted,   \* sent by the user
    received,   \* decrypted by the receiver, at least once
    reported    \* shown to the user as delivered or acknowledged

vars == <<accepted, received, reported>>

Init == accepted = {} /\ received = {} /\ reported = {}

Accept(m) ==
    /\ m \notin accepted
    /\ accepted' = accepted \cup {m}
    /\ UNCHANGED <<received, reported>>

Receive(m) ==
    /\ m \in accepted
    /\ received' = received \cup {m}
    /\ UNCHANGED <<accepted, reported>>

Report(m) ==
    /\ m \in received
    /\ reported' = reported \cup {m}
    /\ UNCHANGED <<accepted, received>>

Withdraw(m) ==
    /\ m \in reported
    /\ reported' = reported \ {m}
    /\ UNCHANGED <<accepted, received>>

Next == \E m \in Messages : Accept(m) \/ Receive(m) \/ Report(m) \/ Withdraw(m)

Spec == Init /\ [][Next]_vars
=============================================================================
