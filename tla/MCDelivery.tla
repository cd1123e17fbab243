----------------------------- MODULE MCDelivery -----------------------------
(***************************************************************************)
(* Constants for model checking Delivery.                                  *)
(***************************************************************************)
EXTENDS Delivery

CONSTANTS p1, p2

ToOne == [m \in Msgs |-> p1]
ToTwo == [m \in Msgs |-> IF m = 1 THEN p1 ELSE p2]

Quiet == [f \in Faults |-> 0]
SendRestart == [Quiet EXCEPT !["sendCrash"] = 1, !["recvDrop"] = 1]
RecvRestart == [Quiet EXCEPT !["recvCrash"] = 1, !["sendDrop"] = 1]
Reconnect == [Quiet EXCEPT !["recvDrop"] = 1, !["sendDrop"] = 1]

\* Bounds on how many datagrams are sent, for two messages.
SixPackets == Cardinality(net) =< 6
EightPackets == Cardinality(net) =< 8
=============================================================================
