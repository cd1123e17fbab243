---------------------------- MODULE MCConnection ----------------------------
(***************************************************************************)
(* Instances of module Connection: how often the user acts and each fault  *)
(* happens.                                                                *)
(***************************************************************************)
EXTENDS Connection, TLC

None == [e \in Events |-> 0]

\* A contact lost by both nodes and found again; lost with a HELLO to it, by a
\* restart, or while it is archived; and archived when a node restarts.
Outages ==
    LET Sent == [None EXCEPT !["send"] = 1]
    IN  {[Sent EXCEPT !["losePing"] = 2 * MaxMissed],
         [Sent EXCEPT !["losePing"] = MaxMissed, !["loseHello"] = 1],
         [Sent EXCEPT !["losePing"] = MaxMissed, !["restart"] = 1],
         [Sent EXCEPT !["losePing"] = MaxMissed, !["archive"] = 1],
         [Sent EXCEPT !["restart"] = 1, !["archive"] = 1]}

AckLost == {[None EXCEPT !["send"] = 1, !["loseAck"] = 1]}

OneRestarts == {[None EXCEPT !["send"] = 2, !["restart"] = 1]}

HelloTwice == {[None EXCEPT !["send"] = 1, !["repeat"] = 1]}

BothSend == {[None EXCEPT !["send"] = 2]}

LastHello == {[None EXCEPT !["send"] = 1, !["loseHello"] = MaxAttempts - 1]}

PingsLost == {[None EXCEPT !["send"] = 1, !["losePing"] = SuspectMissed]}

BothSendThenLost == {[None EXCEPT !["send"] = 2, !["losePing"] = MaxMissed]}
=============================================================================
