------------------------------ MODULE Receiver ------------------------------
(***************************************************************************)
(* The receiving half of a node, one per member of Peers: the receive      *)
(* counter of each session (session.py), its row in SQLite, the message    *)
(* log (storage.py), and _handle_data of node.py.                          *)
(*                                                                         *)
(* Every DATA packet is handled in a task of its own.  The tasks suspend   *)
(* in storage calls, which one database thread executes in order, so they  *)
(* do not overtake one another.  An await that only delays the sending of  *)
(* a datagram is not a step of its own: the network delays it at will, and *)
(* a datagram not sent because the node died is one that got lost.         *)
(***************************************************************************)
EXTENDS DeliveryWire

VARIABLES
    rSession,   \* SessionRegistry: the session registered with the sender, or 0
    recvSeq,    \* Session.recv_sequence, also of sessions no longer registered
    recvFloor,  \* Node._sequence_floors (receive part)
    rWrites,    \* writes handed to the database thread, in order
    recvRow,    \* sessions table: recv_sequence, NoRow when there is no row
    syncing,    \* sessions whose handshake handler has yet to send SYNC
    logging,    \* _handle_data: ACK sent, about to append to the log
    log         \* the message log of the sender, a file

receiverVars == <<rSession, recvSeq, recvFloor, rWrites, recvRow, syncing,
                  logging, log>>

NoRow == -1
Received == [sid : Sids, seq : Nat, msg : Msgs]

RecvRowWrite(k, v) == [op |-> "row", sid |-> k, seq |-> v]
RecvSeqWrite(k, seq, m) ==
    [op |-> "recv", sid |-> k, seq |-> seq, msg |-> m]

RWrites == [op : {"row"}, sid : Sids, seq : Nat]
           \cup [op : {"recv"}, sid : Sids, seq : Nat, msg : Msgs]

ReceiverTypeOK ==
    /\ rSession \in [Peers -> 0..MaxSid]
    /\ recvSeq \in [Peers -> [Sids -> Nat]]
    /\ recvFloor \in [Peers -> Nat]
    /\ rWrites \in [Peers -> Seq(RWrites)]
    /\ recvRow \in [Peers -> [Sids -> Nat \cup {NoRow}]]
    /\ syncing \in [Peers -> SUBSET Sids]
    /\ logging \in [Peers -> Seq(Received)]
    /\ log \in [Peers -> Seq(Received)]

ReceiverInit ==
    /\ rSession = [p \in Peers |-> 0]
    /\ recvSeq = [p \in Peers |-> [k \in Sids |-> 0]]
    /\ recvFloor = [p \in Peers |-> 0]
    /\ rWrites = [p \in Peers |-> <<>>]
    /\ recvRow = [p \in Peers |-> [k \in Sids |-> NoRow]]
    /\ syncing = [p \in Peers |-> {}]
    /\ logging = [p \in Peers |-> <<>>]
    /\ log = [p \in Peers |-> <<>>]

\* Between the ACK and the log entry _handle_data does not suspend: nothing
\* else runs at p then (but p may die).
Free(p) == logging[p] = <<>>
-----------------------------------------------------------------------------
(***************************************************************************)
(* A handshake handler registers session k: the floor is applied and       *)
(* consumed, the row saved.                                                *)
(***************************************************************************)
RegisterRecv(p, k) ==
    /\ Free(p)
    /\ recvSeq' = [recvSeq EXCEPT ![p][k] = recvFloor[p]]
    /\ rWrites' = [rWrites EXCEPT ![p] =
                       Append(@, RecvRowWrite(k, recvFloor[p]))]
    /\ recvFloor' = [recvFloor EXCEPT ![p] = 0]
    /\ rSession' = [rSession EXCEPT ![p] = k]
    /\ UNCHANGED <<recvRow, syncing, logging, log, net>>

RecvRowSaved(p) ==
    /\ rWrites[p] # <<>>
    /\ Head(rWrites[p]).op = "row"
    /\ LET w == Head(rWrites[p])
       IN  /\ recvRow' = [recvRow EXCEPT ![p][w.sid] = w.seq]
           /\ syncing' = [syncing EXCEPT ![p] = @ \cup {w.sid}]
    /\ rWrites' = [rWrites EXCEPT ![p] = Tail(@)]
    /\ UNCHANGED <<rSession, recvSeq, recvFloor, logging, log, net>>

\* _send_sync, the last step of the handshake handler of session k.
SendSync(p, k) ==
    /\ Free(p)
    /\ k \in syncing[p]
    /\ syncing' = [syncing EXCEPT ![p] = @ \ {k}]
    /\ Send({SyncPacket(p, k, recvSeq[p][k])})
    /\ UNCHANGED <<rSession, recvSeq, recvFloor, rWrites, recvRow, logging,
                   log>>
-----------------------------------------------------------------------------
\* Mutant: a repeated number passes the check.
CheckRecvSequenceWeak(p, k, seq) == seq >= recvSeq[p][k]

\* check_recv_sequence.
CheckRecvSequence(p, k, seq) == seq > recvSeq[p][k]

\* Mutant: the ACK leaves before the number is saved.
HandleDataAckFirst(d) ==
    LET p == d.peer
    IN  /\ Free(p)
        /\ rSession[p] = d.sid
        /\ CheckRecvSequence(p, d.sid, d.seq)
        /\ recvSeq' = [recvSeq EXCEPT ![p][d.sid] = d.seq]
        /\ rWrites' = [rWrites EXCEPT ![p] =
                           Append(@, RecvSeqWrite(d.sid, d.seq, d.msg))]
        /\ Send({AckPacket(p, d.sid, d.seq)})
        /\ UNCHANGED <<rSession, recvFloor, recvRow, syncing, logging, log>>

(***************************************************************************)
(* _handle_data up to its first suspension: a packet of the registered     *)
(* session with a number above the last one is decrypted, the counter      *)
(* advanced and its new value given to the database thread.  All other     *)
(* packets are dropped.                                                    *)
(***************************************************************************)
HandleData(d) ==
    LET p == d.peer
    IN  /\ Free(p)
        /\ rSession[p] = d.sid
        /\ CheckRecvSequence(p, d.sid, d.seq)
        /\ recvSeq' = [recvSeq EXCEPT ![p][d.sid] = d.seq]
        /\ rWrites' = [rWrites EXCEPT ![p] =
                           Append(@, RecvSeqWrite(d.sid, d.seq, d.msg))]
        /\ UNCHANGED <<rSession, recvFloor, recvRow, syncing, logging, log,
                       net>>

(***************************************************************************)
(* The number is saved and the task goes on: the ACK leaves ...            *)
(***************************************************************************)
RecvSeqSavedAndAcked(p) ==
    /\ Free(p)
    /\ rWrites[p] # <<>>
    /\ Head(rWrites[p]).op = "recv"
    /\ LET w == Head(rWrites[p])
       IN  /\ recvRow' = [recvRow EXCEPT ![p][w.sid] = w.seq]
           /\ Send({AckPacket(p, w.sid, w.seq)})
           /\ logging' = [logging EXCEPT ![p] =
                  <<[sid |-> w.sid, seq |-> w.seq, msg |-> w.msg]>>]
    /\ rWrites' = [rWrites EXCEPT ![p] = Tail(@)]
    /\ UNCHANGED <<rSession, recvSeq, recvFloor, syncing, log>>

(***************************************************************************)
(* ... then append_message replaces the log by one with the new entry, and *)
(* after remember_endpoint the message is shown and APP_ACK leaves.        *)
(***************************************************************************)
LogAndShow(p) ==
    /\ logging[p] # <<>>
    /\ LET r == Head(logging[p])
       IN  /\ log' = [log EXCEPT ![p] = Append(@, r)]
           /\ Send({AppAckPacket(p, r.sid, r.seq)})
    /\ logging' = [logging EXCEPT ![p] = <<>>]
    /\ UNCHANGED <<rSession, recvSeq, recvFloor, rWrites, recvRow, syncing>>
-----------------------------------------------------------------------------
\* _handle_peer_disconnect.
DropRecvSession(p) ==
    /\ Free(p)
    /\ rSession[p] # 0
    /\ rSession' = [rSession EXCEPT ![p] = 0]
    /\ UNCHANGED <<recvSeq, recvFloor, rWrites, recvRow, syncing, logging, log,
                   net>>

\* Mutant: the row is read without looking whether there is one.
SavedRecvUnchecked(p) == recvRow[p][MaxSid]

\* The floor start reads: the row saved last, that of the newest session.
SavedRecv(p) ==
    LET saved == {k \in Sids : recvRow[p][k] # NoRow}
    IN  IF saved = {} THEN 0 ELSE recvRow[p][Newest(saved)]

\* The process dies, at any point, and start runs again.
RestartReceiver(p) ==
    /\ rSession' = [rSession EXCEPT ![p] = 0]
    /\ recvFloor' = [recvFloor EXCEPT ![p] = SavedRecv(p)]
    /\ rWrites' = [rWrites EXCEPT ![p] = <<>>]
    /\ syncing' = [syncing EXCEPT ![p] = {}]
    /\ logging' = [logging EXCEPT ![p] = <<>>]
    /\ UNCHANGED <<recvSeq, recvRow, log, net>>
=============================================================================
