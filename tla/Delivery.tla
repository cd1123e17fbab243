------------------------------ MODULE Delivery ------------------------------
(***************************************************************************)
(* One direction of conversation: a sending node and the nodes it writes   *)
(* to, over UDP, with sessions that come and go and nodes that restart.    *)
(*                                                                         *)
(* The handshake is reduced to its effect on delivery: a node with no      *)
(* session answers a HELLO by drawing a session and registering it at      *)
(* once, and the other node, if it has no session when the HELLO_ACK       *)
(* arrives, registers the same one later, or never.  Module Connection has *)
(* the handshake itself.                                                   *)
(***************************************************************************)
EXTENDS Sender, Receiver

CONSTANT Budget     \* bound: how often each fault below may happen

Faults == {"sendDrop", "recvDrop", "sendCrash", "recvCrash"}

ASSUME BudgetAssumption == Budget \in [Faults -> Nat]

VARIABLES
    nextSid,    \* the session the next HELLO draws, per peer
    offer,      \* the HELLO_ACK in flight: whom it is for, and the session
    budget      \* faults left

vars == <<senderVars, receiverVars, net, nextSid, offer, budget>>
handshakeVars == <<nextSid, offer, budget>>

NoOffer == [to |-> "none", sid |-> 0]
Offers == [to : {"none", "sender", "receiver"}, sid : 0..MaxSid]

TypeOK ==
    /\ SenderTypeOK
    /\ ReceiverTypeOK
    /\ net \subseteq Packets
    /\ nextSid \in [Peers -> 1..(MaxSid + 1)]
    /\ offer \in [Peers -> Offers]
    /\ budget \in [Faults -> Nat]

Init ==
    /\ SenderInit
    /\ ReceiverInit
    /\ net = {}
    /\ nextSid = [p \in Peers |-> 1]
    /\ offer = [p \in Peers |-> NoOffer]
    /\ budget = Budget
-----------------------------------------------------------------------------
Spend(f) ==
    /\ budget[f] > 0
    /\ budget' = [budget EXCEPT ![f] = @ - 1]

\* _handle_hello at the sender: session guard, HELLO_ACK, register.
SenderAnswersHello(p) ==
    /\ sSession[p] = 0
    /\ nextSid[p] \in Sids
    /\ RegisterSend(p, nextSid[p])
    /\ offer' = [offer EXCEPT ![p] = [to |-> "receiver", sid |-> nextSid[p]]]
    /\ nextSid' = [nextSid EXCEPT ![p] = @ + 1]
    /\ UNCHANGED <<receiverVars, budget>>

\* _handle_hello at the receiver.
ReceiverAnswersHello(p) ==
    /\ rSession[p] = 0
    /\ nextSid[p] \in Sids
    /\ RegisterRecv(p, nextSid[p])
    /\ offer' = [offer EXCEPT ![p] = [to |-> "sender", sid |-> nextSid[p]]]
    /\ nextSid' = [nextSid EXCEPT ![p] = @ + 1]
    /\ UNCHANGED <<senderVars, budget>>

\* _handle_hello_ack at the sender.
SenderTakesHelloAck(p) ==
    /\ offer[p].to = "sender"
    /\ sSession[p] = 0
    /\ RegisterSend(p, offer[p].sid)
    /\ offer' = [offer EXCEPT ![p] = NoOffer]
    /\ UNCHANGED <<receiverVars, nextSid, budget>>

\* _handle_hello_ack at the receiver.
ReceiverTakesHelloAck(p) ==
    /\ offer[p].to = "receiver"
    /\ rSession[p] = 0
    /\ RegisterRecv(p, offer[p].sid)
    /\ offer' = [offer EXCEPT ![p] = NoOffer]
    /\ UNCHANGED <<senderVars, nextSid, budget>>

\* Six pings in a row go unanswered at one of the two ends.
SenderLosesPeer(p) ==
    /\ Spend("sendDrop")
    /\ DropSendSession(p)
    /\ UNCHANGED <<receiverVars, nextSid, offer>>

ReceiverLosesPeer(p) ==
    /\ Spend("recvDrop")
    /\ DropRecvSession(p)
    /\ UNCHANGED <<senderVars, nextSid, offer>>

\* A restart forgets the pending HELLO: its HELLO_ACK will be ignored.
Forget(o, side) == IF o.to = side THEN NoOffer ELSE o

SenderCrashes ==
    /\ Spend("sendCrash")
    /\ RestartSender
    /\ offer' = [p \in Peers |-> Forget(offer[p], "sender")]
    /\ UNCHANGED <<receiverVars, nextSid>>

ReceiverCrashes(p) ==
    /\ Spend("recvCrash")
    /\ RestartReceiver(p)
    /\ offer' = [offer EXCEPT ![p] = Forget(@, "receiver")]
    /\ UNCHANGED <<senderVars, nextSid>>
-----------------------------------------------------------------------------
\* What the sending process does by itself once started: its database
\* thread, its handshake handlers and its retry loop.
SenderWorks ==
    \/ MessageInserted
    \/ SendSeqSaved
    \/ MsgSeqSaved
    \/ PendingSavedAndSent
    \/ StatusSaved
    \/ SendRowSaved
    \/ \E p \in Peers, k \in Sids : FlushStart(p, k) \/ FlushStep(p, k)
    \/ RetryScan
    \/ RetryNext

SenderHears ==
    \/ \E a \in AcksSent : HandleAck(a)
    \/ \E a \in AppAcksSent : HandleAppAck(a)
    \/ \E y \in SyncsSent : HandleSync(y)

ReceiverWorks ==
    \E p \in Peers :
        \/ RecvRowSaved(p)
        \/ \E k \in Sids : SendSync(p, k)
        \/ RecvSeqSavedAndAcked(p)
        \/ LogAndShow(p)

Handshakes ==
    \E p \in Peers :
        \/ SenderAnswersHello(p)
        \/ ReceiverAnswersHello(p)
        \/ SenderTakesHelloAck(p)
        \/ ReceiverTakesHelloAck(p)

FaultsHappen ==
    \/ \E p \in Peers :
          \/ SenderLosesPeer(p)
          \/ ReceiverLosesPeer(p)
          \/ ReceiverCrashes(p)
    \/ SenderCrashes

Next ==
    \/ (SendMessage \/ SenderWorks \/ SenderHears)
       /\ UNCHANGED <<receiverVars, handshakeVars>>
    \/ ((\E d \in DataSent : HandleData(d)) \/ ReceiverWorks)
       /\ UNCHANGED <<senderVars, handshakeVars>>
    \/ Handshakes
    \/ FaultsHappen

Spec == Init /\ [][Next]_vars
-----------------------------------------------------------------------------
(***************************************************************************)
(* Properties that hold whatever happens: sessions lost and replaced,      *)
(* either node restarted, datagrams lost, repeated and reordered.          *)
(***************************************************************************)

\* "Update send_sequence in DB BEFORE sending" (node.py): a DATA packet
\* built from the queue carries a number that the saved send_sequence of
\* its session has already passed, so a restart cannot hand it out again.
SavedBeforeSent ==
    \A d \in DataSent : d.via = "queue" => sendRow[d.peer][d.sid] > d.seq

\* "Update recv_sequence in DB BEFORE sending ACK" (node.py): a number that
\* was acknowledged is covered by the saved recv_sequence of its session.
SavedBeforeAcked ==
    \A a \in AcksSent : recvRow[a.peer][a.sid] >= a.seq

\* decrypt_data_packet rejects repeated and older numbers: however many
\* copies arrive and however the handlers interleave, the log holds the
\* packets of a session once each and in the order of their numbers.
LoggedInOrder ==
    \A p \in Peers : \A i, j \in 1..Len(log[p]) :
        (i < j /\ log[p][i].sid = log[p][j].sid)
            => log[p][i].seq < log[p][j].seq

\* next_sequence, called from three tasks at once: two packets built from
\* the queue in one session never carry two messages under one number.
QueueNumbersOnce ==
    \A d, e \in DataSent :
        (/\ d.via = "queue" /\ e.via = "queue"
         /\ d.peer = e.peer /\ d.sid = e.sid /\ d.seq = e.seq)
            => d.msg = e.msg

(***************************************************************************)
(* Properties that hold as long as the sessions are not replaced under     *)
(* the messages; see the runs for how far each of them reaches.            *)
(***************************************************************************)

\* project_requirements.md, "sequence_number MUST NEVER repeat within a
\* session": retransmissions after SYNC included, a number names one message.
NumbersOnce ==
    \A d, e \in DataSent :
        (d.peer = e.peer /\ d.sid = e.sid /\ d.seq = e.seq) => d.msg = e.msg

\* docs/03, a packet is dropped as a replay if its number is at most the
\* highest received in this session: the next new number of a session both
\* ends hold is above what the receiver has, so it will not be dropped.
FreshNumbersAccepted ==
    \A p \in Peers : \A k \in Sids :
        (sSession[p] = k /\ rSession[p] = k) => sendSeq[p][k] > recvSeq[p][k]

Entered(p) == {log[p][i].msg : i \in 1..Len(log[p])}
InHand(p) == {logging[p][i].msg : i \in 1..Len(logging[p])}
Settled(m) == queue[m].status \in {"delivered", "acknowledged"}

\* "Delivered requires explicit ACK packet" (project_requirements.md): a
\* message shown as delivered was decrypted by its own receiver.
DeliveredIsReceived ==
    \A m \in Msgs : Settled(m) => m \in Entered(To[m]) \cup InHand(To[m])

\* _handle_data sends APP_ACK when the message is logged and displayed: a
\* message shown as acknowledged is in its receiver's log.
AcknowledgedIsLogged ==
    \A m \in Msgs : queue[m].status = "acknowledged" => m \in Entered(To[m])

\* project_requirements.md, "Max retry attempts: 5": a message is numbered,
\* and so sent from the queue, at most MAX_RETRIES times.
AttemptsBounded ==
    \A m \in Msgs :
        Cardinality({<<d.sid, d.seq>> : d \in {x \in DataSent :
                        x.msg = m /\ x.via = "queue"}}) =< MaxRetries

(***************************************************************************)
(* What the documents say of the code and the code does not do; the README *)
(* says how TLC shows each.                                                *)
(***************************************************************************)

\* session.py, "On every increment the DB MUST be updated before the packet
\* leaves the wire", for every DATA packet however it was built.
AllSavedBeforeSent ==
    \A d \in DataSent : sendRow[d.peer][d.sid] > d.seq

\* docs/03, a message reverts to queued "if no ACK is received": one whose
\* ACK has arrived stays delivered.
AckIsFinal == [][\A m \in Msgs : Settled(m) => Settled(m)']_vars

\* docs/03, the ACK "confirms successful decryption and processing": what
\* was acknowledged is in the log or about to be appended to it.
AckedIsLogged ==
    \A a \in AcksSent :
        \E r \in {log[a.peer][i] : i \in 1..Len(log[a.peer])}
                 \cup {logging[a.peer][i] : i \in 1..Len(logging[a.peer])} :
            r.sid = a.sid /\ r.seq = a.seq
-----------------------------------------------------------------------------
(***************************************************************************)
(* Liveness.  Only the sending process is assumed to make progress: its    *)
(* event loop and its database thread run whenever they have work.  The    *)
(* network and the receivers may do nothing at all.                        *)
(***************************************************************************)
SenderFair == WF_vars(SenderWorks /\ UNCHANGED <<receiverVars, handshakeVars>>)

FairSpec == Spec /\ SenderFair

\* docs/03, 30 s without ACK and the message is retried, up to 5 times
\* before failure: while a session lasts, no message waits for ever.
SettlesOrDisconnects ==
    \A m \in Msgs :
        (queue[m].status \in {"queued", "pending"} /\ sSession[To[m]] # 0)
            ~> (\/ queue[m].status \notin {"queued", "pending"}
                \/ sSession[To[m]] = 0)
-----------------------------------------------------------------------------
(***************************************************************************)
(* The delivery layer as the user sees it.                                 *)
(***************************************************************************)
Service == INSTANCE MessageService WITH
               Messages <- Msgs,
               accepted <- 1..sent,
               received <- UNION {Entered(p) \cup InHand(p) : p \in Peers},
               reported <- {m \in Msgs : Settled(m)}

\* send_message, _handle_data and _handle_ack together implement the
\* service: nothing is reported delivered before it was received.
ServiceSpec == Service!Spec
=============================================================================
