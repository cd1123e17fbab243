------------------------------- MODULE Sender -------------------------------
(***************************************************************************)
(* The sending half of a node: the in-memory message queue                 *)
(* (queue_manager.py), the send counter of each session (session.py), the  *)
(* rows SQLite keeps of both (storage.py), and the parts of node.py that   *)
(* drive them.                                                             *)
(*                                                                         *)
(* A handler runs without interruption between two awaits that suspend.    *)
(* Every await on storage suspends: the write joins the queue of the one   *)
(* database thread (variable writes) and the handler goes on when the      *)
(* write has been executed, so each action below is the code between two   *)
(* such points.                                                            *)
(***************************************************************************)
EXTENDS DeliveryWire

CONSTANT MaxRetries     \* MAX_RETRIES of queue_manager.py

ASSUME RetriesAssumption == MaxRetries \in Nat \ {0}

VARIABLES
    queue,      \* QueueManager._queue
    sent,       \* how many messages the user has sent
    sSession,   \* SessionRegistry: the session registered for a peer, or 0
    sendSeq,    \* Session.send_sequence, also of sessions no longer registered
    sendFloor,  \* Node._sequence_floors (send part), 0 when there is none
    inserting,  \* send_message calls that await the INSERT: the session read
    sending,    \* DATA packets built, on their way through three writes
    flush,      \* per session: its handshake handler, from register to the end
    retry,      \* the retry loop: messages left of the scan it is working on
    writes,     \* writes handed to the database thread, in order
    sendRow,    \* sessions table: send_sequence, 0 when there is no row
    queueRow    \* message_queue table

senderMem == <<queue, sSession, sendSeq, sendFloor, inserting, sending, flush,
               retry>>
senderVars == <<queue, sent, sSession, sendSeq, sendFloor, inserting, sending,
                flush, retry, writes, sendRow, queueRow>>

(***************************************************************************)
(* Types.                                                                  *)
(***************************************************************************)
Statuses == {"absent", "queued", "pending", "delivered", "acknowledged",
             "failed"}
Entries == [status : Statuses, retries : Nat, seq : Nat, timed : BOOLEAN]
Absent == [status |-> "absent", retries |-> 0, seq |-> 0, timed |-> FALSE]
Rows == [status : Statuses, seq : Nat]

\* Which task awaits the writes of a message's packet; for a flush, the
\* session whose handler runs it.
Idle == [task |-> "none", flow |-> 0]
Dispatches == [task : {"none", "send", "flush", "retry"}, flow : 0..MaxSid]

NoFlush == [stage |-> "none", sid |-> 0, todo |-> {}]
Flushes == [stage : {"none", "saving", "saved", "flushing"}, sid : 0..MaxSid,
            todo : SUBSET Msgs]

\* Writes on the database thread's queue.  The three that precede a DATA
\* packet carry it: it is a local variable of the coroutine that awaits them.
InsertWrite(m) == [op |-> "insert", msg |-> m]
RowWrite(p, k, v) == [op |-> "row", peer |-> p, sid |-> k, val |-> v]
SendSeqWrite(d, v) == [op |-> "send", pkt |-> d, val |-> v]
MsgSeqWrite(d) == [op |-> "mseq", pkt |-> d]
PendingWrite(d) == [op |-> "pending", pkt |-> d]
StatusWrite(m, st) == [op |-> "status", msg |-> m, status |-> st]

Writes ==
    [op : {"insert"}, msg : Msgs]
    \cup [op : {"row"}, peer : Peers, sid : Sids, val : Nat]
    \cup [op : {"send"}, pkt : DataPackets, val : Nat]
    \cup [op : {"mseq", "pending"}, pkt : DataPackets]
    \cup [op : {"status"}, msg : Msgs,
          status : {"delivered", "acknowledged", "failed"}]

SenderTypeOK ==
    /\ queue \in [Msgs -> Entries]
    /\ sent \in 0..NumMsgs
    /\ sSession \in [Peers -> 0..MaxSid]
    /\ sendSeq \in [Peers -> [Sids -> Nat]]
    /\ sendFloor \in [Peers -> Nat]
    /\ inserting \in [Msgs -> 0..MaxSid]
    /\ sending \in [Msgs -> Dispatches]
    /\ flush \in [Peers -> [Sids -> Flushes]]
    /\ retry \in SUBSET Msgs
    /\ writes \in Seq(Writes)
    /\ sendRow \in [Peers -> [Sids -> Nat]]
    /\ queueRow \in [Msgs -> Rows]

SenderInit ==
    /\ queue = [m \in Msgs |-> Absent]
    /\ sent = 0
    /\ sSession = [p \in Peers |-> 0]
    /\ sendSeq = [p \in Peers |-> [k \in Sids |-> 0]]
    /\ sendFloor = [p \in Peers |-> 0]
    /\ inserting = [m \in Msgs |-> 0]
    /\ sending = [m \in Msgs |-> Idle]
    /\ flush = [p \in Peers |-> [k \in Sids |-> NoFlush]]
    /\ retry = {}
    /\ writes = <<>>
    /\ sendRow = [p \in Peers |-> [k \in Sids |-> 0]]
    /\ queueRow = [m \in Msgs |-> [status |-> "absent", seq |-> 0]]
-----------------------------------------------------------------------------
\* Mutant: the counter is read and not advanced.
NextSequenceStuck(p, k) == sendSeq[p][k]

\* next_sequence hands out sendSeq[p][k] and leaves this behind.
NextSequence(p, k) == sendSeq[p][k] + 1

(***************************************************************************)
(* build_data_packet for a message known to be queued: number it with      *)
(* next_sequence, mark it pending, and hand the first of the three writes  *)
(* every caller awaits before it sends the packet to the database thread.  *)
(* e is the queued entry, k the session the caller holds, registered still *)
(* or not, and ws the writes ahead of this one.                            *)
(***************************************************************************)
BuildAndPersist(m, e, k, task, flow, ws) ==
    LET p == To[m]
        seq == sendSeq[p][k]
    IN  /\ queue' = [queue EXCEPT ![m] =
                         [e EXCEPT !.status = "pending", !.seq = seq,
                                   !.timed = TRUE]]
        /\ sendSeq' = [sendSeq EXCEPT ![p][k] = NextSequence(p, k)]
        /\ sending' = [sending EXCEPT ![m] = [task |-> task, flow |-> flow]]
        /\ writes' = Append(ws, SendSeqWrite(DataPacket(p, k, seq, m, "queue"),
                                             NextSequence(p, k)))

(***************************************************************************)
(* send_message up to its first suspension: the session is read, the       *)
(* message enqueued, its body spooled to the outbox and the INSERT issued. *)
(***************************************************************************)
SendMessage ==
    LET m == sent + 1
    IN  /\ m \in Msgs
        /\ sent' = m
        /\ queue' = [queue EXCEPT ![m] = [Absent EXCEPT !.status = "queued"]]
        /\ inserting' = [inserting EXCEPT ![m] = sSession[To[m]]]
        /\ writes' = Append(writes, InsertWrite(m))
        /\ UNCHANGED <<sSession, sendSeq, sendFloor, sending, flush, retry,
                       sendRow, queueRow, net>>

(***************************************************************************)
(* The INSERT is done and send_message goes on: with no session it leaves  *)
(* the message to the handshake's flush; otherwise it builds the packet    *)
(* with the session read before the await, unless the message is no longer *)
(* queued.                                                                 *)
(***************************************************************************)
MessageInserted ==
    /\ writes # <<>>
    /\ Head(writes).op = "insert"
    /\ LET m == Head(writes).msg
           k == inserting[m]
       IN  /\ queueRow' = [queueRow EXCEPT ![m] = [status |-> "queued",
                                                   seq |-> 0]]
           /\ inserting' = [inserting EXCEPT ![m] = 0]
           /\ \/ /\ k # 0
                 /\ queue[m].status = "queued"
                 /\ BuildAndPersist(m, queue[m], k, "send", 0, Tail(writes))
              \/ /\ k = 0 \/ queue[m].status # "queued"
                 /\ writes' = Tail(writes)
                 /\ UNCHANGED <<queue, sendSeq, sending>>
    /\ UNCHANGED <<sent, sSession, sendFloor, flush, retry, sendRow, net>>

(***************************************************************************)
(* The three writes between building a packet and sending it.              *)
(***************************************************************************)
SendSeqSaved ==
    /\ writes # <<>>
    /\ Head(writes).op = "send"
    /\ LET w == Head(writes)
       IN  /\ sendRow' = [sendRow EXCEPT ![w.pkt.peer][w.pkt.sid] = w.val]
           /\ writes' = Append(Tail(writes), MsgSeqWrite(w.pkt))
    /\ UNCHANGED <<senderMem, sent, queueRow, net>>

MsgSeqSaved ==
    /\ writes # <<>>
    /\ Head(writes).op = "mseq"
    /\ LET d == Head(writes).pkt
       IN  /\ queueRow' = [queueRow EXCEPT ![d.msg].seq = d.seq]
           /\ writes' = Append(Tail(writes), PendingWrite(d))
    /\ UNCHANGED <<senderMem, sent, sendRow, net>>

PendingSavedAndSent ==
    /\ writes # <<>>
    /\ Head(writes).op = "pending"
    /\ LET d == Head(writes).pkt
       IN  /\ queueRow' = [queueRow EXCEPT ![d.msg].status = "pending"]
           /\ Send({d})
           /\ sending' = [sending EXCEPT ![d.msg] = Idle]
    /\ writes' = Tail(writes)
    /\ UNCHANGED <<queue, sent, sSession, sendSeq, sendFloor, inserting, flush,
                   retry, sendRow>>

(***************************************************************************)
(* The status writes nothing waits for: delivered, acknowledged, failed.   *)
(***************************************************************************)
StatusSaved ==
    /\ writes # <<>>
    /\ Head(writes).op = "status"
    /\ LET w == Head(writes)
       IN  queueRow' = [queueRow EXCEPT ![w.msg].status = w.status]
    /\ writes' = Tail(writes)
    /\ UNCHANGED <<senderMem, sent, sendRow, net>>
-----------------------------------------------------------------------------
(***************************************************************************)
(* A handshake handler registers session k with p: the sequence floor, if  *)
(* a restart left one, is applied and consumed; then the row is saved.     *)
(***************************************************************************)
RegisterSend(p, k) ==
    LET first == Larger(1, sendFloor[p])
    IN  /\ sendSeq' = [sendSeq EXCEPT ![p][k] = first]
        /\ sendFloor' = [sendFloor EXCEPT ![p] = 0]
        /\ sSession' = [sSession EXCEPT ![p] = k]
        /\ flush' = [flush EXCEPT ![p][k].stage = "saving"]
        /\ writes' = Append(writes, RowWrite(p, k, first))
        /\ UNCHANGED <<queue, sent, inserting, sending, retry, sendRow,
                       queueRow, net>>

SendRowSaved ==
    /\ writes # <<>>
    /\ Head(writes).op = "row"
    /\ LET w == Head(writes)
       IN  /\ sendRow' = [sendRow EXCEPT ![w.peer][w.sid] = w.val]
           /\ flush' = [flush EXCEPT ![w.peer][w.sid].stage = "saved"]
    /\ writes' = Tail(writes)
    /\ UNCHANGED <<queue, sent, sSession, sendSeq, sendFloor, inserting,
                   sending, retry, queueRow, net>>

\* Mutant: the flush looks for the wrong status.
PendingFor(p) == {m \in Msgs : To[m] = p /\ queue[m].status = "pending"}

\* get_queued_for_peer.
QueuedFor(p) == {m \in Msgs : To[m] = p /\ queue[m].status = "queued"}

(***************************************************************************)
(* _flush_queued_for_peer, called by the handler of session k once the     *)
(* heartbeat runs.  It reads the session registered now, and the list of   *)
(* queued messages, once.                                                  *)
(***************************************************************************)
FlushStart(p, k) ==
    /\ flush[p][k].stage = "saved"
    /\ flush' = [flush EXCEPT ![p][k] =
                     IF sSession[p] = 0
                     THEN NoFlush
                     ELSE [stage |-> "flushing", sid |-> sSession[p],
                           todo |-> QueuedFor(p)]]
    /\ UNCHANGED <<queue, sent, sSession, sendSeq, sendFloor, inserting,
                   sending, retry, writes, sendRow, queueRow, net>>

\* The flush of session k awaits the writes of a packet it built.
FlushBusy(p, k) ==
    \E m \in Msgs : /\ To[m] = p
                    /\ sending[m].task = "flush"
                    /\ sending[m].flow = k

(***************************************************************************)
(* One turn of its loop: messages no longer queued are skipped, the next   *)
(* queued one is built; with none left the handler ends.                   *)
(***************************************************************************)
FlushStep(p, k) ==
    LET f == flush[p][k]
        left == f.todo \cap QueuedFor(p)
        m == First(left)
    IN  /\ f.stage = "flushing"
        /\ ~FlushBusy(p, k)
        /\ \/ /\ left # {}
              /\ BuildAndPersist(m, queue[m], f.sid, "flush", k, writes)
              /\ flush' = [flush EXCEPT ![p][k].todo = {x \in f.todo : x > m}]
           \/ /\ left = {}
              /\ flush' = [flush EXCEPT ![p][k] = NoFlush]
              /\ UNCHANGED <<queue, sendSeq, sending, writes>>
        /\ UNCHANGED <<sent, sSession, sendFloor, inserting, retry, sendRow,
                       queueRow, net>>
-----------------------------------------------------------------------------
\* get_timed_out_messages may list m: pending, with a sent_at stamp.  The
\* three writes of a packet take far less than ACK_TIMEOUT.
MayTimeOut(m) ==
    /\ queue[m].status = "pending"
    /\ queue[m].timed
    /\ sending[m] = Idle

\* The retry loop awaits a resend or the write of a failure.
RetryBusy ==
    \/ \E m \in Msgs : sending[m].task = "retry"
    \/ \E i \in 1..Len(writes) : /\ writes[i].op = "status"
                                 /\ writes[i].status = "failed"

\* Mutant: one attempt too many.
ExhaustedLate(n) == n > MaxRetries

\* handle_timeout gives a message up at its n-th timeout.
Exhausted(n) == n >= MaxRetries

(***************************************************************************)
(* The body of the retry loop for one listed message: handle_timeout,      *)
(* which looks at no status, then _on_message_failed or _resend_message.   *)
(***************************************************************************)
HandleTimeout(m) ==
    LET n == queue[m].retries + 1
        k == sSession[To[m]]
        timedOut(st) == [queue[m] EXCEPT !.retries = n, !.status = st]
    IN  \/ /\ Exhausted(n)
           /\ queue' = [queue EXCEPT ![m] = timedOut("failed")]
           /\ writes' = Append(writes, StatusWrite(m, "failed"))
           /\ UNCHANGED <<sendSeq, sending>>
        \/ /\ ~Exhausted(n)
           /\ k = 0
           /\ queue' = [queue EXCEPT ![m] = timedOut("queued")]
           /\ UNCHANGED <<sendSeq, sending, writes>>
        \/ /\ ~Exhausted(n)
           /\ k # 0
           /\ BuildAndPersist(m, timedOut("queued"), k, "retry", 0, writes)

(***************************************************************************)
(* _retry_loop: the list is taken once and worked through message by       *)
(* message, with awaits in between.                                        *)
(***************************************************************************)
RetryScan ==
    /\ retry = {}
    /\ ~RetryBusy
    /\ \E T \in SUBSET {m \in Msgs : MayTimeOut(m)} :
          /\ T # {}
          /\ HandleTimeout(First(T))
          /\ retry' = T \ {First(T)}
    /\ UNCHANGED <<sent, sSession, sendFloor, inserting, flush, sendRow,
                   queueRow, net>>

RetryNext ==
    /\ retry # {}
    /\ ~RetryBusy
    /\ HandleTimeout(First(retry))
    /\ retry' = retry \ {First(retry)}
    /\ UNCHANGED <<sent, sSession, sendFloor, inserting, flush, sendRow,
                   queueRow, net>>
-----------------------------------------------------------------------------
\* Mutant: the number in the ACK is not compared.
AckMatchesAny(m, a) == queue[m].status = "pending"

\* handle_ack takes the first pending entry with the acknowledged number, of
\* any receiver and any session.
AckMatches(m, a) == queue[m].status = "pending" /\ queue[m].seq = a.seq

(***************************************************************************)
(* _handle_ack.  An ACK that matches nothing changes nothing.              *)
(***************************************************************************)
HandleAck(a) ==
    LET match == {m \in Msgs : AckMatches(m, a)}
        m == First(match)
    IN  /\ match # {}
        /\ queue' = [queue EXCEPT ![m].status = "delivered"]
        /\ writes' = Append(writes, StatusWrite(m, "delivered"))
        /\ UNCHANGED <<sent, sSession, sendSeq, sendFloor, inserting, sending,
                       flush, retry, sendRow, queueRow, net>>

\* Mutant: the number in the APP_ACK is not compared.
AppAckMatchesAny(m, a) == To[m] = a.peer /\ queue[m].status = "delivered"

\* acknowledge_by_sequence takes the first delivered entry of the peer with
\* the acknowledged number.
AppAckMatches(m, a) ==
    /\ To[m] = a.peer
    /\ queue[m].seq = a.seq
    /\ queue[m].status = "delivered"

(***************************************************************************)
(* _handle_app_ack, within the registered session the packet names.        *)
(***************************************************************************)
HandleAppAck(a) ==
    LET match == {m \in Msgs : AppAckMatches(m, a)}
        m == First(match)
    IN  /\ sSession[a.peer] = a.sid
        /\ match # {}
        /\ queue' = [queue EXCEPT ![m].status = "acknowledged"]
        /\ writes' = Append(writes, StatusWrite(m, "acknowledged"))
        /\ UNCHANGED <<sent, sSession, sendSeq, sendFloor, inserting, sending,
                       flush, retry, sendRow, queueRow, net>>

(***************************************************************************)
(* _handle_sync and rebuild_for_sync: every entry of the peer numbered     *)
(* above what it has is sent again, whatever its status, under the number  *)
(* it already carries, and its ACK timer starts afresh.                    *)
(***************************************************************************)
HandleSync(y) ==
    LET missed == {m \in Msgs : /\ To[m] = y.peer
                                /\ queue[m].status # "absent"
                                /\ queue[m].seq > y.seq}
    IN  /\ sSession[y.peer] = y.sid
        /\ missed # {}
        /\ Send({DataPacket(y.peer, y.sid, queue[m].seq, m, "sync") :
                     m \in missed})
        /\ queue' = [m \in Msgs |-> IF m \in missed
                                    THEN [queue[m] EXCEPT !.timed = TRUE]
                                    ELSE queue[m]]
        /\ UNCHANGED <<sent, sSession, sendSeq, sendFloor, inserting, sending,
                       flush, retry, writes, sendRow, queueRow>>

\* _handle_peer_disconnect: the session registered for p is forgotten.
DropSendSession(p) ==
    /\ sSession[p] # 0
    /\ sSession' = [sSession EXCEPT ![p] = 0]
    /\ UNCHANGED <<queue, sent, sendSeq, sendFloor, inserting, sending, flush,
                   retry, writes, sendRow, queueRow, net>>

\* Mutant: start does not restore the floors.
SavedSendForgotten(p) == 0

\* The floor start reads for p: the row saved last, that of its newest session.
SavedSend(p) ==
    LET saved == {k \in Sids : sendRow[p][k] # 0}
    IN  IF saved = {} THEN 0 ELSE sendRow[p][Newest(saved)]

\* restore_entry: no sent_at; the retry count column is never written.
Restored(row) ==
    IF row.status \in {"absent", "failed"}
    THEN Absent
    ELSE [status |-> row.status, retries |-> 0, seq |-> row.seq,
          timed |-> FALSE]

(***************************************************************************)
(* The process dies, at any point, and start runs again: what is in memory *)
(* and the writes not yet executed are gone; the floors and the queue are  *)
(* read back from SQLite.  (sendSeq keeps the values of dead sessions,     *)
(* which nothing reads again, as a record for the properties.)             *)
(***************************************************************************)
RestartSender ==
    /\ queue' = [m \in Msgs |-> Restored(queueRow[m])]
    /\ sSession' = [p \in Peers |-> 0]
    /\ sendFloor' = [p \in Peers |-> SavedSend(p)]
    /\ inserting' = [m \in Msgs |-> 0]
    /\ sending' = [m \in Msgs |-> Idle]
    /\ flush' = [p \in Peers |-> [k \in Sids |-> NoFlush]]
    /\ retry' = {}
    /\ writes' = <<>>
    /\ UNCHANGED <<sent, sendSeq, sendRow, queueRow, net>>
=============================================================================
