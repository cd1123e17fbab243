------------------------- MODULE DeliverySendProofs -------------------------
(***************************************************************************)
(* Delivery is type correct, for any number of peers, messages, sessions,  *)
(* retries and faults; and what single steps of the two sides do to the    *)
(* packets and to what the sender shows.                                   *)
(***************************************************************************)
EXTENDS Delivery, WellFoundedInduction, TLAPS

(***************************************************************************)
(* The first and the newest of a set of numbers are in it.                 *)
(***************************************************************************)

\* First, which picks the entry the code finds first in _queue, returns a
\* member of every set of numbers that has one.
LEMMA FirstIn ==
    ASSUME NEW S, S \subseteq Nat, S # {}
    PROVE  First(S) \in S /\ \A y \in S : First(S) =< y
<1>1. PICK x \in S : \A y \in S : ~(<<y, x>> \in OpToRel(<, Nat))
  BY NatLessThanWellFounded, WFMin, Zenon
<1>2. \A y \in S : x =< y
  <2>1. SUFFICES ASSUME NEW y \in S, ~(x =< y) PROVE FALSE
    BY ZenonT(30)
  <2>2. <<y, x>> \in OpToRel(<, Nat)
    BY <2>1 DEF OpToRel
  <2>3. QED
    BY <2>2, <1>1, Zenon
<1>3. QED
  BY <1>1, <1>2, Zenon DEF First

\* Newest, which picks the row start reads last, likewise.
LEMMA NewestIn ==
    ASSUME NEW n \in Nat, NEW S, S \subseteq 1..n, S # {}
    PROVE  Newest(S) \in S
<1> DEFINE T == {n - x : x \in S}
<1>1. T \subseteq Nat
  OBVIOUS
<1>2. T # {}
  <2>1. PICK x \in S : TRUE
    BY Zenon
  <2>2. n - x \in T
    BY <2>1, ZenonT(30)
  <2>3. QED
    BY <2>2, ZenonT(30)
<1>3. First(T) \in T /\ \A y \in T : First(T) =< y
  BY <1>1, <1>2, FirstIn, Zenon
<1>4. PICK x \in S : First(T) = n - x
  BY <1>3, ZenonT(30)
<1>5. \A y \in S : n - x =< n - y
  BY <1>3, <1>4, Zenon
<1>6. \A y \in S : x >= y
  BY <1>5
<1>7. QED
  BY <1>6, Zenon DEF Newest

\* A counter and its next value.
LEMMA Successor ==
    ASSUME NEW n \in Nat
    PROVE  /\ n + 1 \in Nat /\ 1 =< n + 1 /\ n < n + 1 /\ n =< n + 1
           /\ n + 1 # 0 /\ n + 1 =< n + 1
           /\ \A r \in Nat : r =< n => r =< n + 1 /\ r < n + 1
           /\ \A r \in Nat : r < n + 1 => r =< n
  OBVIOUS

\* What is below a number is below every larger one.
LEMMA BelowLarger ==
    ASSUME NEW a \in Nat, NEW b \in Nat, NEW c \in Nat, a < b, b =< c
    PROVE  a < c
  OBVIOUS

\* A bound may be raised by one.
LEMMA BoundRaised ==
    ASSUME NEW n \in Nat, NEW r \in Nat, r =< n
    PROVE  r =< n + 1
  OBVIOUS

\* 0 is the least number, and nothing is left of a budget of 0.
LEMMA AboveZero ==
    /\ \A a \in Nat : \A b \in Nat : a < b => b # 0
    /\ ~(0 > 0)
    /\ \A n \in Nat : 0..n \subseteq Nat
    /\ \A n \in Nat \ {0} : 0 =< n /\ 0 < n
    /\ \A a \in Nat : a =< 0 => a = 0
  OBVIOUS

\* Numbers are ordered.
LEMMA Ordered ==
    ASSUME NEW a \in Nat, NEW b \in Nat
    PROVE  /\ a < b => a =< b /\ a # b /\ ~(b < a) /\ ~(b =< a)
           /\ a =< b \/ b < a
           /\ a =< b => a < b \/ a = b
           /\ b > a => a < b
           /\ \A c \in Nat : /\ a =< b /\ b =< c => a =< c
                             /\ a < b /\ b =< c => a < c
                             /\ a =< b /\ b < c => a < c
  OBVIOUS

\* What a message that was never sent looks like.
LEMMA AbsentParts ==
    Absent.status = "absent" /\ Absent.retries = 0 /\ Absent.seq = 0
  BY DEF Absent

\* Messages are numbered.
LEMMA MsgsNumbered == Msgs \subseteq Nat
  BY DEF Msgs

\* A queue takes one more entry of its kind.
LEMMA AppendTyped ==
    ASSUME NEW S, NEW s \in Seq(S), NEW x \in S
    PROVE  Append(s, x) \in Seq(S)
  OBVIOUS

\* The entries of a queue are of its kind.
LEMMA ElementTyped ==
    ASSUME NEW S, NEW s \in Seq(S), NEW i \in 1..Len(s)
    PROVE  s[i] \in S
  OBVIOUS

\* What is left of a queue was in it.
LEMMA TailIn ==
    ASSUME NEW S, NEW s \in Seq(S), s # <<>>, NEW i \in 1..Len(Tail(s))
    PROVE  \E j \in 1..Len(s) : Tail(s)[i] = s[j]
<1>1. i + 1 \in 1..Len(s) /\ Tail(s)[i] = s[i + 1]
  OBVIOUS
<1>2. QED
  BY <1>1, Zenon

\* Nothing is in an empty queue.
LEMMA EmptyQueue == \A i \in 1..Len(<<>>) : FALSE
  OBVIOUS

\* What is in a queue after an append was in it or is what was appended.
LEMMA AppendIn ==
    ASSUME NEW S, NEW s \in Seq(S), NEW x, NEW i \in 1..Len(Append(s, x))
    PROVE  (i \in 1..Len(s) /\ Append(s, x)[i] = s[i]) \/ Append(s, x)[i] = x
  OBVIOUS

\* 0 stands for no session.
LEMMA SidsPositive ==
    ASSUME NEW k \in 0..MaxSid
    PROVE  k # 0 => k \in Sids
  BY WireAssumption DEF Sids
-----------------------------------------------------------------------------
(***************************************************************************)
(* Type correctness.                                                       *)
(***************************************************************************)

\* A flush under way works for a session, and so does an offer.
SessionsNamed ==
    /\ \A p \in Peers : \A k \in Sids :
          flush[p][k].stage = "flushing" => flush[p][k].sid # 0
    /\ \A p \in Peers : offer[p].to # "none" => offer[p].sid # 0

TypeInv == TypeOK /\ SessionsNamed

\* What stands for "nothing" has its type.
LEMMA NothingsTyped ==
    /\ NoFlush \in Flushes /\ Idle \in Dispatches /\ NoOffer \in Offers
    /\ Absent \in Entries
BY WireAssumption
DEF NoFlush, Flushes, Idle, Dispatches, NoOffer, Offers, Absent, Entries,
    Statuses

\* A packet numbered by build_data_packet, with its three writes ahead, has
\* the right type whichever of the three tasks builds it.
LEMMA BuildTypes ==
    ASSUME TypeInv, NEW m \in Msgs, NEW e \in Entries, NEW k \in Sids,
           NEW task \in {"send", "flush", "retry"}, NEW flow \in 0..MaxSid,
           NEW ws \in Seq(Writes),
           BuildAndPersist(m, e, k, task, flow, ws)
    PROVE  /\ queue' \in [Msgs -> Entries]
           /\ sendSeq' \in [Peers -> [Sids -> Nat]]
           /\ sending' \in [Msgs -> Dispatches]
           /\ writes' \in Seq(Writes)
<1>1. To[m] \in Peers /\ sendSeq[To[m]][k] \in Nat
  BY WireAssumption, ZenonT(30) DEF TypeInv, TypeOK, SenderTypeOK
<1>2. queue' \in [Msgs -> Entries]
  BY <1>1, Zenon
  DEF BuildAndPersist, TypeInv, TypeOK, SenderTypeOK, Entries, Statuses
<1>3. sendSeq' \in [Peers -> [Sids -> Nat]]
  BY <1>1, Successor, Ordered, ZenonT(30)
  DEF BuildAndPersist, NextSequence, TypeInv, TypeOK, SenderTypeOK
<1>4. sending' \in [Msgs -> Dispatches]
  BY ZenonT(30) DEF BuildAndPersist, TypeInv, TypeOK, SenderTypeOK, Dispatches
<1>5. writes' \in Seq(Writes)
  <2>1. DataPacket(To[m], k, sendSeq[To[m]][k], m, "queue") \in DataPackets
    BY <1>1, ZenonT(30) DEF DataPacket, DataPackets
  <2>2. SendSeqWrite(DataPacket(To[m], k, sendSeq[To[m]][k], m, "queue"),
                     NextSequence(To[m], k)) \in Writes
    BY <2>1, <1>1, Successor, Ordered, ZenonT(30)
    DEF SendSeqWrite, NextSequence, Writes
  <2>3. QED
    BY <2>2, AppendTyped, ZenonT(30) DEF BuildAndPersist
<1>6. QED
  BY <1>2, <1>3, <1>4, <1>5, ZenonT(30)

\* Init is a correctly typed state.
LEMMA TypeInit == Init => TypeInv
<1> SUFFICES ASSUME Init PROVE TypeInv
  BY ZenonT(30)
<1>1. SenderTypeOK
  <2>1. queue \in [Msgs -> Entries]
    BY ZenonT(30) DEF Init, SenderInit, Absent, Entries, Statuses
  <2>2. sending \in [Msgs -> Dispatches]
    BY WireAssumption DEF Init, SenderInit, Idle, Dispatches
  <2>3. flush \in [Peers -> [Sids -> Flushes]]
    BY WireAssumption DEF Init, SenderInit, NoFlush, Flushes
  <2>4. queueRow \in [Msgs -> Rows]
    BY ZenonT(30) DEF Init, SenderInit, Rows, Statuses
  <2>5. QED
    BY <2>1, <2>2, <2>3, <2>4, WireAssumption DEF Init, SenderInit, SenderTypeOK
<1>2. ReceiverTypeOK
  BY WireAssumption DEF Init, ReceiverInit, ReceiverTypeOK, NoRow
<1>3. offer \in [Peers -> Offers]
  BY WireAssumption DEF Init, NoOffer, Offers
<1>4. SessionsNamed
  BY ZenonT(30) DEF Init, SenderInit, NoFlush, NoOffer, SessionsNamed
<1>5. QED
  BY <1>1, <1>2, <1>3, <1>4, WireAssumption, BudgetAssumption
  DEF Init, TypeOK, TypeInv

\* The floors start reads back are numbers.
LEMMA FloorTypes ==
    ASSUME TypeInv, NEW p \in Peers
    PROVE  SavedSend(p) \in Nat /\ SavedRecv(p) \in Nat
<1> USE DEF TypeInv, TypeOK
<1>1. SavedSend(p) \in Nat
  <2> DEFINE saved == {k \in Sids : sendRow[p][k] # 0}
  <2>1. CASE saved = {}
    BY <2>1, ZenonT(30) DEF SavedSend
  <2>2. CASE saved # {}
    <3>1. Newest(saved) \in saved
      BY <2>2, NewestIn, WireAssumption, ZenonT(30) DEF Sids
    <3>2. QED
      BY <2>2, <3>1, ZenonT(30) DEF SavedSend, SenderTypeOK
  <2>3. QED
    BY <2>1, <2>2, ZenonT(30)
<1>2. SavedRecv(p) \in Nat
  <2> DEFINE saved == {k \in Sids : recvRow[p][k] # NoRow}
  <2>1. CASE saved = {}
    BY <2>1, ZenonT(30) DEF SavedRecv
  <2>2. CASE saved # {}
    <3>1. Newest(saved) \in saved
      BY <2>2, NewestIn, WireAssumption, ZenonT(30) DEF Sids
    <3>2. QED
      BY <2>2, <3>1 DEF SavedRecv, ReceiverTypeOK
  <2>3. QED
    BY <2>1, <2>2, ZenonT(30)
<1>3. QED
  BY <1>1, <1>2, ZenonT(30)

\* One turn of the retry loop keeps the types of what it changes.
LEMMA TimeoutTypes ==
    ASSUME TypeInv, NEW m \in Msgs, HandleTimeout(m)
    PROVE  /\ queue' \in [Msgs -> Entries]
           /\ sendSeq' \in [Peers -> [Sids -> Nat]]
           /\ sending' \in [Msgs -> Dispatches]
           /\ writes' \in Seq(Writes)
<1> DEFINE n == queue[m].retries + 1
           k == sSession[To[m]]
           timedOut(st) == [queue[m] EXCEPT !.retries = n, !.status = st]
<1>1. timedOut("failed") \in Entries /\ timedOut("queued") \in Entries
  <2>1. queue[m] \in Entries /\ n \in Nat
    BY Successor, Ordered, ZenonT(30)
    DEF TypeInv, TypeOK, SenderTypeOK, Entries
  <2>2. \A e \in Entries, i \in Nat, st \in Statuses :
            [e EXCEPT !.retries = i, !.status = st] \in Entries
    BY Zenon DEF Entries
  <2>3. QED
    BY <2>1, <2>2, Zenon DEF Statuses
<1>2. CASE /\ queue' = [queue EXCEPT ![m] = timedOut("failed")]
           /\ writes' = Append(writes, StatusWrite(m, "failed"))
           /\ UNCHANGED <<sendSeq, sending>>
  <2>1. StatusWrite(m, "failed") \in Writes
    BY ZenonT(30) DEF StatusWrite, Writes
  <2>2. QED
    BY <1>1, <1>2, <2>1, AppendTyped, ZenonT(30)
    DEF TypeInv, TypeOK, SenderTypeOK
<1>3. CASE /\ queue' = [queue EXCEPT ![m] = timedOut("queued")]
           /\ UNCHANGED <<sendSeq, sending, writes>>
  BY <1>1, <1>3, ZenonT(30) DEF TypeInv, TypeOK, SenderTypeOK
<1>4. CASE /\ k # 0
           /\ BuildAndPersist(m, timedOut("queued"), k, "retry", 0, writes)
  <2>1. k \in Sids
    BY <1>4, WireAssumption, SidsPositive, ZenonT(30)
    DEF TypeInv, TypeOK, SenderTypeOK, Sids
  <2>2. 0 \in 0..MaxSid /\ writes \in Seq(Writes)
    BY WireAssumption DEF TypeInv, TypeOK, SenderTypeOK
  <2>3. QED
    BY <1>1, <1>4, <2>1, <2>2, BuildTypes, ZenonT(30)
<1>5. QED
  BY <1>2, <1>3, <1>4, ZenonT(30) DEF HandleTimeout

\* What a write on the database thread's queue carries.
LEMMA WriteParts ==
    ASSUME NEW w \in Writes
    PROVE  /\ w.op = "insert" => w.msg \in Msgs
           /\ w.op = "row" => w.peer \in Peers /\ w.sid \in Sids /\ w.val \in Nat
           /\ w.op = "send" => w.pkt \in DataPackets /\ w.val \in Nat
           /\ w.op \in {"mseq", "pending"} => w.pkt \in DataPackets
           /\ w.op = "status" => w.msg \in Msgs /\ w.status \in Statuses
<1>1. CASE w \in [op : {"insert"}, msg : Msgs]
  BY <1>1, ZenonT(30)
<1>2. CASE w \in [op : {"row"}, peer : Peers, sid : Sids, val : Nat]
  BY <1>2, ZenonT(30)
<1>3. CASE w \in [op : {"send"}, pkt : DataPackets, val : Nat]
  BY <1>3, ZenonT(30)
<1>4. CASE w \in [op : {"mseq", "pending"}, pkt : DataPackets]
  BY <1>4, ZenonT(30)
<1>5. CASE w \in [op : {"status"}, msg : Msgs,
                  status : {"delivered", "acknowledged", "failed"}]
  BY <1>5, ZenonT(30) DEF Statuses
<1>6. QED
  BY <1>1, <1>2, <1>3, <1>4, <1>5, ZenonT(30) DEF Writes

\* The first element of a queue, and the rest, have its type.
LEMMA HeadAndTail ==
    ASSUME NEW S, NEW s \in Seq(S), s # <<>>
    PROVE  /\ Head(s) \in S /\ Tail(s) \in Seq(S)
           /\ Head(s) = s[1] /\ 1 \in 1..Len(s)
OBVIOUS

\* A row of message_queue keeps its type under both of its updates.
LEMMA RowUpdates ==
    ASSUME NEW r \in Rows
    PROVE  /\ \A n \in Nat : [r EXCEPT !.seq = n] \in Rows
           /\ \A st \in Statuses : [r EXCEPT !.status = st] \in Rows
BY ZenonT(30) DEF Rows

\* The steps the sending node takes by itself, and those a receipt or a SYNC
\* makes it take, keep the types.
LEMMA SenderTypeStep ==
    ASSUME TypeInv, SendMessage \/ SenderWorks \/ SenderHears,
           UNCHANGED <<receiverVars, handshakeVars>>
    PROVE  TypeInv'
<1> USE DEF TypeInv, TypeOK, SenderTypeOK
<1>0. /\ ReceiverTypeOK' /\ nextSid' \in [Peers -> 1..(MaxSid + 1)]
      /\ offer' \in [Peers -> Offers] /\ budget' \in [Faults -> Nat]
      /\ UNCHANGED offer
  BY ZenonT(30) DEF receiverVars, handshakeVars, ReceiverTypeOK
<1>1. CASE SendMessage
  <2>1. [Absent EXCEPT !.status = "queued"] \in Entries
    BY Zenon DEF Absent, Entries, Statuses
  <2>2. sent + 1 \in Msgs
    BY <1>1, ZenonT(30) DEF SendMessage
  <2>3. InsertWrite(sent + 1) \in Writes
    BY <2>2, ZenonT(30) DEF InsertWrite, Writes
  <2>4. queue' \in [Msgs -> Entries]
    BY <1>1, <2>1, <2>2, ZenonT(30) DEF SendMessage
  <2>5. writes' \in Seq(Writes)
    BY <1>1, <2>3, AppendTyped, ZenonT(30) DEF SendMessage
  <2>6. sent' \in 0..NumMsgs
    BY <1>1, <2>2, WireAssumption DEF SendMessage, Msgs
  <2>7. inserting' \in [Msgs -> 0..MaxSid]
    BY <1>1, <2>2, WireAssumption, Zenon DEF SendMessage
  <2>8. QED
    BY <1>0, <1>1, <2>4, <2>5, <2>6, <2>7, ZenonT(30)
    DEF SendMessage, SessionsNamed
<1>2. CASE MessageInserted
  <2> DEFINE m == Head(writes).msg
             k == inserting[m]
  <2>1. m \in Msgs /\ Tail(writes) \in Seq(Writes)
    BY <1>2, HeadAndTail, WriteParts, ZenonT(30) DEF MessageInserted
  <2>2. queueRow' \in [Msgs -> Rows]
    BY <1>2, <2>1, ZenonT(30) DEF MessageInserted, Rows, Statuses
  <2>3. inserting' \in [Msgs -> 0..MaxSid]
    BY <1>2, <2>1, WireAssumption, SMTT(30) DEF MessageInserted
  <2>4. /\ queue' \in [Msgs -> Entries]
        /\ sendSeq' \in [Peers -> [Sids -> Nat]]
        /\ sending' \in [Msgs -> Dispatches]
        /\ writes' \in Seq(Writes)
    <3>1. CASE /\ k # 0
               /\ BuildAndPersist(m, queue[m], k, "send", 0, Tail(writes))
      <4>1. k \in Sids /\ queue[m] \in Entries /\ 0 \in 0..MaxSid
        BY <3>1, <2>1, WireAssumption DEF Sids
      <4>2. QED
        BY <3>1, <4>1, <2>1, BuildTypes, Zenon
    <3>2. CASE writes' = Tail(writes) /\ UNCHANGED <<queue, sendSeq, sending>>
      BY <3>2, <2>1, ZenonT(30)
    <3>3. QED
      BY <1>2, <3>1, <3>2, ZenonT(30) DEF MessageInserted
  <2>5. QED
    BY <1>0, <1>2, <2>2, <2>3, <2>4, ZenonT(30)
    DEF MessageInserted, SessionsNamed
<1>3. CASE SendSeqSaved
  <2> DEFINE w == Head(writes)
  <2>1. w.pkt \in DataPackets /\ w.val \in Nat /\ Tail(writes) \in Seq(Writes)
    BY <1>3, HeadAndTail, WriteParts, ZenonT(30) DEF SendSeqSaved
  <2>2. MsgSeqWrite(w.pkt) \in Writes
    BY <2>1, ZenonT(30) DEF MsgSeqWrite, Writes
  <2>3. sendRow' \in [Peers -> [Sids -> Nat]]
    BY <1>3, <2>1, ZenonT(30) DEF SendSeqSaved, DataPackets
  <2>4. QED
    <3>1. UNCHANGED <<senderMem, sent, queueRow, net>>
      BY <1>3, ZenonT(30) DEF SendSeqSaved
    <3>2. writes' \in Seq(Writes)
      BY <1>3, <2>1, <2>2, AppendTyped, ZenonT(30) DEF SendSeqSaved
    <3>3. QED
      BY <1>0, <2>3, <3>1, <3>2, ZenonT(30) DEF senderMem, SessionsNamed
<1>4. CASE MsgSeqSaved
  <2> DEFINE d == Head(writes).pkt
  <2>1. d \in DataPackets /\ Tail(writes) \in Seq(Writes)
    BY <1>4, HeadAndTail, WriteParts, ZenonT(30) DEF MsgSeqSaved
  <2>2. PendingWrite(d) \in Writes
    BY <2>1, ZenonT(30) DEF PendingWrite, Writes
  <2>3. queueRow' \in [Msgs -> Rows]
    <3>1. d.msg \in Msgs /\ d.seq \in Nat
      BY <2>1, ZenonT(30) DEF DataPackets
    <3>2. queueRow' = [queueRow EXCEPT ![d.msg].seq = d.seq]
      BY <1>4, ZenonT(30) DEF MsgSeqSaved
    <3>3. QED
      BY <3>1, <3>2, RowUpdates, ZenonT(30)
  <2>4. QED
    BY <1>0, <1>4, <2>1, <2>2, <2>3, AppendTyped, ZenonT(30)
    DEF MsgSeqSaved, senderMem, SessionsNamed
<1>5. CASE PendingSavedAndSent
  <2> DEFINE d == Head(writes).pkt
  <2>1. d \in DataPackets /\ Tail(writes) \in Seq(Writes)
    BY <1>5, HeadAndTail, WriteParts, ZenonT(30) DEF PendingSavedAndSent
  <2>2. queueRow' \in [Msgs -> Rows]
    <3>1. d.msg \in Msgs /\ "pending" \in Statuses
      BY <2>1, ZenonT(30) DEF DataPackets, Statuses
    <3>2. queueRow' = [queueRow EXCEPT ![d.msg].status = "pending"]
      BY <1>5, ZenonT(30) DEF PendingSavedAndSent
    <3>3. QED
      BY <3>1, <3>2, RowUpdates, ZenonT(30)
  <2>3. sending' \in [Msgs -> Dispatches]
    BY <1>5, <2>1, WireAssumption, SMTT(30)
    DEF PendingSavedAndSent, DataPackets, Idle, Dispatches
  <2>4. net' \subseteq Packets
    BY <1>5, <2>1, ZenonT(30) DEF PendingSavedAndSent, Send, Packets
  <2>5. QED
    BY <1>0, <1>5, <2>1, <2>2, <2>3, <2>4, ZenonT(30)
    DEF PendingSavedAndSent, SessionsNamed
<1>6. CASE StatusSaved
  <2> DEFINE w == Head(writes)
  <2>1. /\ w.msg \in Msgs /\ w.status \in Statuses
        /\ Tail(writes) \in Seq(Writes)
    BY <1>6, HeadAndTail, WriteParts, ZenonT(30) DEF StatusSaved
  <2>2. queueRow' \in [Msgs -> Rows]
    BY <1>6, <2>1, ZenonT(30) DEF StatusSaved, Rows
  <2>3. QED
    BY <1>0, <1>6, <2>1, <2>2, ZenonT(30)
    DEF StatusSaved, senderMem, SessionsNamed
<1>7. CASE SendRowSaved
  <2> DEFINE w == Head(writes)
  <2>1. /\ w.peer \in Peers /\ w.sid \in Sids /\ w.val \in Nat
        /\ Tail(writes) \in Seq(Writes)
    BY <1>7, HeadAndTail, WriteParts, ZenonT(30) DEF SendRowSaved
  <2>2. sendRow' \in [Peers -> [Sids -> Nat]]
    BY <1>7, <2>1, ZenonT(30) DEF SendRowSaved
  <2>3. flush' \in [Peers -> [Sids -> Flushes]]
    <3>1. \A f \in Flushes : [f EXCEPT !.stage = "saved"] \in Flushes
      BY Zenon DEF Flushes
    <3>2. QED
      BY <1>7, <2>1, <3>1, ZenonT(30) DEF SendRowSaved
  <2>4. SessionsNamed'
    <3>1. flush'[w.peer][w.sid].stage = "saved"
      <4>1. flush' = [flush EXCEPT ![w.peer][w.sid].stage = "saved"]
        BY <1>7, ZenonT(30) DEF SendRowSaved
      <4>2. flush'[w.peer][w.sid] = [flush[w.peer][w.sid] EXCEPT !.stage = "saved"]
        BY <2>1, <4>1, ZenonT(30)
      <4>3. flush[w.peer][w.sid] \in Flushes
        BY <2>1, ZenonT(30)
      <4>4. QED
        BY <4>2, <4>3, ZenonT(30) DEF Flushes
    <3>2. \A p \in Peers, k \in Sids :
              p # w.peer \/ k # w.sid => flush'[p][k] = flush[p][k]
      BY <1>7, <2>1, ZenonT(30) DEF SendRowSaved
    <3>3. ASSUME NEW p \in Peers, NEW k \in Sids,
                 flush'[p][k].stage = "flushing"
          PROVE  flush'[p][k].sid # 0
      <4>1. p # w.peer \/ k # w.sid
        BY <3>1, <3>3, ZenonT(30)
      <4>2. flush'[p][k] = flush[p][k]
        BY <3>2, <4>1, ZenonT(30)
      <4>3. QED
        BY <3>3, <4>2, ZenonT(30) DEF SessionsNamed
    <3>4. QED
      BY <1>0, <3>3, ZenonT(30) DEF SessionsNamed
  <2>5. QED
    BY <1>0, <1>7, <2>1, <2>2, <2>3, <2>4, Zenon DEF SendRowSaved
<1>8. ASSUME NEW p \in Peers, NEW k \in Sids, FlushStart(p, k)
      PROVE  TypeInv'
  <2>1. NoFlush \in Flushes
    BY NothingsTyped, ZenonT(30)
  <2>2. [stage |-> "flushing", sid |-> sSession[p], todo |-> QueuedFor(p)]
            \in Flushes
    BY ZenonT(30) DEF Flushes, QueuedFor
  <2>3. flush' \in [Peers -> [Sids -> Flushes]]
    BY <1>8, <2>1, <2>2, ZenonT(30) DEF FlushStart
  <2>4. SessionsNamed'
    BY <1>0, <1>8, Zenon DEF FlushStart, SessionsNamed, NoFlush
  <2>5. QED
    BY <1>0, <1>8, <2>3, <2>4, ZenonT(30) DEF FlushStart
<1>9. ASSUME NEW p \in Peers, NEW k \in Sids, FlushStep(p, k)
      PROVE  TypeInv'
  <2> DEFINE f == flush[p][k]
             left == f.todo \cap QueuedFor(p)
             m == First(left)
  <2>1. f \in Flushes /\ f.sid \in Sids
    BY <1>9, WireAssumption, SMTT(30)
    DEF FlushStep, SessionsNamed, Flushes, Sids
  <2>2. CASE /\ left # {}
             /\ BuildAndPersist(m, queue[m], f.sid, "flush", k, writes)
             /\ flush' = [flush EXCEPT ![p][k].todo = {x \in f.todo : x > m}]
    <3>1. m \in Msgs
      <4>1. left \subseteq Nat
        BY <2>1, SMTT(30) DEF Flushes, Msgs
      <4>2. m \in left
        BY <4>1, <2>2, FirstIn, Zenon
      <4>3. QED
        BY <4>2, <2>1, ZenonT(30) DEF QueuedFor
    <3>2. queue[m] \in Entries /\ k \in 0..MaxSid /\ writes \in Seq(Writes)
      BY <3>1, WireAssumption, SMTT(30) DEF Sids
    <3>3. /\ queue' \in [Msgs -> Entries]
          /\ sendSeq' \in [Peers -> [Sids -> Nat]]
          /\ sending' \in [Msgs -> Dispatches]
          /\ writes' \in Seq(Writes)
      BY <2>1, <2>2, <3>1, <3>2, BuildTypes, Zenon
    <3>4. flush' \in [Peers -> [Sids -> Flushes]] /\ SessionsNamed'
      BY <1>0, <2>1, <2>2, ZenonT(30) DEF Flushes, SessionsNamed
    <3>5. QED
      BY <1>0, <1>9, <3>3, <3>4, ZenonT(30) DEF FlushStep
  <2>3. CASE /\ flush' = [flush EXCEPT ![p][k] = NoFlush]
             /\ UNCHANGED <<queue, sendSeq, sending, writes>>
    <3>1. NoFlush \in Flushes
      BY WireAssumption, SMTT(30) DEF NoFlush, Flushes
    <3>2. SessionsNamed'
      BY <1>0, <2>3, Zenon DEF SessionsNamed, NoFlush
    <3>3. QED
      BY <1>0, <1>9, <2>3, <3>1, <3>2, ZenonT(30) DEF FlushStep
  <2>4. QED
    BY <1>9, <2>2, <2>3, Zenon DEF FlushStep
<1>10. CASE RetryScan
  <2>1. PICK T \in SUBSET {m \in Msgs : MayTimeOut(m)} :
             T # {} /\ HandleTimeout(First(T)) /\ retry' = T \ {First(T)}
    BY <1>10, Zenon DEF RetryScan
  <2>2. First(T) \in Msgs
    <3>1. T \subseteq Nat
      BY DEF Msgs
    <3>2. First(T) \in T
      BY <3>1, <2>1, FirstIn, Zenon
    <3>3. QED
      BY <3>2, ZenonT(30)
  <2>3. /\ queue' \in [Msgs -> Entries]
        /\ sendSeq' \in [Peers -> [Sids -> Nat]]
        /\ sending' \in [Msgs -> Dispatches]
        /\ writes' \in Seq(Writes)
    BY <2>1, <2>2, TimeoutTypes, ZenonT(30)
  <2>4. QED
    BY <1>0, <1>10, <2>1, <2>3, ZenonT(30) DEF RetryScan, SessionsNamed
<1>11. CASE RetryNext
  <2>1. First(retry) \in Msgs
    <3>1. retry \subseteq Nat /\ retry # {}
      BY <1>11 DEF Msgs, RetryNext
    <3>2. First(retry) \in retry
      BY <3>1, FirstIn, ZenonT(30)
    <3>3. QED
      BY <3>2, ZenonT(30)
  <2>2. /\ queue' \in [Msgs -> Entries]
        /\ sendSeq' \in [Peers -> [Sids -> Nat]]
        /\ sending' \in [Msgs -> Dispatches]
        /\ writes' \in Seq(Writes)
    BY <1>11, <2>1, TimeoutTypes, ZenonT(30) DEF RetryNext
  <2>3. QED
    BY <1>0, <1>11, <2>2, ZenonT(30) DEF RetryNext, SessionsNamed
<1>12. ASSUME NEW a, HandleAck(a) PROVE TypeInv'
  <2> DEFINE match == {x \in Msgs : AckMatches(x, a)}
             m == First(match)
  <2>1. m \in Msgs
    <3>1. match \subseteq Nat /\ match # {}
      BY <1>12 DEF Msgs, HandleAck
    <3>2. m \in match
      BY <3>1, FirstIn, Zenon
    <3>3. QED
      BY <3>2, ZenonT(30)
  <2>2. queue' \in [Msgs -> Entries]
    BY <1>12, <2>1, ZenonT(30) DEF HandleAck, Entries, Statuses
  <2>3. StatusWrite(m, "delivered") \in Writes
    BY <2>1, ZenonT(30) DEF StatusWrite, Writes
  <2>4. QED
    BY <1>0, <1>12, <2>2, <2>3, AppendTyped, ZenonT(30)
    DEF HandleAck, SessionsNamed
<1>13. ASSUME NEW a, HandleAppAck(a) PROVE TypeInv'
  <2> DEFINE match == {x \in Msgs : AppAckMatches(x, a)}
             m == First(match)
  <2>1. m \in Msgs
    <3>1. match \subseteq Nat /\ match # {}
      BY <1>13 DEF Msgs, HandleAppAck
    <3>2. m \in match
      BY <3>1, FirstIn, Zenon
    <3>3. QED
      BY <3>2, ZenonT(30)
  <2>2. queue' \in [Msgs -> Entries]
    BY <1>13, <2>1, ZenonT(30) DEF HandleAppAck, Entries, Statuses
  <2>3. StatusWrite(m, "acknowledged") \in Writes
    BY <2>1, ZenonT(30) DEF StatusWrite, Writes
  <2>4. QED
    BY <1>0, <1>13, <2>2, <2>3, AppendTyped, ZenonT(30)
    DEF HandleAppAck, SessionsNamed
<1>14. ASSUME NEW y \in SyncsSent, HandleSync(y) PROVE TypeInv'
  <2>1. y.peer \in Peers /\ y.sid \in Sids
    BY <1>14, ZenonT(30) DEF SyncsSent, Packets, DataPackets
  <2>2. queue' \in [Msgs -> Entries]
    <3>1. \A e \in Entries : [e EXCEPT !.timed = TRUE] \in Entries
      BY Zenon DEF Entries
    <3>2. QED
      BY <1>14, <3>1, ZenonT(30) DEF HandleSync
  <2>3. net' \subseteq Packets
    <3>1. \A m \in Msgs :
              DataPacket(y.peer, y.sid, queue[m].seq, m, "sync") \in Packets
      BY <2>1, ZenonT(30) DEF DataPacket, Packets, DataPackets, Entries
    <3>2. QED
      BY <1>14, <3>1, ZenonT(30) DEF HandleSync, Send
  <2>4. QED
    BY <1>0, <1>14, <2>2, <2>3, ZenonT(30) DEF HandleSync, SessionsNamed
<1>15. QED
  BY <1>1, <1>2, <1>3, <1>4, <1>5, <1>6, <1>7, <1>8, <1>9, <1>10, <1>11, <1>12,
     <1>13, <1>14, ZenonT(30)
  DEF SenderWorks, SenderHears

\* The steps of the receiving nodes keep the types.
LEMMA ReceiverTypeStep ==
    ASSUME TypeInv, (\E d \in DataSent : HandleData(d)) \/ ReceiverWorks,
           UNCHANGED <<senderVars, handshakeVars>>
    PROVE  TypeInv'
<1> USE DEF TypeInv, TypeOK, ReceiverTypeOK
<1>0. /\ SenderTypeOK' /\ SessionsNamed'
      /\ nextSid' \in [Peers -> 1..(MaxSid + 1)]
      /\ offer' \in [Peers -> Offers] /\ budget' \in [Faults -> Nat]
  BY ZenonT(30) DEF senderVars, handshakeVars, SenderTypeOK, SessionsNamed
<1>1. ASSUME NEW d \in DataSent, HandleData(d) PROVE TypeInv'
  <2>1. /\ d.peer \in Peers /\ d.sid \in Sids /\ d.seq \in Nat
        /\ d.msg \in Msgs
    BY Zenon DEF DataSent, Packets, DataPackets
  <2>2. RecvSeqWrite(d.sid, d.seq, d.msg) \in RWrites
    BY <2>1, ZenonT(30) DEF RecvSeqWrite, RWrites
  <2>3. rWrites' \in [Peers -> Seq(RWrites)]
    BY <1>1, <2>1, <2>2, AppendTyped, ZenonT(30) DEF HandleData
  <2>4. QED
    BY <1>0, <1>1, <2>1, <2>3, Zenon DEF HandleData
<1>2. ASSUME NEW p \in Peers, RecvRowSaved(p) PROVE TypeInv'
  <2> DEFINE w == Head(rWrites[p])
  <2>1. w \in RWrites /\ Tail(rWrites[p]) \in Seq(RWrites)
    BY <1>2, HeadAndTail, ZenonT(30) DEF RecvRowSaved
  <2>2. w.sid \in Sids /\ w.seq \in Nat
    BY <2>1, ZenonT(30) DEF RWrites
  <2>3. rWrites' \in [Peers -> Seq(RWrites)]
    BY <1>2, <2>1, ZenonT(30) DEF RecvRowSaved
  <2>4. recvRow' \in [Peers -> [Sids -> Nat \cup {NoRow}]]
    BY <1>2, <2>2, ZenonT(30) DEF RecvRowSaved
  <2>5. syncing' \in [Peers -> SUBSET Sids]
    BY <1>2, <2>2, ZenonT(30) DEF RecvRowSaved
  <2>6. QED
    BY <1>0, <1>2, <2>3, <2>4, <2>5, ZenonT(30) DEF RecvRowSaved
<1>3. ASSUME NEW p \in Peers, NEW k \in Sids, SendSync(p, k) PROVE TypeInv'
  <2>1. SyncPacket(p, k, recvSeq[p][k]) \in Packets
    BY SMTT(30) DEF SyncPacket, Packets
  <2>2. QED
    BY <1>0, <1>3, <2>1, ZenonT(30) DEF SendSync, Send
<1>4. ASSUME NEW p \in Peers, RecvSeqSavedAndAcked(p) PROVE TypeInv'
  <2> DEFINE w == Head(rWrites[p])
  <2>1. w \in RWrites /\ Tail(rWrites[p]) \in Seq(RWrites)
    BY <1>4, HeadAndTail, ZenonT(30) DEF RecvSeqSavedAndAcked
  <2>2. w.sid \in Sids /\ w.seq \in Nat /\ w.msg \in Msgs
    <3>1. w.op = "recv"
      BY <1>4, ZenonT(30) DEF RecvSeqSavedAndAcked
    <3>2. w \in [op : {"recv"}, sid : Sids, seq : Nat, msg : Msgs]
      <4>1. w \notin [op : {"row"}, sid : Sids, seq : Nat]
        BY <3>1, ZenonT(30)
      <4>2. QED
        BY <2>1, <4>1, ZenonT(30) DEF RWrites
    <3>3. QED
      BY <3>2, ZenonT(30)
  <2>3. [sid |-> w.sid, seq |-> w.seq, msg |-> w.msg] \in Received
    BY <2>2, ZenonT(30) DEF Received
  <2>4. AckPacket(p, w.sid, w.seq) \in Packets
    BY <2>2, ZenonT(30) DEF AckPacket, Packets
  <2>5. rWrites' \in [Peers -> Seq(RWrites)]
    BY <1>4, <2>1, ZenonT(30) DEF RecvSeqSavedAndAcked
  <2>6. recvRow' \in [Peers -> [Sids -> Nat \cup {NoRow}]]
    BY <1>4, <2>2, ZenonT(30) DEF RecvSeqSavedAndAcked
  <2>7. logging' \in [Peers -> Seq(Received)]
    BY <1>4, <2>3, SMTT(30) DEF RecvSeqSavedAndAcked
  <2>8. QED
    BY <1>0, <1>4, <2>4, <2>5, <2>6, <2>7, ZenonT(30)
    DEF RecvSeqSavedAndAcked, Send
<1>5. ASSUME NEW p \in Peers, LogAndShow(p) PROVE TypeInv'
  <2> DEFINE r == Head(logging[p])
  <2>1. r \in Received
    BY <1>5, HeadAndTail, ZenonT(30) DEF LogAndShow
  <2>2. AppAckPacket(p, r.sid, r.seq) \in Packets
    BY <2>1, ZenonT(30) DEF AppAckPacket, Packets, Received
  <2>3. log' \in [Peers -> Seq(Received)]
    BY <1>5, <2>1, AppendTyped, ZenonT(30) DEF LogAndShow
  <2>4. QED
    <3>1. net' = net \cup {AppAckPacket(p, r.sid, r.seq)}
      BY <1>5, ZenonT(30) DEF LogAndShow, Send
    <3>2. net' \subseteq Packets
      BY <2>2, <3>1, Zenon
    <3>3. logging' \in [Peers -> Seq(Received)]
      BY <1>5, SMTT(30) DEF LogAndShow
    <3>4. QED
      BY <1>0, <1>5, <2>3, <3>2, <3>3, ZenonT(30) DEF LogAndShow
<1>6. QED
  BY <1>1, <1>2, <1>3, <1>4, <1>5, Zenon DEF ReceiverWorks

\* Registering a session keeps the types at the sender ...
LEMMA RegisterSendTypes ==
    ASSUME TypeInv, NEW p \in Peers, NEW k \in Sids, RegisterSend(p, k)
    PROVE  /\ SenderTypeOK' /\ net' \subseteq Packets
           /\ \A q \in Peers : \A j \in Sids :
                 flush'[q][j].stage = "flushing" => flush'[q][j].sid # 0
<1> USE DEF TypeInv, TypeOK, SenderTypeOK
<1>1. Larger(1, sendFloor[p]) \in Nat
  BY ZenonT(30) DEF Larger
<1>2. RowWrite(p, k, Larger(1, sendFloor[p])) \in Writes
  BY <1>1, ZenonT(30) DEF RowWrite, Writes
<1>3. flush' \in [Peers -> [Sids -> Flushes]]
  <2>1. \A f \in Flushes : [f EXCEPT !.stage = "saving"] \in Flushes
    BY Zenon DEF Flushes
  <2>2. QED
    BY <2>1, ZenonT(30) DEF RegisterSend
<1>4. ASSUME NEW q \in Peers, NEW j \in Sids, flush'[q][j].stage = "flushing"
      PROVE  flush'[q][j].sid # 0
  <2>1. flush'[p][k].stage = "saving"
    BY DEF RegisterSend, Flushes
  <2>2. q # p \/ j # k
    BY <1>4, <2>1, ZenonT(30)
  <2>3. flush'[q][j] = flush[q][j]
    BY <2>2, ZenonT(30) DEF RegisterSend
  <2>4. QED
    BY <1>4, <2>3, ZenonT(30) DEF SessionsNamed
<1>5. sSession' \in [Peers -> 0..MaxSid]
  BY WireAssumption, SMTT(30) DEF RegisterSend, Sids
<1>6. sendSeq' \in [Peers -> [Sids -> Nat]]
  BY <1>1, ZenonT(30) DEF RegisterSend
<1>7. QED
  BY <1>2, <1>3, <1>4, <1>5, <1>6, AppendTyped, ZenonT(30) DEF RegisterSend

\* ... and at a receiver.
LEMMA RegisterRecvTypes ==
    ASSUME TypeInv, NEW p \in Peers, NEW k \in Sids, RegisterRecv(p, k)
    PROVE  ReceiverTypeOK' /\ net' \subseteq Packets
<1> USE DEF TypeInv, TypeOK, ReceiverTypeOK
<1>1. RecvRowWrite(k, recvFloor[p]) \in RWrites
  BY ZenonT(30) DEF RecvRowWrite, RWrites
<1>2. rWrites' \in [Peers -> Seq(RWrites)]
  BY <1>1, AppendTyped, ZenonT(30) DEF RegisterRecv
<1>3. recvSeq' \in [Peers -> [Sids -> Nat]]
  BY ZenonT(30) DEF RegisterRecv
<1>4. rSession' \in [Peers -> 0..MaxSid]
  BY WireAssumption, SMTT(30) DEF RegisterRecv, Sids
<1>5. QED
  BY <1>2, <1>3, <1>4, ZenonT(30) DEF RegisterRecv

\* Handshakes keep the types.
LEMMA HandshakeTypeStep ==
    ASSUME TypeInv, Handshakes
    PROVE  TypeInv'
<1> USE DEF TypeInv, TypeOK
<1>1. ASSUME NEW p \in Peers, SenderAnswersHello(p) PROVE TypeInv'
  <2>1. nextSid[p] \in Sids /\ RegisterSend(p, nextSid[p])
    BY <1>1, ZenonT(30) DEF SenderAnswersHello
  <2>2. /\ SenderTypeOK' /\ net' \subseteq Packets
        /\ \A q \in Peers : \A j \in Sids :
              flush'[q][j].stage = "flushing" => flush'[q][j].sid # 0
    BY <2>1, RegisterSendTypes, ZenonT(30)
  <2>3. ReceiverTypeOK'
    BY <1>1, ZenonT(30) DEF SenderAnswersHello, receiverVars, ReceiverTypeOK
  <2>4. nextSid' \in [Peers -> 1..(MaxSid + 1)]
    BY <1>1, <2>1, WireAssumption, SMTT(30) DEF SenderAnswersHello, Sids
  <2>5. [to |-> "receiver", sid |-> nextSid[p]] \in Offers
    BY <2>1, WireAssumption, SMTT(30) DEF Offers, Sids
  <2>6. SessionsNamed'
    BY <1>1, <2>1, <2>2, SMTT(30) DEF SenderAnswersHello, SessionsNamed, Sids
  <2>7. QED
    <3>1. offer' \in [Peers -> Offers] /\ UNCHANGED budget
      BY <1>1, <2>5, ZenonT(30) DEF SenderAnswersHello
    <3>2. QED
      BY <2>2, <2>3, <2>4, <2>6, <3>1, ZenonT(30)
<1>2. ASSUME NEW p \in Peers, ReceiverAnswersHello(p) PROVE TypeInv'
  <2>1. nextSid[p] \in Sids /\ RegisterRecv(p, nextSid[p])
    BY <1>2, ZenonT(30) DEF ReceiverAnswersHello
  <2>2. ReceiverTypeOK' /\ net' \subseteq Packets
    BY <2>1, RegisterRecvTypes, ZenonT(30)
  <2>3. SenderTypeOK' /\ UNCHANGED flush
    BY <1>2, ZenonT(30) DEF ReceiverAnswersHello, senderVars, SenderTypeOK
  <2>4. nextSid' \in [Peers -> 1..(MaxSid + 1)]
    BY <1>2, <2>1, WireAssumption DEF ReceiverAnswersHello, Sids
  <2>5. [to |-> "sender", sid |-> nextSid[p]] \in Offers
    BY <2>1, WireAssumption, SMTT(30) DEF Offers, Sids
  <2>6. SessionsNamed'
    BY <1>2, <2>1, <2>3, SMTT(30) DEF ReceiverAnswersHello, SessionsNamed, Sids
  <2>7. QED
    BY <1>2, <2>2, <2>3, <2>4, <2>5, <2>6, ZenonT(30) DEF ReceiverAnswersHello
<1>3. ASSUME NEW p \in Peers, SenderTakesHelloAck(p) PROVE TypeInv'
  <2>1. offer[p].sid \in Sids /\ RegisterSend(p, offer[p].sid)
    BY <1>3, WireAssumption, SidsPositive, ZenonT(30)
    DEF SenderTakesHelloAck, SessionsNamed, Offers, Sids
  <2>2. /\ SenderTypeOK' /\ net' \subseteq Packets
        /\ \A q \in Peers : \A j \in Sids :
              flush'[q][j].stage = "flushing" => flush'[q][j].sid # 0
    BY <2>1, RegisterSendTypes, ZenonT(30)
  <2>3. ReceiverTypeOK'
    BY <1>3, ZenonT(30) DEF SenderTakesHelloAck, receiverVars, ReceiverTypeOK
  <2>4. NoOffer \in Offers
    BY NothingsTyped, ZenonT(30)
  <2>5. SessionsNamed'
    <3>1. offer' = [offer EXCEPT ![p] = NoOffer] /\ offer \in [Peers -> Offers]
      BY <1>3, ZenonT(30) DEF SenderTakesHelloAck
    <3>2. \A q \in Peers : offer'[q].to # "none" => offer'[q].sid # 0
      BY <3>1, ZenonT(30) DEF SessionsNamed, NoOffer
    <3>3. QED
      BY <2>2, <3>2, ZenonT(30) DEF SessionsNamed
  <2>6. QED
    BY <1>3, <2>2, <2>3, <2>4, <2>5, ZenonT(30) DEF SenderTakesHelloAck
<1>4. ASSUME NEW p \in Peers, ReceiverTakesHelloAck(p) PROVE TypeInv'
  <2>1. offer[p].sid \in Sids /\ RegisterRecv(p, offer[p].sid)
    BY <1>4, WireAssumption, SidsPositive, ZenonT(30)
    DEF ReceiverTakesHelloAck, SessionsNamed, Offers, Sids
  <2>2. ReceiverTypeOK' /\ net' \subseteq Packets
    BY <2>1, RegisterRecvTypes, ZenonT(30)
  <2>3. SenderTypeOK' /\ UNCHANGED flush
    BY <1>4, ZenonT(30) DEF ReceiverTakesHelloAck, senderVars, SenderTypeOK
  <2>4. NoOffer \in Offers
    BY NothingsTyped, ZenonT(30)
  <2>5. SessionsNamed'
    BY <1>4, <2>3, Zenon DEF ReceiverTakesHelloAck, SessionsNamed, NoOffer
  <2>6. QED
    BY <1>4, <2>2, <2>3, <2>4, <2>5, ZenonT(30) DEF ReceiverTakesHelloAck
<1>5. QED
  BY <1>1, <1>2, <1>3, <1>4, ZenonT(30) DEF Handshakes

\* Lost sessions and restarts keep the types.
LEMMA FaultTypeStep ==
    ASSUME TypeInv, FaultsHappen
    PROVE  TypeInv'
<1> USE DEF TypeInv, TypeOK
<1>0. ASSUME NEW f \in Faults, Spend(f) PROVE budget' \in [Faults -> Nat]
  BY <1>0, SMTT(30) DEF Spend
<1>1. ASSUME NEW p \in Peers, SenderLosesPeer(p) PROVE TypeInv'
  <2>1. budget' \in [Faults -> Nat]
    BY <1>0, <1>1, ZenonT(30) DEF SenderLosesPeer, Faults
  <2>2. ReceiverTypeOK'
    BY <1>1, ZenonT(30) DEF SenderLosesPeer, receiverVars, ReceiverTypeOK
  <2>3. SenderTypeOK'
    BY <1>1, WireAssumption, SMTT(30)
    DEF SenderLosesPeer, DropSendSession, SenderTypeOK
  <2>4. QED
    BY <1>1, <2>1, <2>2, <2>3, Zenon
    DEF SenderLosesPeer, DropSendSession, SessionsNamed
<1>2. ASSUME NEW p \in Peers, ReceiverLosesPeer(p) PROVE TypeInv'
  <2>1. budget' \in [Faults -> Nat]
    BY <1>0, <1>2, ZenonT(30) DEF ReceiverLosesPeer, Faults
  <2>2. ReceiverTypeOK'
    BY <1>2, WireAssumption, SMTT(30)
    DEF ReceiverLosesPeer, DropRecvSession, ReceiverTypeOK
  <2>3. SenderTypeOK' /\ UNCHANGED flush
    BY <1>2, ZenonT(30) DEF ReceiverLosesPeer, senderVars, SenderTypeOK
  <2>4. QED
    BY <1>2, <2>1, <2>2, <2>3, Zenon
    DEF ReceiverLosesPeer, DropRecvSession, SessionsNamed
<1>3. ASSUME NEW o \in Offers, NEW side
      PROVE  /\ Forget(o, side) \in Offers
             /\ Forget(o, side).to # "none" => Forget(o, side) = o
  BY WireAssumption, SMTT(30) DEF Forget, NoOffer, Offers
<1>4. ASSUME NEW p \in Peers, ReceiverCrashes(p) PROVE TypeInv'
  <2>1. budget' \in [Faults -> Nat]
    BY <1>0, <1>4, ZenonT(30) DEF ReceiverCrashes, Faults
  <2>2. SavedRecv(p) \in Nat
    BY FloorTypes, ZenonT(30)
  <2>3. ReceiverTypeOK'
    BY <1>4, <2>2, WireAssumption, SMTT(30)
    DEF ReceiverCrashes, RestartReceiver, ReceiverTypeOK
  <2>4. SenderTypeOK' /\ UNCHANGED flush
    BY <1>4, ZenonT(30) DEF ReceiverCrashes, senderVars, SenderTypeOK
  <2>5. offer' \in [Peers -> Offers] /\ SessionsNamed'
    BY <1>3, <1>4, <2>4, ZenonT(30) DEF ReceiverCrashes, SessionsNamed
  <2>6. QED
    BY <1>4, <2>1, <2>3, <2>4, <2>5, ZenonT(30)
    DEF ReceiverCrashes, RestartReceiver
<1>5. CASE SenderCrashes
  <2>1. budget' \in [Faults -> Nat]
    BY <1>0, <1>5, ZenonT(30) DEF SenderCrashes, Faults
  <2>2. ReceiverTypeOK'
    BY <1>5, ZenonT(30) DEF SenderCrashes, receiverVars, ReceiverTypeOK
  <2>3. \A m \in Msgs : Restored(queueRow[m]) \in Entries
    BY ZenonT(30) DEF Restored, Absent, SenderTypeOK, Rows, Entries, Statuses
  <2>4. \A p \in Peers : SavedSend(p) \in Nat
    BY FloorTypes, ZenonT(30)
  <2>5. Idle \in Dispatches /\ NoFlush \in Flushes /\ <<>> \in Seq(Writes)
    BY NothingsTyped, SMTT(30)
  <2>6. SenderTypeOK'
    BY <1>5, <2>3, <2>4, <2>5, WireAssumption, SMTT(30)
    DEF SenderCrashes, RestartSender, SenderTypeOK
  <2>7. offer' \in [Peers -> Offers]
    BY <1>3, <1>5, ZenonT(30) DEF SenderCrashes
  <2>8. SessionsNamed'
    BY <1>3, <1>5, ZenonT(30)
    DEF SenderCrashes, RestartSender, NoFlush, SessionsNamed
  <2>9. QED
    BY <1>5, <2>1, <2>2, <2>6, <2>7, <2>8, ZenonT(30)
    DEF SenderCrashes, RestartSender
<1>6. QED
  BY <1>1, <1>2, <1>4, <1>5, ZenonT(30) DEF FaultsHappen

\* Every step keeps the types.
LEMMA TypeStep == TypeInv /\ [Next]_vars => TypeInv'
<1> SUFFICES ASSUME TypeInv, [Next]_vars PROVE TypeInv'
  BY ZenonT(30)
<1>1. CASE UNCHANGED vars
  BY <1>1, ZenonT(30)
  DEF vars, senderVars, receiverVars, TypeInv, TypeOK, SenderTypeOK,
      ReceiverTypeOK, SessionsNamed
<1>2. CASE Next
  BY <1>2, SenderTypeStep, ReceiverTypeStep, HandshakeTypeStep, FaultTypeStep,
     ZenonT(30)
  DEF Next
<1>3. QED
  BY <1>1, <1>2, ZenonT(30)

\* Every variable of the model keeps its type: in particular the floors read
\* back by start are numbers whatever rows a crash left behind.
THEOREM TypeCorrect == Spec => []TypeOK
<1>1. Init => TypeInv
  BY TypeInit, ZenonT(30)
<1>2. TypeInv /\ [Next]_vars => TypeInv'
  BY TypeStep, ZenonT(30)
<1>3. TypeInv => TypeOK
  BY ZenonT(30) DEF TypeInv
<1>4. QED
  BY <1>1, <1>2, <1>3, PTL DEF Spec
-----------------------------------------------------------------------------
(***************************************************************************)
(* Who sends what, and the packets that build_data_packet has numbered.    *)
(***************************************************************************)
Carries(w) == w.op \in {"send", "mseq", "pending"}

\* Packets numbered by build_data_packet: sent, or waiting for their writes.
IssuedIn(ws, ds) ==
    {d \in ds : d.type = "DATA" /\ d.via = "queue"}
    \cup {ws[i].pkt : i \in {j \in 1..Len(ws) : Carries(ws[j])}}

\* A queue of writes gains no packet when its head is dropped.
LEMMA IssuedTail ==
    ASSUME NEW ws \in Seq(Writes), ws # <<>>, NEW ds
    PROVE  IssuedIn(Tail(ws), ds) \subseteq IssuedIn(ws, ds)
<1>1. \A i \in 1..Len(Tail(ws)) : /\ Tail(ws)[i] = ws[i + 1]
                                  /\ i + 1 \in 1..Len(ws)
  OBVIOUS
<1>2. QED
  BY <1>1, ZenonT(30) DEF IssuedIn

\* The packet a write carries is the only one that joins.
LEMMA IssuedAppend ==
    ASSUME NEW ws \in Seq(Writes), NEW w, NEW ds
    PROVE  /\ Carries(w) => IssuedIn(Append(ws, w), ds)
                               \subseteq IssuedIn(ws, ds) \cup {w.pkt}
           /\ ~Carries(w) => IssuedIn(Append(ws, w), ds)
                                \subseteq IssuedIn(ws, ds)
<1>1. \A i \in 1..Len(Append(ws, w)) :
          \/ i \in 1..Len(ws) /\ Append(ws, w)[i] = ws[i]
          \/ Append(ws, w)[i] = w
  OBVIOUS
<1>2. QED
  BY <1>1, ZenonT(30) DEF IssuedIn

\* The packet of the write at the head of the queue has been numbered.
LEMMA HeadCarried ==
    ASSUME NEW ws \in Seq(Writes), ws # <<>>, NEW ds, Carries(Head(ws))
    PROVE  Head(ws).pkt \in IssuedIn(ws, ds) /\ Head(ws).pkt \in DataPackets
<1>1. Head(ws) = ws[1] /\ 1 \in 1..Len(ws) /\ ws[1] \in Writes
  OBVIOUS
<1>2. Carries(ws[1]) /\ ws[1].op \in {"send", "mseq", "pending"}
  BY <1>1, ZenonT(30) DEF Carries
<1>3. ws[1].pkt \in IssuedIn(ws, ds)
  BY <1>1, <1>2, ZenonT(30) DEF IssuedIn
<1>4. ws[1].pkt \in DataPackets
  BY <1>1, <1>2, WriteParts, ZenonT(30)
<1>5. QED
  BY <1>1, <1>3, <1>4, ZenonT(30)

\* The receivers add no DATA packet to the network.
LEMMA ReceiversSendNoData ==
    ASSUME (\E d \in DataSent : HandleData(d)) \/ ReceiverWorks
    PROVE  \A d \in net' \ net : d.type # "DATA"
<1>1. ASSUME NEW p \in Peers, RecvRowSaved(p) PROVE UNCHANGED net
  BY <1>1, ZenonT(30) DEF RecvRowSaved
<1>2. ASSUME NEW p \in Peers, NEW k \in Sids, SendSync(p, k)
      PROVE  \A d \in net' \ net : d.type = "SYNC"
  <2>1. net' = net \cup {SyncPacket(p, k, recvSeq[p][k])}
    BY <1>2, ZenonT(30) DEF SendSync, Send
  <2>2. SyncPacket(p, k, recvSeq[p][k]).type = "SYNC"
    BY ZenonT(30) DEF SyncPacket
  <2>3. QED
    BY <2>1, <2>2, ZenonT(30)
<1>3. ASSUME NEW p \in Peers, RecvSeqSavedAndAcked(p)
      PROVE  \A d \in net' \ net : d.type = "ACK"
  <2> DEFINE a == AckPacket(p, Head(rWrites[p]).sid, Head(rWrites[p]).seq)
  <2>1. net' = net \cup {a}
    BY <1>3, ZenonT(30) DEF RecvSeqSavedAndAcked, Send
  <2>2. a.type = "ACK"
    BY ZenonT(30) DEF AckPacket
  <2>3. QED
    BY <2>1, <2>2, ZenonT(30)
<1>4. ASSUME NEW p \in Peers, LogAndShow(p)
      PROVE  \A d \in net' \ net : d.type = "APP_ACK"
  <2> DEFINE a == AppAckPacket(p, Head(logging[p]).sid, Head(logging[p]).seq)
  <2>1. net' = net \cup {a}
    BY <1>4, ZenonT(30) DEF LogAndShow, Send
  <2>2. a.type = "APP_ACK"
    BY ZenonT(30) DEF AppAckPacket
  <2>3. QED
    BY <2>1, <2>2, ZenonT(30)
<1>5. ASSUME NEW d, HandleData(d) PROVE UNCHANGED net
  BY <1>5, ZenonT(30) DEF HandleData
<1>6. QED
  BY <1>1, <1>2, <1>3, <1>4, <1>5, ZenonT(30) DEF ReceiverWorks

\* The sending node sends DATA only.
LEMMA SenderSendsData ==
    ASSUME TypeInv, SendMessage \/ SenderWorks \/ SenderHears
    PROVE  /\ net \subseteq net'
           /\ \A d \in net' \ net : d.type = "DATA"
           /\ AcksSent' \subseteq AcksSent
<1>1. ASSUME PendingSavedAndSent
      PROVE  net \subseteq net' /\ \A d \in net' \ net : d.type = "DATA"
  <2> DEFINE d == Head(writes).pkt
  <2>1. net' = net \cup {d}
    BY <1>1, ZenonT(30) DEF PendingSavedAndSent, Send
  <2>2. Head(writes) \in Writes /\ Head(writes).op = "pending"
    BY <1>1 DEF PendingSavedAndSent, TypeInv, TypeOK, SenderTypeOK
  <2>3. d.type = "DATA"
    BY <2>2, WriteParts, ZenonT(30) DEF DataPackets
  <2>4. QED
    BY <2>1, <2>3, ZenonT(30)
<1>2. ASSUME NEW y, HandleSync(y)
      PROVE  net \subseteq net' /\ \A d \in net' \ net : d.type = "DATA"
  BY <1>2 DEF HandleSync, Send, DataPacket
<1>3. ASSUME \/ SendMessage \/ MessageInserted \/ SendSeqSaved \/ MsgSeqSaved
             \/ StatusSaved \/ SendRowSaved \/ RetryScan \/ RetryNext
             \/ \E p \in Peers, k \in Sids : FlushStart(p, k) \/ FlushStep(p, k)
             \/ \E a \in AcksSent : HandleAck(a)
             \/ \E a \in AppAcksSent : HandleAppAck(a)
      PROVE  UNCHANGED net
  BY <1>3, ZenonT(30) DEF SendMessage, MessageInserted, SendSeqSaved, MsgSeqSaved,
              StatusSaved, SendRowSaved, RetryScan, RetryNext, FlushStart,
              FlushStep, HandleAck, HandleAppAck
<1>4. net \subseteq net' /\ \A d \in net' \ net : d.type = "DATA"
  BY <1>1, <1>2, <1>3, ZenonT(30) DEF SenderWorks, SenderHears
<1>5. QED
  BY <1>4, ZenonT(30) DEF AcksSent

-----------------------------------------------------------------------------
(***************************************************************************)
(* The sender's counters.  What makes SavedBeforeSent and QueueNumbersOnce *)
(* inductive is the order of the database thread's queue: the values that  *)
(* wait there for one session only grow, lie between the saved row and the *)
(* counter in memory, and the row is past the number of every packet whose *)
(* first write is done.                                                    *)
(***************************************************************************)
Sets(w, p, k) ==
    \/ w.op = "row" /\ w.peer = p /\ w.sid = k
    \/ w.op = "send" /\ w.pkt.peer = p /\ w.pkt.sid = k

\* A queue of writes ws fits the rows and the counters it is applied to.
QueueOK(ws, row, ctr) ==
    /\ \A i \in 1..Len(ws) : \A p \in Peers : \A k \in Sids :
          Sets(ws[i], p, k) => /\ 1 =< ws[i].val
                               /\ row[p][k] =< ws[i].val
                               /\ ws[i].val =< ctr[p][k]
    /\ \A i \in 1..Len(ws) :
          ws[i].op = "send" => ws[i].pkt.seq < ws[i].val
    /\ \A i \in 1..Len(ws) :
          ws[i].op \in {"mseq", "pending"} =>
              ws[i].pkt.seq < row[ws[i].pkt.peer][ws[i].pkt.sid]
    /\ \A i, j \in 1..Len(ws) : \A p \in Peers : \A k \in Sids :
          (i < j /\ Sets(ws[i], p, k) /\ Sets(ws[j], p, k)) =>
              ws[i].val =< ws[j].val

Counters == [Peers -> [Sids -> Nat]]

LEMMA CounterTyped ==
    ASSUME NEW ctr \in Counters, NEW p \in Peers, NEW k \in Sids
    PROVE  ctr[p][k] \in Nat
  BY DEF Counters

\* What a write sets a row to is a number.
LEMMA SetsValue ==
    ASSUME NEW w \in Writes, NEW p, NEW k, Sets(w, p, k)
    PROVE  w.val \in Nat
  BY WriteParts, ZenonT(30) DEF Sets

\* A write that has been executed leaves the queue.
LEMMA QueueDrop ==
    ASSUME NEW ws \in Seq(Writes), ws # <<>>, NEW row \in Counters,
           NEW ctr \in Counters, QueueOK(ws, row, ctr)
    PROVE  QueueOK(Tail(ws), row, ctr)
<1>1. /\ Len(Tail(ws)) = Len(ws) - 1
      /\ \A i \in 1..Len(Tail(ws)) : Tail(ws)[i] = ws[i + 1]
      /\ \A i \in 1..Len(Tail(ws)) : i + 1 \in 1..Len(ws)
  OBVIOUS
<1>2. QED
  BY <1>1 DEF QueueOK

\* A counter that grows still bounds the queue.
LEMMA QueueRaise ==
    ASSUME NEW ws \in Seq(Writes), NEW row \in Counters, NEW ctr \in Counters,
           NEW higher \in Counters, QueueOK(ws, row, ctr),
           \A p \in Peers : \A k \in Sids : ctr[p][k] =< higher[p][k]
    PROVE  QueueOK(ws, row, higher)
<1>1. ASSUME NEW i \in 1..Len(ws), NEW p \in Peers, NEW k \in Sids,
             Sets(ws[i], p, k)
      PROVE  ws[i].val =< higher[p][k]
  <2>1. ws[i].val \in Nat
    BY <1>1, WriteParts DEF Sets
  <2>2. ws[i].val =< ctr[p][k] /\ ctr[p][k] \in Nat /\ higher[p][k] \in Nat
    BY <1>1, ZenonT(30) DEF QueueOK, Counters
  <2>3. QED
    BY <2>1, <2>2, Successor, Ordered, ZenonT(30)
<1>2. QED
  BY <1>1, ZenonT(30) DEF QueueOK

\* A write joins the queue: if it sets a row, to no less than what the queue
\* ahead of it sets.
LEMMA QueueAdd ==
    ASSUME NEW ws \in Seq(Writes), NEW row \in Counters, NEW ctr \in Counters,
           QueueOK(ws, row, ctr), NEW w \in Writes,
           \A p \in Peers : \A k \in Sids : Sets(w, p, k) =>
               /\ 1 =< w.val /\ row[p][k] =< w.val /\ w.val =< ctr[p][k]
               /\ \A i \in 1..Len(ws) : Sets(ws[i], p, k) => ws[i].val =< w.val,
           w.op = "send" => w.pkt.seq < w.val,
           w.op \in {"mseq", "pending"} =>
               w.pkt.seq < row[w.pkt.peer][w.pkt.sid]
    PROVE  QueueOK(Append(ws, w), row, ctr)
<1> DEFINE vs == Append(ws, w)
<1>1. /\ Len(vs) = Len(ws) + 1
      /\ \A i \in 1..Len(ws) : vs[i] = ws[i]
      /\ vs[Len(ws) + 1] = w
      /\ Len(ws) \in Nat
  OBVIOUS
<1> HIDE DEF vs
<1>2. \A i \in 1..Len(vs) : i \in 1..Len(ws) \/ i = Len(ws) + 1
  BY <1>1
<1>3. ASSUME NEW i \in 1..Len(vs), NEW p \in Peers, NEW k \in Sids,
             Sets(vs[i], p, k)
      PROVE  1 =< vs[i].val /\ row[p][k] =< vs[i].val /\ vs[i].val =< ctr[p][k]
  BY <1>1, <1>2, <1>3, ZenonT(30) DEF QueueOK
<1>4. ASSUME NEW i \in 1..Len(vs)
      PROVE  /\ vs[i].op = "send" => vs[i].pkt.seq < vs[i].val
             /\ vs[i].op \in {"mseq", "pending"} =>
                    vs[i].pkt.seq < row[vs[i].pkt.peer][vs[i].pkt.sid]
  BY <1>1, <1>2, ZenonT(30) DEF QueueOK
<1>5. ASSUME NEW i \in 1..Len(vs), NEW j \in 1..Len(vs), NEW p \in Peers,
             NEW k \in Sids, i < j, Sets(vs[i], p, k), Sets(vs[j], p, k)
      PROVE  vs[i].val =< vs[j].val
  <2>1. i \in 1..Len(ws)
    BY <1>1, <1>2, <1>5, SMTT(30)
  <2>2. CASE j \in 1..Len(ws)
    BY <1>1, <1>5, <2>1, <2>2, ZenonT(30) DEF QueueOK
  <2>3. CASE j = Len(ws) + 1
    BY <1>1, <1>5, <2>1, <2>3, ZenonT(30)
  <2>4. QED
    BY <1>2, <2>2, <2>3, ZenonT(30)
<1>6. QED
  BY <1>3, <1>4, <1>5, ZenonT(30) DEF QueueOK, vs

\* The write at the head of the queue is executed: the row it sets grows.
LEMMA QueueExecute ==
    ASSUME NEW ws \in Seq(Writes), ws # <<>>, NEW row \in Counters,
           NEW ctr \in Counters, QueueOK(ws, row, ctr),
           NEW p \in Peers, NEW k \in Sids, Sets(Head(ws), p, k),
           NEW new, new = [row EXCEPT ![p][k] = Head(ws).val]
    PROVE  /\ QueueOK(Tail(ws), new, ctr)
           /\ new \in Counters
           /\ \A q \in Peers : \A j \in Sids : row[q][j] =< new[q][j]
           /\ new[p][k] =< ctr[p][k]
<1> DEFINE w == Head(ws)
           vs == Tail(ws)
<1>1. /\ w = ws[1] /\ 1 \in 1..Len(ws) /\ w \in Writes
      /\ Len(vs) = Len(ws) - 1
      /\ \A i \in 1..Len(vs) : vs[i] = ws[i + 1] /\ i + 1 \in 1..Len(ws) /\ 1 < i + 1
      /\ vs \in Seq(Writes)
      /\ \A i \in 1..Len(vs) : vs[i] \in Writes
  OBVIOUS
<1>2. w.val \in Nat /\ row[p][k] =< w.val /\ w.val =< ctr[p][k]
  BY <1>1, WriteParts, ZenonT(30) DEF QueueOK, Sets
<1>3. new \in Counters /\ new[p][k] = w.val
  BY <1>2, ZenonT(30) DEF Counters
<1>4. \A q \in Peers : \A j \in Sids : q # p \/ j # k => new[q][j] = row[q][j]
  BY ZenonT(30) DEF Counters
<1>5. \A q \in Peers : \A j \in Sids : row[q][j] =< new[q][j]
  BY <1>2, <1>3, <1>4 DEF Counters
<1> HIDE DEF w, vs
<1>6. ASSUME NEW i \in 1..Len(vs), NEW q \in Peers, NEW j \in Sids,
             Sets(vs[i], q, j)
      PROVE  1 =< vs[i].val /\ new[q][j] =< vs[i].val /\ vs[i].val =< ctr[q][j]
  <2>1. CASE q = p /\ j = k
    BY <1>1, <1>3, <1>6, <2>1, ZenonT(30) DEF QueueOK, w, vs
  <2>2. CASE q # p \/ j # k
    BY <1>1, <1>4, <1>6, <2>2, ZenonT(90) DEF QueueOK, vs
  <2>3. QED
    BY <2>1, <2>2, ZenonT(30)
<1>7. ASSUME NEW i \in 1..Len(vs), vs[i].op \in {"mseq", "pending"}
      PROVE  vs[i].pkt.seq < new[vs[i].pkt.peer][vs[i].pkt.sid]
  <2> DEFINE d == vs[i].pkt
  <2>1. d \in DataPackets
    BY <1>1, <1>7, WriteParts, ZenonT(30)
  <2>2. d.seq \in Nat /\ d.peer \in Peers /\ d.sid \in Sids
    BY <2>1, ZenonT(30) DEF DataPackets
  <2>3. d.seq < row[d.peer][d.sid]
    BY <1>1, <1>7, ZenonT(30) DEF QueueOK, vs
  <2>4. /\ row[d.peer][d.sid] \in Nat /\ new[d.peer][d.sid] \in Nat
        /\ row[d.peer][d.sid] =< new[d.peer][d.sid]
    BY <1>3, <1>5, <2>2, CounterTyped, ZenonT(30)
  <2>5. QED
    <3> HIDE DEF d
    <3>1. d.seq < new[d.peer][d.sid]
      BY <2>2, <2>3, <2>4, BelowLarger, ZenonT(30)
    <3>2. QED
      BY <3>1, ZenonT(30) DEF d
<1>8. ASSUME NEW i \in 1..Len(vs), vs[i].op = "send"
      PROVE  vs[i].pkt.seq < vs[i].val
  BY <1>1, <1>8, ZenonT(30) DEF QueueOK, vs
<1>9. ASSUME NEW i \in 1..Len(vs), NEW l \in 1..Len(vs), NEW q \in Peers,
             NEW j \in Sids, i < l, Sets(vs[i], q, j), Sets(vs[l], q, j)
      PROVE  vs[i].val =< vs[l].val
  <2>1. i + 1 < l + 1
    BY <1>9
  <2>2. QED
    BY <1>1, <1>9, <2>1, ZenonT(30) DEF QueueOK, vs
<1>10. QED
  BY <1>2, <1>3, <1>5, <1>6, <1>7, <1>8, <1>9, ZenonT(30) DEF QueueOK, vs

(***************************************************************************)
(* Session k of p has not been registered by the sender yet.               *)
(***************************************************************************)
SendFresh(p, k) ==
    k >= nextSid[p] \/ (offer[p].to = "sender" /\ offer[p].sid = k)

Unique(S) ==
    \A d, e \in S : (d.peer = e.peer /\ d.sid = e.sid /\ d.seq = e.seq)
                        => d.msg = e.msg

RowsBehind(row, ctr) == \A p \in Peers : \A k \in Sids : row[p][k] =< ctr[p][k]

\* A session the sender works with has been registered, and an offer names a
\* session that has been drawn.
InUse ==
    /\ \A p \in Peers : sSession[p] # 0 => ~SendFresh(p, sSession[p])
    /\ \A m \in Msgs : inserting[m] # 0 => ~SendFresh(To[m], inserting[m])
    /\ \A p \in Peers : \A k \in Sids :
          flush[p][k].stage = "flushing" => ~SendFresh(p, flush[p][k].sid)
    /\ \A p \in Peers : offer[p].to # "none" => offer[p].sid < nextSid[p]

FreshUnused ==
    \A p \in Peers : \A k \in Sids : SendFresh(p, k) => sendSeq[p][k] = 0

\* What SavedBeforeSent and QueueNumbersOnce rest on.
NumbersOK ==
    /\ RowsBehind(sendRow, sendSeq)
    /\ QueueOK(writes, sendRow, sendSeq)
    /\ SavedBeforeSent
    /\ Unique(IssuedIn(writes, net))

SendInv == NumbersOK /\ FreshUnused /\ InUse

\* Every number handed out is below the counter it came from.
LEMMA IssuedBelow ==
    ASSUME TypeInv, NumbersOK, NEW d \in IssuedIn(writes, net)
    PROVE  /\ d.peer \in Peers /\ d.sid \in Sids /\ d.seq \in Nat
           /\ d.seq < sendSeq[d.peer][d.sid]
<1>1. CASE d \in net /\ d.type = "DATA" /\ d.via = "queue"
  <2>1. d.peer \in Peers /\ d.sid \in Sids /\ d.seq \in Nat
    BY <1>1, ZenonT(30) DEF Packets, DataPackets, TypeInv, TypeOK, SenderTypeOK
  <2>2. d.seq < sendRow[d.peer][d.sid]
    BY <1>1, <2>1, ZenonT(30) DEF NumbersOK, SavedBeforeSent, DataSent
  <2>3. sendRow[d.peer][d.sid] =< sendSeq[d.peer][d.sid]
    BY <2>1, ZenonT(30) DEF NumbersOK, RowsBehind
  <2>4. QED
    <3>1. /\ sendRow[d.peer][d.sid] \in Nat /\ sendSeq[d.peer][d.sid] \in Nat
          /\ d.seq \in Nat
      BY <2>1, ZenonT(30) DEF TypeInv, TypeOK, SenderTypeOK
    <3>2. QED
      BY <2>1, <2>2, <2>3, <3>1, BelowLarger, ZenonT(30)
<1>2. ASSUME NEW i \in 1..Len(writes), Carries(writes[i]), d = writes[i].pkt
      PROVE  /\ d.peer \in Peers /\ d.sid \in Sids /\ d.seq \in Nat
             /\ d.seq < sendSeq[d.peer][d.sid]
  <2>1. writes[i] \in Writes
    BY DEF TypeInv, TypeOK, SenderTypeOK
  <2>2. d \in DataPackets
    BY <1>2, <2>1, WriteParts, ZenonT(30) DEF Carries
  <2>3. d.peer \in Peers /\ d.sid \in Sids /\ d.seq \in Nat
    BY <2>2, ZenonT(30) DEF DataPackets
  <2>4. CASE writes[i].op = "send"
    <3>1. writes[i].val \in Nat
      BY <2>1, <2>4, WriteParts, ZenonT(30)
    <3>2. d.seq < writes[i].val /\ writes[i].val =< sendSeq[d.peer][d.sid]
      BY <1>2, <2>3, <2>4, ZenonT(30) DEF NumbersOK, QueueOK, Sets
    <3>3. QED
      BY <2>3, <3>1, <3>2, SMTT(30) DEF TypeInv, TypeOK, SenderTypeOK
  <2>5. CASE writes[i].op \in {"mseq", "pending"}
    <3>1. d.seq < sendRow[d.peer][d.sid]
      BY <1>2, <2>5, ZenonT(30) DEF NumbersOK, QueueOK
    <3>2. sendRow[d.peer][d.sid] =< sendSeq[d.peer][d.sid]
      BY <2>3, ZenonT(30) DEF NumbersOK, RowsBehind
    <3>3. QED
      BY <2>3, <3>1, <3>2, SMTT(30) DEF TypeInv, TypeOK, SenderTypeOK
  <2>6. QED
    BY <1>2, <2>4, <2>5, ZenonT(30) DEF Carries
<1>3. QED
  BY <1>1, <1>2, ZenonT(30) DEF IssuedIn

\* Fewer packets cannot break uniqueness.
LEMMA UniqueSubset ==
    ASSUME NEW S, NEW T, Unique(S), T \subseteq S
    PROVE  Unique(T)
BY ZenonT(30) DEF Unique

\* build_data_packet takes the next number of a registered session and queues
\* the write that saves it: the numbers stay in order and unique.
LEMMA BuildNumbers ==
    ASSUME TypeInv, NumbersOK, NEW m \in Msgs, NEW e, NEW k \in Sids,
           NEW task, NEW flow, NEW ws \in Seq(Writes),
           QueueOK(ws, sendRow, sendSeq),
           IssuedIn(ws, net) \subseteq IssuedIn(writes, net),
           BuildAndPersist(m, e, k, task, flow, ws), UNCHANGED <<sendRow, net>>
    PROVE  /\ NumbersOK'
           /\ \A q \in Peers : \A j \in Sids :
                 q # To[m] \/ j # k => sendSeq'[q][j] = sendSeq[q][j]
<1> DEFINE p == To[m]
           seq == sendSeq[p][k]
           d == DataPacket(p, k, seq, m, "queue")
           w == SendSeqWrite(d, seq + 1)
<1>1. p \in Peers /\ seq \in Nat /\ sendSeq \in Counters /\ sendRow \in Counters
  BY WireAssumption, ZenonT(30) DEF TypeInv, TypeOK, SenderTypeOK, Counters
<1>2. /\ sendSeq' = [sendSeq EXCEPT ![p][k] = seq + 1]
      /\ writes' = Append(ws, w)
  BY ZenonT(30) DEF BuildAndPersist, NextSequence
<1>3. /\ sendSeq' \in Counters /\ sendSeq'[p][k] = seq + 1
      /\ \A q \in Peers : \A j \in Sids :
            q # p \/ j # k => sendSeq'[q][j] = sendSeq[q][j]
  BY <1>1, <1>2, Successor, Ordered, ZenonT(30) DEF Counters
<1>4. \A q \in Peers : \A j \in Sids : sendSeq[q][j] =< sendSeq'[q][j]
  <2>1. SUFFICES ASSUME NEW q \in Peers, NEW j \in Sids
                 PROVE  sendSeq[q][j] =< sendSeq'[q][j]
    BY ZenonT(30)
  <2>2. sendSeq[q][j] \in Nat
    BY <1>1, ZenonT(30) DEF Counters
  <2>3. CASE q = p /\ j = k
    BY <1>1, <1>3, <2>3, SMTT(30)
  <2>4. CASE q # p \/ j # k
    BY <1>3, <2>2, <2>4, Successor, Ordered, ZenonT(30)
  <2>5. QED
    BY <2>3, <2>4, ZenonT(30)
<1>5. w \in Writes /\ d \in DataPackets
  BY <1>1, Successor, Ordered, ZenonT(30)
  DEF SendSeqWrite, DataPacket, DataPackets, Writes
<1>6. QueueOK(ws, sendRow, sendSeq')
  BY <1>1, <1>3, <1>4, QueueRaise, ZenonT(30)
<1>7. QueueOK(writes', sendRow', sendSeq')
  <2>1. ASSUME NEW q \in Peers, NEW j \in Sids, Sets(w, q, j)
        PROVE  /\ 1 =< w.val /\ sendRow[q][j] =< w.val
               /\ w.val =< sendSeq'[q][j]
               /\ \A i \in 1..Len(ws) : Sets(ws[i], q, j) => ws[i].val =< w.val
    <3>1. q = p /\ j = k /\ w.val = seq + 1
      BY <2>1, ZenonT(30) DEF Sets, SendSeqWrite, DataPacket
    <3>2. sendRow[p][k] =< seq /\ sendRow[p][k] \in Nat
      BY <1>1, ZenonT(30) DEF NumbersOK, RowsBehind, Counters
    <3>3. \A i \in 1..Len(ws) : Sets(ws[i], p, k) => ws[i].val \in Nat
      BY ElementTyped, SetsValue, ZenonT(30)
    <3>4. \A i \in 1..Len(ws) : Sets(ws[i], p, k) => ws[i].val =< seq
      BY <1>1, ZenonT(30) DEF QueueOK
    <3>5. QED
      <4>1. w.val = seq + 1 /\ sendSeq'[p][k] = seq + 1 /\ seq \in Nat
        BY <1>1, <1>3, <3>1, ZenonT(30)
      <4> HIDE DEF w, seq
      <4>2. /\ 1 =< w.val /\ sendRow[p][k] =< w.val /\ w.val =< sendSeq'[p][k]
        <5>1. sendRow[p][k] =< seq + 1
          BY <3>2, <4>1, BoundRaised, ZenonT(30)
        <5>2. 1 =< seq + 1 /\ seq + 1 =< seq + 1
          BY <4>1, Successor, ZenonT(30)
        <5>3. QED
          BY <4>1, <5>1, <5>2, ZenonT(30)
      <4>3. \A i \in 1..Len(ws) : Sets(ws[i], p, k) => ws[i].val =< w.val
        BY <3>3, <3>4, <4>1, BoundRaised, ZenonT(30)
      <4>4. QED
        BY <3>1, <4>2, <4>3, ZenonT(30)
  <2>2. w.op = "send" /\ w.pkt.seq < w.val
    BY <1>1, Successor, Ordered, ZenonT(30) DEF SendSeqWrite, DataPacket
  <2>3. QueueOK(Append(ws, w), sendRow, sendSeq')
    BY <1>1, <1>3, <1>5, <1>6, <2>1, <2>2, QueueAdd, ZenonT(30)
  <2>4. QED
    BY <1>2, <2>3, ZenonT(30)
<1>8. RowsBehind(sendRow', sendSeq')
  <2>1. \A q \in Peers : \A j \in Sids :
            /\ sendRow[q][j] =< sendSeq[q][j] /\ sendRow[q][j] \in Nat
            /\ sendSeq[q][j] \in Nat /\ sendSeq'[q][j] \in Nat
    BY <1>1, <1>3, ZenonT(30) DEF NumbersOK, RowsBehind, Counters
  <2>2. QED
    BY <1>4, <2>1, Successor, Ordered, ZenonT(30) DEF RowsBehind
<1>9. SavedBeforeSent'
  BY ZenonT(30) DEF NumbersOK, SavedBeforeSent, DataSent
<1>10. Unique(IssuedIn(writes', net'))
  <2>1. IssuedIn(writes', net') \subseteq IssuedIn(writes, net) \cup {d}
    <3>1. Carries(w) /\ w.pkt = d
      BY ZenonT(30) DEF Carries, SendSeqWrite
    <3>2. IssuedIn(Append(ws, w), net) \subseteq IssuedIn(ws, net) \cup {d}
      BY <3>1, IssuedAppend, ZenonT(30)
    <3>3. QED
      BY <1>2, <3>2, ZenonT(30)
  <2>2. \A x \in IssuedIn(writes, net) :
            ~(x.peer = d.peer /\ x.sid = d.sid /\ x.seq = d.seq)
    <3>1. SUFFICES ASSUME NEW x \in IssuedIn(writes, net),
                          x.peer = p, x.sid = k, x.seq = seq
                   PROVE  FALSE
      BY ZenonT(30) DEF DataPacket
    <3>2. x.seq < sendSeq[x.peer][x.sid]
      BY IssuedBelow, ZenonT(30)
    <3>3. QED
      BY <1>1, <3>1, <3>2, Successor, Ordered, ZenonT(30)
  <2>3. Unique(IssuedIn(writes, net) \cup {d})
    BY <2>2, ZenonT(30) DEF NumbersOK, Unique
  <2>4. QED
    BY <2>1, <2>3, UniqueSubset, ZenonT(30)
<1>11. QED
  BY <1>3, <1>7, <1>8, <1>9, <1>10, ZenonT(30) DEF NumbersOK

\* Steps that number nothing: they may drop the head of the queue, or add a
\* write that sets no counter and carries no packet.
LEMMA QuietNumbers ==
    ASSUME TypeInv, NumbersOK, UNCHANGED <<sendRow, sendSeq, net>>,
           \/ UNCHANGED writes
           \/ writes # <<>> /\ writes' = Tail(writes)
           \/ \E w \in Writes : /\ w.op \in {"insert", "status"}
                                /\ writes' = Append(writes, w)
    PROVE  NumbersOK'
<1>1. /\ sendSeq \in Counters /\ sendRow \in Counters
      /\ writes \in Seq(Writes)
  BY ZenonT(30) DEF TypeInv, TypeOK, SenderTypeOK, Counters
<1>2. RowsBehind(sendRow', sendSeq') /\ SavedBeforeSent'
  BY ZenonT(30) DEF NumbersOK, RowsBehind, SavedBeforeSent, DataSent
<1>3. CASE UNCHANGED writes
  BY <1>2, <1>3, ZenonT(30) DEF NumbersOK
<1>4. CASE writes # <<>> /\ writes' = Tail(writes)
  <2>1. QueueOK(writes', sendRow', sendSeq')
    BY <1>1, <1>4, QueueDrop, ZenonT(30) DEF NumbersOK
  <2>2. IssuedIn(writes', net') \subseteq IssuedIn(writes, net)
    BY <1>1, <1>4, IssuedTail, ZenonT(30)
  <2>3. QED
    BY <1>2, <2>1, <2>2, UniqueSubset, ZenonT(30) DEF NumbersOK
<1>5. ASSUME NEW w \in Writes, w.op \in {"insert", "status"},
             writes' = Append(writes, w)
      PROVE  NumbersOK'
  <2>1. /\ \A p \in Peers : \A k \in Sids : ~Sets(w, p, k)
        /\ w.op # "send" /\ w.op \notin {"mseq", "pending"}
    BY <1>5, ZenonT(30) DEF Sets
  <2>2. QueueOK(Append(writes, w), sendRow, sendSeq)
    BY <1>1, <1>5, <2>1, QueueAdd, ZenonT(30) DEF NumbersOK
  <2>3. IssuedIn(Append(writes, w), net) \subseteq IssuedIn(writes, net)
    BY <1>1, <1>5, IssuedAppend, ZenonT(30) DEF Carries
  <2>4. QED
    BY <1>2, <1>5, <2>2, <2>3, UniqueSubset, ZenonT(30) DEF NumbersOK
<1>6. QED
  BY <1>3, <1>4, <1>5, ZenonT(30)

\* Datagrams other than the packets build_data_packet made leave the
\* sender's numbers alone.
LEMMA NetNumbers ==
    ASSUME NumbersOK, UNCHANGED <<sendRow, sendSeq, writes>>,
           \A d \in net' \ net : ~(d.type = "DATA" /\ d.via = "queue")
    PROVE  NumbersOK'
<1>1. IssuedIn(writes', net') \subseteq IssuedIn(writes, net)
  BY ZenonT(30) DEF IssuedIn
<1>2. SavedBeforeSent'
  BY ZenonT(30) DEF NumbersOK, SavedBeforeSent, DataSent
<1>3. QED
  BY <1>1, <1>2, UniqueSubset, ZenonT(30) DEF NumbersOK, RowsBehind

\* A step that draws no session and takes no offer, and number only packets of
\* sessions in use, keeps fresh sessions unused.
LEMMA FreshKept ==
    ASSUME FreshUnused, UNCHANGED <<nextSid, offer>>,
           NEW p \in Peers, NEW k \in Sids, ~SendFresh(p, k),
           \A q \in Peers : \A j \in Sids :
               q # p \/ j # k => sendSeq'[q][j] = sendSeq[q][j]
    PROVE  FreshUnused'
<1>1. SUFFICES ASSUME NEW q \in Peers, NEW j \in Sids, SendFresh(q, j)'
               PROVE  sendSeq'[q][j] = 0
  BY ZenonT(30) DEF FreshUnused
<1>2. SendFresh(q, j)
  BY <1>1, ZenonT(30) DEF SendFresh
<1>3. QED
  BY <1>2, ZenonT(30) DEF FreshUnused

\* One turn of the retry loop keeps the sender's numbers.
LEMMA TimeoutNumbers ==
    ASSUME TypeInv, SendInv, NEW m \in Msgs, HandleTimeout(m),
           UNCHANGED <<sendRow, net, nextSid, offer>>
    PROVE  NumbersOK' /\ FreshUnused'
<1> DEFINE k == sSession[To[m]]
           timedOut(st) == [queue[m] EXCEPT !.retries = queue[m].retries + 1,
                                            !.status = st]
<1>1. CASE /\ writes' = Append(writes, StatusWrite(m, "failed"))
           /\ UNCHANGED sendSeq
  <2>1. StatusWrite(m, "failed") \in Writes
    BY ZenonT(30) DEF StatusWrite, Writes
  <2>2. StatusWrite(m, "failed").op = "status"
    BY ZenonT(30) DEF StatusWrite
  <2>3. NumbersOK'
    BY <1>1, <2>1, <2>2, QuietNumbers, ZenonT(30) DEF SendInv
  <2>4. QED
    BY <1>1, <2>3, ZenonT(30) DEF SendInv, FreshUnused, SendFresh
<1>2. CASE UNCHANGED <<sendSeq, writes>>
  <2>1. NumbersOK'
    BY <1>2, QuietNumbers, ZenonT(30) DEF SendInv
  <2>2. QED
    BY <1>2, <2>1, ZenonT(30) DEF SendInv, FreshUnused, SendFresh
<1>3. CASE /\ k # 0
           /\ BuildAndPersist(m, timedOut("queued"), k, "retry", 0, writes)
  <2>1. k \in Sids /\ To[m] \in Peers /\ writes \in Seq(Writes)
    BY <1>3, WireAssumption, SidsPositive, ZenonT(30)
    DEF TypeInv, TypeOK, SenderTypeOK, Sids
  <2>2. ~SendFresh(To[m], k)
    BY <1>3, <2>1, ZenonT(30) DEF SendInv, InUse
  <2>3. /\ NumbersOK'
        /\ \A q \in Peers : \A j \in Sids :
              q # To[m] \/ j # k => sendSeq'[q][j] = sendSeq[q][j]
    BY <1>3, <2>1, BuildNumbers, ZenonT(30) DEF SendInv, NumbersOK
  <2>4. QED
    BY <2>1, <2>2, <2>3, FreshKept, ZenonT(30) DEF SendInv
<1>4. QED
  BY <1>1, <1>2, <1>3, ZenonT(30) DEF HandleTimeout

\* A row that grows stays past the numbers already sent.
LEMMA RowGrows ==
    ASSUME net \subseteq Packets, sendRow \in Counters, sendRow' \in Counters,
           \A q \in Peers : \A j \in Sids : sendRow[q][j] =< sendRow'[q][j],
           SavedBeforeSent, UNCHANGED net
    PROVE  SavedBeforeSent'
<1>1. SUFFICES ASSUME NEW y \in net, y.type = "DATA", y.via = "queue"
               PROVE  sendRow'[y.peer][y.sid] > y.seq
  BY ZenonT(30) DEF SavedBeforeSent, DataSent
<1>2. y.peer \in Peers /\ y.sid \in Sids /\ y.seq \in Nat
  BY <1>1, ZenonT(30) DEF Packets, DataPackets
<1>3. sendRow[y.peer][y.sid] > y.seq
  BY <1>1, ZenonT(30) DEF SavedBeforeSent, DataSent
<1>4. /\ sendRow[y.peer][y.sid] \in Nat /\ sendRow'[y.peer][y.sid] \in Nat
      /\ sendRow[y.peer][y.sid] =< sendRow'[y.peer][y.sid]
  BY <1>2, ZenonT(30) DEF Counters
<1>5. QED
  BY <1>2, <1>3, <1>4

\* Once its first write is done, its number has been saved.
LEMMA HeadSaved ==
    ASSUME NEW ws \in Seq(Writes), ws # <<>>, NEW row, NEW ctr,
           QueueOK(ws, row, ctr), Head(ws).op \in {"mseq", "pending"}
    PROVE  Head(ws).pkt.seq < row[Head(ws).pkt.peer][Head(ws).pkt.sid]
<1>1. Head(ws) = ws[1] /\ 1 \in 1..Len(ws)
  OBVIOUS
<1>2. QED
  BY <1>1, Zenon DEF QueueOK

\* Handlers that go on within their sessions use no fresh one.
LEMMA InUseKept ==
    ASSUME InUse, UNCHANGED <<nextSid, offer, sSession, inserting>>,
           \A q \in Peers : \A j \in Sids : flush'[q][j].stage = "flushing" =>
               /\ flush[q][j].stage = "flushing"
               /\ flush'[q][j].sid = flush[q][j].sid
    PROVE  InUse'
<1>1. ASSUME NEW q \in Peers, NEW j \in Sids, flush'[q][j].stage = "flushing"
      PROVE  ~SendFresh(q, flush[q][j].sid)'
  <2>1. ~SendFresh(q, flush[q][j].sid)
    BY <1>1, ZenonT(30) DEF InUse
  <2>2. QED
    BY <1>1, <2>1, ZenonT(30) DEF SendFresh
<1>2. QED
  BY <1>1, ZenonT(30) DEF InUse, SendFresh

\* A turn of a flush shortens its list and changes nothing else of it.
LEMMA FlushTodo ==
    ASSUME flush \in [Peers -> [Sids -> Flushes]], NEW p \in Peers,
           NEW k \in Sids, NEW S, flush' = [flush EXCEPT ![p][k].todo = S],
           NEW q \in Peers, NEW j \in Sids
    PROVE  /\ flush'[q][j].stage = flush[q][j].stage
           /\ flush'[q][j].sid = flush[q][j].sid
<1>1. CASE q = p /\ j = k
  <2>1. flush'[q][j] = [flush[q][j] EXCEPT !.todo = S]
    BY <1>1, ZenonT(30)
  <2>2. QED
    BY <2>1 DEF Flushes
<1>2. CASE q # p \/ j # k
  <2>1. flush'[q][j] = flush[q][j]
    BY <1>2, ZenonT(30)
  <2>2. QED
    BY <2>1, ZenonT(30)
<1>3. QED
  BY <1>1, <1>2, ZenonT(30)
-----------------------------------------------------------------------------
(***************************************************************************)
(* Every step of the sender keeps the inductive invariant SendInv.         *)
(***************************************************************************)

\* The sender's own steps keep its numbers in order.
LEMMA SenderSendStep ==
    ASSUME TypeInv, SendInv, SendMessage \/ SenderWorks \/ SenderHears,
           UNCHANGED <<receiverVars, handshakeVars>>
    PROVE  SendInv'
<1>0. UNCHANGED <<nextSid, offer>>
  BY ZenonT(30) DEF handshakeVars
<1>a. ASSUME UNCHANGED sendSeq PROVE FreshUnused'
  BY <1>0, <1>a, ZenonT(30) DEF SendInv, FreshUnused, SendFresh
<1>b. ASSUME UNCHANGED <<sSession, inserting, flush>> PROVE InUse'
  BY <1>0, <1>b, ZenonT(30) DEF SendInv, InUse, SendFresh
<1>c. ASSUME writes # <<>>
      PROVE  /\ Head(writes) \in Writes /\ Tail(writes) \in Seq(Writes)
             /\ QueueOK(Tail(writes), sendRow, sendSeq)
             /\ IssuedIn(Tail(writes), net) \subseteq IssuedIn(writes, net)
  BY <1>c, QueueDrop, IssuedTail, HeadAndTail, ZenonT(30)
  DEF SendInv, NumbersOK, Counters,
      TypeInv, TypeOK, SenderTypeOK
<1>1. CASE SendMessage
  <2>1. InsertWrite(sent + 1) \in Writes /\ InsertWrite(sent + 1).op = "insert"
    BY <1>1, ZenonT(30) DEF SendMessage, InsertWrite, Writes
  <2>2. NumbersOK'
    BY <1>1, <2>1, QuietNumbers, ZenonT(30) DEF SendInv, SendMessage
  <2>3. InUse'
    BY <1>0, <1>1, WireAssumption, SMTT(30)
    DEF SendMessage, SendInv, InUse, SendFresh
  <2>4. QED
    BY <1>1, <1>a, <2>2, <2>3, ZenonT(30) DEF SendInv, SendMessage
<1>2. CASE MessageInserted
  <2> DEFINE m == Head(writes).msg
             k == inserting[m]
  <2>1. m \in Msgs
    BY <1>2, <1>c, WriteParts, ZenonT(30) DEF MessageInserted
  <2>2. InUse'
    <3>1. /\ inserting' = [inserting EXCEPT ![m] = 0]
          /\ UNCHANGED <<sSession, flush>> /\ InUse
      BY <1>2, ZenonT(30) DEF MessageInserted, SendInv
    <3>2. QED
      BY <1>0, <2>1, <3>1, SMTT(30) DEF InUse, SendFresh
  <2>3. CASE /\ k # 0
             /\ BuildAndPersist(m, queue[m], k, "send", 0, Tail(writes))
    <3>1. k \in Sids /\ To[m] \in Peers
      BY <2>1, <2>3, WireAssumption, SidsPositive, ZenonT(30)
      DEF Sids, TypeInv, TypeOK, SenderTypeOK
    <3>2. ~SendFresh(To[m], k)
      BY <2>1, <2>3, ZenonT(30) DEF SendInv, InUse
    <3>3. /\ NumbersOK'
          /\ \A q \in Peers : \A j \in Sids :
                q # To[m] \/ j # k => sendSeq'[q][j] = sendSeq[q][j]
      BY <1>2, <1>c, <2>1, <2>3, <3>1, BuildNumbers, ZenonT(30)
      DEF MessageInserted, SendInv, TypeInv
    <3>4. QED
      BY <1>0, <2>2, <3>1, <3>2, <3>3, FreshKept, ZenonT(30) DEF SendInv
  <2>4. CASE writes' = Tail(writes) /\ UNCHANGED <<queue, sendSeq, sending>>
    <3>1. NumbersOK'
      BY <1>2, <2>4, QuietNumbers, ZenonT(30) DEF MessageInserted, SendInv
    <3>2. QED
      BY <1>a, <2>2, <2>4, <3>1, ZenonT(30) DEF SendInv
  <2>5. QED
    BY <1>2, <2>3, <2>4, ZenonT(30) DEF MessageInserted
<1>3. CASE SendSeqSaved
  <2> DEFINE w == Head(writes)
             d == w.pkt
             x == MsgSeqWrite(d)
  <2>1. /\ d \in DataPackets /\ w.val \in Nat
        /\ d.peer \in Peers /\ d.sid \in Sids /\ d.seq \in Nat
    BY <1>3, <1>c, WriteParts, ZenonT(30) DEF SendSeqSaved, DataPackets
  <2>2. Sets(w, d.peer, d.sid)
    BY <1>3, ZenonT(30) DEF SendSeqSaved, Sets
  <2>3. /\ sendRow' = [sendRow EXCEPT ![d.peer][d.sid] = w.val]
        /\ writes' = Append(Tail(writes), x)
        /\ UNCHANGED <<sendSeq, sSession, inserting, flush, net>>
    BY <1>3, ZenonT(30) DEF SendSeqSaved, senderMem
  <2>4. /\ QueueOK(Tail(writes), sendRow', sendSeq)
        /\ sendRow' \in Counters
        /\ \A q \in Peers : \A j \in Sids : sendRow[q][j] =< sendRow'[q][j]
        /\ sendRow'[d.peer][d.sid] =< sendSeq[d.peer][d.sid]
    <3>1. /\ writes # <<>> /\ writes \in Seq(Writes)
          /\ sendRow \in Counters /\ sendSeq \in Counters
          /\ QueueOK(writes, sendRow, sendSeq)
      BY <1>3, ZenonT(30) DEF SendSeqSaved, SendInv, NumbersOK, Counters,
          TypeInv, TypeOK, SenderTypeOK
    <3>2. ASSUME NEW q \in Peers, NEW l \in Sids, Sets(Head(writes), q, l),
                 sendRow' = [sendRow EXCEPT ![q][l] = Head(writes).val]
          PROVE  /\ QueueOK(Tail(writes), sendRow', sendSeq)
                 /\ sendRow' \in Counters
                 /\ \A r \in Peers : \A j \in Sids : sendRow[r][j] =< sendRow'[r][j]
                 /\ sendRow'[q][l] =< sendSeq[q][l]
      BY <3>1, <3>2, QueueExecute, ZenonT(30)
    <3>3. QED
      BY <2>1, <2>2, <2>3, <3>2, ZenonT(30)
  <2>5. d.seq < sendRow'[d.peer][d.sid]
    <3>1. d.seq < w.val
      <4>1. writes \in Seq(Writes) /\ writes # <<>> /\ w.op = "send"
        BY <1>3, ZenonT(30) DEF SendSeqSaved, TypeInv, TypeOK, SenderTypeOK
      <4>2. QueueOK(writes, sendRow, sendSeq)
        BY ZenonT(30) DEF SendInv, NumbersOK
      <4>3. 1 \in 1..Len(writes) /\ w = writes[1]
        BY <4>1, SMTT(30)
      <4>4. QED
        BY <4>1, <4>2, <4>3, ZenonT(30) DEF QueueOK
    <3>2. sendRow'[d.peer][d.sid] = w.val
      <4>1. sendRow \in [Peers -> [Sids -> Nat]] /\ d.peer \in Peers /\ d.sid \in Sids
        BY <2>1, Zenon DEF TypeInv, TypeOK, SenderTypeOK
      <4>2. sendRow' = [sendRow EXCEPT ![d.peer][d.sid] = w.val]
        BY <2>3, Zenon
      <4>3. QED
        BY <4>1, <4>2, ZenonT(30)
    <3>3. QED
      BY <3>1, <3>2, ZenonT(30)
  <2>6. QueueOK(writes', sendRow', sendSeq')
    <3>1. x \in Writes
      BY <2>1, ZenonT(30) DEF MsgSeqWrite, Writes
    <3>2. x.op = "mseq" /\ x.pkt = d /\ \A p \in Peers, k \in Sids : ~Sets(x, p, k)
      BY ZenonT(30) DEF MsgSeqWrite, Sets
    <3>3. QueueOK(Append(Tail(writes), x), sendRow', sendSeq)
      BY <1>3, <1>c, <2>4, <2>5, <3>1, <3>2, QueueAdd, ZenonT(30)
      DEF SendSeqSaved, Counters,
          TypeInv, TypeOK, SenderTypeOK
    <3>4. QED
      BY <2>3, <3>3, ZenonT(30)
  <2>7. RowsBehind(sendRow', sendSeq')
    <3>1. \A q \in Peers : \A j \in Sids :
              q # d.peer \/ j # d.sid => sendRow'[q][j] = sendRow[q][j]
      BY <2>3
    <3>2. QED
      BY <2>3, <2>4, <3>1, ZenonT(30) DEF SendInv, NumbersOK, RowsBehind
  <2>8. SavedBeforeSent'
    <3>1. sendRow \in Counters /\ net \subseteq Packets /\ SavedBeforeSent
      BY ZenonT(30)
      DEF SendInv, NumbersOK, Counters, TypeInv, TypeOK, SenderTypeOK
    <3>2. QED
      <4>1. UNCHANGED net
        BY <2>3, ZenonT(30)
      <4>2. /\ sendRow' \in Counters
            /\ \A q \in Peers : \A j \in Sids : sendRow[q][j] =< sendRow'[q][j]
        BY <2>4, ZenonT(30)
      <4> HIDE DEF w, d, x
      <4>3. QED
        BY <3>1, <4>1, <4>2, RowGrows, ZenonT(30)
  <2>9. Unique(IssuedIn(writes', net'))
    <3>1. d \in IssuedIn(writes, net)
      <4>1. writes # <<>> /\ Carries(Head(writes)) /\ writes \in Seq(Writes)
        BY <1>3, ZenonT(30)
        DEF SendSeqSaved, Carries, TypeInv, TypeOK, SenderTypeOK
      <4>2. QED
        BY <4>1, HeadCarried, ZenonT(30)
    <3>2. x.pkt = d /\ Carries(x)
      BY ZenonT(30) DEF MsgSeqWrite, Carries
    <3>3. IssuedIn(Append(Tail(writes), x), net)
              \subseteq IssuedIn(Tail(writes), net) \cup {d}
      BY <1>3, <1>c, <3>2, IssuedAppend, ZenonT(30) DEF SendSeqSaved
    <3>4. IssuedIn(writes', net') \subseteq IssuedIn(writes, net)
      BY <1>3, <1>c, <2>3, <3>1, <3>3, ZenonT(30) DEF SendSeqSaved
    <3>5. QED
      BY <3>4, UniqueSubset, ZenonT(30) DEF SendInv, NumbersOK
  <2>10. QED
    BY <1>a, <1>b, <2>3, <2>6, <2>7, <2>8, <2>9, ZenonT(30)
    DEF SendInv, NumbersOK
<1>4. CASE MsgSeqSaved
  <2> DEFINE d == Head(writes).pkt
             x == PendingWrite(d)
  <2>1. d \in DataPackets /\ d.seq < sendRow[d.peer][d.sid]
    BY <1>4, HeadCarried, HeadSaved, ZenonT(30) DEF MsgSeqSaved, SendInv, NumbersOK, Carries,
        TypeInv, TypeOK, SenderTypeOK
  <2>2. /\ writes' = Append(Tail(writes), x)
        /\ UNCHANGED <<sendSeq, sendRow, sSession, inserting, flush, net>>
    BY <1>4, ZenonT(30) DEF MsgSeqSaved, senderMem
  <2>3. QueueOK(writes', sendRow', sendSeq')
    <3>1. x \in Writes
      BY <2>1, ZenonT(30) DEF PendingWrite, Writes
    <3>2. /\ x.op = "pending" /\ x.pkt = d
          /\ \A p \in Peers, k \in Sids : ~Sets(x, p, k)
      BY ZenonT(30) DEF PendingWrite, Sets
    <3>3. QueueOK(Append(Tail(writes), x), sendRow, sendSeq)
      BY <1>4, <1>c, <2>1, <3>1, <3>2, QueueAdd, ZenonT(30)
      DEF MsgSeqSaved, Counters,
          TypeInv, TypeOK, SenderTypeOK
    <3>4. QED
      BY <2>2, <3>3, ZenonT(30)
  <2>4. Unique(IssuedIn(writes', net'))
    <3>1. d \in IssuedIn(writes, net)
      BY <1>4, HeadCarried DEF MsgSeqSaved, Carries,
          TypeInv, TypeOK, SenderTypeOK
    <3>2. x.pkt = d /\ Carries(x)
      BY ZenonT(30) DEF PendingWrite, Carries
    <3>3. IssuedIn(Append(Tail(writes), x), net)
              \subseteq IssuedIn(Tail(writes), net) \cup {d}
      BY <1>4, <1>c, <3>2, IssuedAppend, ZenonT(30) DEF MsgSeqSaved
    <3>4. IssuedIn(writes', net') \subseteq IssuedIn(writes, net)
      BY <1>4, <1>c, <2>2, <3>1, <3>3, ZenonT(30) DEF MsgSeqSaved
    <3>5. QED
      BY <3>4, UniqueSubset, ZenonT(30) DEF SendInv, NumbersOK
  <2>5. RowsBehind(sendRow', sendSeq') /\ SavedBeforeSent'
    BY <2>2, ZenonT(30)
    DEF SendInv, NumbersOK, RowsBehind, SavedBeforeSent, DataSent
  <2>6. QED
    BY <1>a, <1>b, <2>2, <2>3, <2>4, <2>5, ZenonT(30) DEF SendInv, NumbersOK
<1>5. CASE PendingSavedAndSent
  <2> DEFINE d == Head(writes).pkt
  <2>1. d \in DataPackets /\ d.seq < sendRow[d.peer][d.sid]
    BY <1>5, HeadCarried, HeadSaved, ZenonT(30)
    DEF PendingSavedAndSent, SendInv, NumbersOK, Carries,
        TypeInv, TypeOK, SenderTypeOK
  <2>2. /\ writes' = Tail(writes) /\ net' = net \cup {d}
        /\ UNCHANGED <<sendSeq, sendRow, sSession, inserting, flush>>
    BY <1>5, ZenonT(30) DEF PendingSavedAndSent, Send
  <2>3. QueueOK(writes', sendRow', sendSeq')
    BY <1>5, <1>c, <2>2, ZenonT(30) DEF PendingSavedAndSent
  <2>4. RowsBehind(sendRow', sendSeq')
    BY <2>2, ZenonT(30) DEF SendInv, NumbersOK, RowsBehind
  <2>5. SavedBeforeSent'
    BY <2>1, <2>2, ZenonT(30)
    DEF SendInv, NumbersOK, SavedBeforeSent, DataSent, DataPackets
  <2>6. Unique(IssuedIn(writes', net'))
    <3>1. d \in IssuedIn(writes, net)
      BY <1>5, HeadCarried DEF PendingSavedAndSent, Carries,
          TypeInv, TypeOK, SenderTypeOK
    <3>2. IssuedIn(writes', net') \subseteq IssuedIn(Tail(writes), net) \cup {d}
      BY <2>2, ZenonT(30) DEF IssuedIn
    <3>3. IssuedIn(writes', net') \subseteq IssuedIn(writes, net)
      BY <1>5, <1>c, <3>1, <3>2, ZenonT(30) DEF PendingSavedAndSent
    <3>4. QED
      BY <3>3, UniqueSubset, ZenonT(30) DEF SendInv, NumbersOK
  <2>7. QED
    BY <1>a, <1>b, <2>2, <2>3, <2>4, <2>5, <2>6, ZenonT(30)
    DEF SendInv, NumbersOK
<1>6. CASE StatusSaved
  <2>1. /\ writes # <<>> /\ writes' = Tail(writes)
        /\ UNCHANGED <<sendSeq, sendRow, sSession, inserting, flush, net>>
    BY <1>6, ZenonT(30) DEF StatusSaved, senderMem
  <2>2. NumbersOK'
    BY <2>1, QuietNumbers, ZenonT(30) DEF SendInv
  <2>3. QED
    BY <1>a, <1>b, <2>1, <2>2, ZenonT(30) DEF SendInv
<1>7. CASE SendRowSaved
  <2> DEFINE w == Head(writes)
  <2>1. w.peer \in Peers /\ w.sid \in Sids /\ w.val \in Nat
    BY <1>7, <1>c, WriteParts, ZenonT(30) DEF SendRowSaved
  <2>2. Sets(w, w.peer, w.sid)
    BY <1>7, ZenonT(30) DEF SendRowSaved, Sets
  <2>3. /\ sendRow' = [sendRow EXCEPT ![w.peer][w.sid] = w.val]
        /\ writes' = Tail(writes)
        /\ UNCHANGED <<sendSeq, sSession, inserting, net>>
    BY <1>7, ZenonT(30) DEF SendRowSaved
  <2>4. /\ QueueOK(Tail(writes), sendRow', sendSeq)
        /\ sendRow' \in Counters
        /\ \A q \in Peers : \A j \in Sids : sendRow[q][j] =< sendRow'[q][j]
        /\ sendRow'[w.peer][w.sid] =< sendSeq[w.peer][w.sid]
    <3>1. /\ writes # <<>> /\ writes \in Seq(Writes)
          /\ sendRow \in Counters /\ sendSeq \in Counters
          /\ QueueOK(writes, sendRow, sendSeq)
      BY <1>7, ZenonT(30) DEF SendRowSaved, SendInv, NumbersOK, Counters,
          TypeInv, TypeOK, SenderTypeOK
    <3>2. ASSUME NEW q \in Peers, NEW l \in Sids, Sets(Head(writes), q, l),
                 sendRow' = [sendRow EXCEPT ![q][l] = Head(writes).val]
          PROVE  /\ QueueOK(Tail(writes), sendRow', sendSeq)
                 /\ sendRow' \in Counters
                 /\ \A r \in Peers : \A j \in Sids : sendRow[r][j] =< sendRow'[r][j]
                 /\ sendRow'[q][l] =< sendSeq[q][l]
      BY <3>1, <3>2, QueueExecute, Zenon
    <3>3. QED
      BY <2>1, <2>2, <2>3, <3>2, ZenonT(30)
  <2>5. RowsBehind(sendRow', sendSeq')
    <3>1. \A q \in Peers : \A j \in Sids :
              q # w.peer \/ j # w.sid => sendRow'[q][j] = sendRow[q][j]
      BY <2>3
    <3>2. QED
      BY <2>3, <2>4, <3>1, ZenonT(30) DEF SendInv, NumbersOK, RowsBehind
  <2>6. SavedBeforeSent'
    <3>1. sendRow \in Counters /\ net \subseteq Packets /\ SavedBeforeSent
      BY ZenonT(30)
      DEF SendInv, NumbersOK, Counters, TypeInv, TypeOK, SenderTypeOK
    <3>2. QED
      <4>1. UNCHANGED net
        BY <2>3, ZenonT(30)
      <4>2. /\ sendRow' \in Counters
            /\ \A q \in Peers : \A j \in Sids : sendRow[q][j] =< sendRow'[q][j]
        BY <2>4, ZenonT(30)
      <4> HIDE DEF w
      <4>3. QED
        BY <3>1, <4>1, <4>2, RowGrows, ZenonT(30)
  <2>7. Unique(IssuedIn(writes', net'))
    BY <1>7, <1>c, <2>3, UniqueSubset, ZenonT(30)
    DEF SendRowSaved, SendInv, NumbersOK
  <2>8. InUse'
    <3>1. \A p \in Peers, k \in Sids :
              p # w.peer \/ k # w.sid => flush'[p][k] = flush[p][k]
      BY <1>7, <2>1, ZenonT(30) DEF SendRowSaved, TypeInv, TypeOK, SenderTypeOK
    <3>2. flush'[w.peer][w.sid].stage = "saved"
      <4>1. /\ flush' = [flush EXCEPT ![w.peer][w.sid].stage = "saved"]
            /\ flush \in [Peers -> [Sids -> Flushes]]
        BY <1>7, ZenonT(30) DEF SendRowSaved, TypeInv, TypeOK, SenderTypeOK
      <4>2. flush'[w.peer][w.sid] = [flush[w.peer][w.sid] EXCEPT !.stage = "saved"]
        BY <2>1, <4>1, ZenonT(30)
      <4>3. flush[w.peer][w.sid] \in Flushes
        BY <2>1, <4>1, ZenonT(30)
      <4>4. QED
        BY <4>2, <4>3, ZenonT(30) DEF Flushes
    <3>3. ASSUME NEW p \in Peers, NEW k \in Sids,
                 flush'[p][k].stage = "flushing"
          PROVE  ~SendFresh(p, flush'[p][k].sid)
      <4>1. p # w.peer \/ k # w.sid
        BY <3>2, <3>3, ZenonT(30)
      <4>2. flush'[p][k] = flush[p][k]
        BY <3>1, <4>1, ZenonT(30)
      <4>3. QED
        BY <3>3, <4>2, ZenonT(30) DEF SendInv, InUse
    <3>4. QED
      BY <1>0, <2>3, <3>3, ZenonT(30) DEF SendInv, InUse, SendFresh
  <2>9. QED
    BY <1>a, <2>3, <2>4, <2>5, <2>6, <2>7, <2>8, ZenonT(30)
    DEF SendInv, NumbersOK
<1>8. ASSUME NEW p \in Peers, NEW k \in Sids, FlushStart(p, k)
      PROVE  SendInv'
  <2>1. NumbersOK'
    BY <1>8, QuietNumbers, ZenonT(30) DEF SendInv, FlushStart
  <2>2. InUse'
    BY <1>0, <1>8, SMTT(30) DEF FlushStart, SendInv, InUse, SendFresh, NoFlush
  <2>3. QED
    BY <1>8, <1>a, <2>1, <2>2, ZenonT(30) DEF SendInv, FlushStart
<1>9. ASSUME NEW p \in Peers, NEW k \in Sids, FlushStep(p, k)
      PROVE  SendInv'
  <2> DEFINE f == flush[p][k]
             left == f.todo \cap QueuedFor(p)
             m == First(left)
  <2>1. f \in Flushes /\ f.sid \in Sids /\ ~SendFresh(p, f.sid)
    <3>1. f.stage = "flushing" /\ f \in Flushes
      BY <1>9 DEF FlushStep, TypeInv, TypeOK, SenderTypeOK
    <3>2. f.sid # 0 /\ f.sid \in 0..MaxSid
      BY <3>1, ZenonT(30)
      DEF SessionsNamed, Flushes, TypeInv, TypeOK, SenderTypeOK
    <3>3. f.sid \in Sids
      BY <3>2, WireAssumption, SidsPositive, ZenonT(30) DEF Sids
    <3>4. ~SendFresh(p, f.sid)
      BY <3>1, ZenonT(30) DEF SendInv, InUse
    <3>5. QED
      BY <3>1, <3>3, <3>4, ZenonT(30)
  <2>2. CASE /\ left # {}
             /\ BuildAndPersist(m, queue[m], f.sid, "flush", k, writes)
             /\ flush' = [flush EXCEPT ![p][k].todo = {x \in f.todo : x > m}]
    <3>1. m \in Msgs /\ To[m] = p
      <4>1. left \subseteq Nat
        BY <2>1 DEF Flushes, Msgs
      <4>2. m \in left
        BY <4>1, <2>2, FirstIn, ZenonT(30)
      <4>3. QED
        BY <4>2, <2>1, ZenonT(30) DEF QueuedFor
    <3>2. /\ NumbersOK'
          /\ \A q \in Peers : \A j \in Sids :
                q # To[m] \/ j # f.sid => sendSeq'[q][j] = sendSeq[q][j]
      BY <1>9, <2>1, <2>2, <3>1, BuildNumbers, ZenonT(30)
      DEF FlushStep, SendInv, NumbersOK, TypeInv, TypeOK, SenderTypeOK
    <3>3. FreshUnused'
      <4>1. FreshUnused
        BY ZenonT(30) DEF SendInv
      <4> HIDE DEF f, m, left
      <4>2. QED
        BY <1>0, <2>1, <3>1, <3>2, <4>1, FreshKept, ZenonT(30)
    <3>4. \A q \in Peers : \A j \in Sids : /\ flush'[q][j].stage = flush[q][j].stage
                                           /\ flush'[q][j].sid = flush[q][j].sid
      BY <2>2, FlushTodo, ZenonT(30) DEF TypeInv, TypeOK, SenderTypeOK
    <3>5. UNCHANGED <<sSession, inserting>>
      BY <1>9, ZenonT(30) DEF FlushStep
    <3>6. InUse'
      <4>1. InUse
        BY ZenonT(30) DEF SendInv
      <4> HIDE DEF f, m, left
      <4>2. QED
        BY <1>0, <3>4, <3>5, <4>1, InUseKept, ZenonT(30)
    <3>7. QED
      BY <3>2, <3>3, <3>6, ZenonT(30) DEF SendInv
  <2>3. CASE /\ flush' = [flush EXCEPT ![p][k] = NoFlush]
             /\ UNCHANGED <<queue, sendSeq, sending, writes>>
    <3>1. NumbersOK'
      BY <1>9, <2>3, QuietNumbers, ZenonT(30) DEF SendInv, FlushStep
    <3>2. InUse'
      <4>1. /\ UNCHANGED <<sSession, inserting>> /\ InUse
            /\ flush \in [Peers -> [Sids -> Flushes]]
        BY <1>9, ZenonT(30)
        DEF FlushStep, SendInv, TypeInv, TypeOK, SenderTypeOK
      <4>2. NoFlush.stage # "flushing"
        BY DEF NoFlush
      <4>3. ASSUME NEW q \in Peers, NEW j \in Sids,
                   flush'[q][j].stage = "flushing"
            PROVE  flush'[q][j] = flush[q][j]
        BY <2>3, <4>1, <4>2, <4>3, ZenonT(30)
      <4>4. QED
        BY <1>0, <4>1, <4>3, InUseKept, ZenonT(30)
    <3>3. QED
      BY <1>a, <2>3, <3>1, <3>2, ZenonT(30) DEF SendInv
  <2>4. QED
    BY <1>9, <2>2, <2>3, ZenonT(30) DEF FlushStep
<1>10. CASE RetryScan
  <2>1. PICK T \in SUBSET {m \in Msgs : MayTimeOut(m)} :
             T # {} /\ HandleTimeout(First(T))
    BY <1>10, ZenonT(30) DEF RetryScan
  <2>2. First(T) \in Msgs
    <3>1. T \subseteq Nat
      BY DEF Msgs
    <3>2. First(T) \in T
      BY <3>1, <2>1, FirstIn, Zenon
    <3>3. QED
      BY <3>2, ZenonT(30)
  <2>3. UNCHANGED <<sendRow, net, sSession, inserting, flush>>
    BY <1>10, ZenonT(30) DEF RetryScan
  <2>4. NumbersOK' /\ FreshUnused'
    BY <1>0, <2>1, <2>2, <2>3, TimeoutNumbers, ZenonT(30)
  <2>5. QED
    BY <1>b, <2>3, <2>4, ZenonT(30) DEF SendInv
<1>11. CASE RetryNext
  <2>1. First(retry) \in Msgs
    <3>1. retry \subseteq Nat /\ retry # {}
      BY <1>11 DEF Msgs, RetryNext, TypeInv, TypeOK, SenderTypeOK
    <3>2. First(retry) \in retry
      BY <3>1, FirstIn, Zenon
    <3>3. QED
      BY <3>2, ZenonT(30) DEF TypeInv, TypeOK, SenderTypeOK
  <2>2. /\ HandleTimeout(First(retry))
        /\ UNCHANGED <<sendRow, net, sSession, inserting, flush>>
    BY <1>11, ZenonT(30) DEF RetryNext
  <2>3. NumbersOK' /\ FreshUnused'
    BY <1>0, <2>1, <2>2, TimeoutNumbers, ZenonT(30)
  <2>4. QED
    BY <1>b, <2>2, <2>3, ZenonT(30) DEF SendInv
<1>12. ASSUME NEW a, HandleAck(a) \/ HandleAppAck(a) PROVE SendInv'
  <2>1. PICK S \in SUBSET Msgs, st \in {"delivered", "acknowledged"} :
             /\ S # {} /\ writes' = Append(writes, StatusWrite(First(S), st))
             /\ UNCHANGED <<sendSeq, sendRow, sSession, inserting, flush, net>>
    BY <1>12, ZenonT(30) DEF HandleAck, HandleAppAck
  <2>2. First(S) \in Msgs
    <3>1. S \subseteq Nat
      BY DEF Msgs
    <3>2. First(S) \in S
      BY <2>1, <3>1, FirstIn, ZenonT(30)
    <3>3. QED
      BY <3>2, ZenonT(30)
  <2>3. /\ StatusWrite(First(S), st) \in Writes
        /\ StatusWrite(First(S), st).op = "status"
    BY <2>2, ZenonT(30) DEF StatusWrite, Writes
  <2>4. NumbersOK'
    BY <2>1, <2>3, QuietNumbers, ZenonT(30) DEF SendInv
  <2>5. QED
    BY <1>a, <1>b, <2>1, <2>4, ZenonT(30) DEF SendInv
<1>13. ASSUME NEW y \in SyncsSent, HandleSync(y) PROVE SendInv'
  <2>1. UNCHANGED <<sendRow, sendSeq, writes, sSession, inserting, flush>>
    BY <1>13, ZenonT(30) DEF HandleSync
  <2>2. \A d \in net' \ net : ~(d.type = "DATA" /\ d.via = "queue")
    BY <1>13 DEF HandleSync, Send, DataPacket
  <2>3. NumbersOK'
    BY <2>1, <2>2, NetNumbers, ZenonT(30) DEF SendInv
  <2>4. QED
    BY <1>a, <1>b, <2>1, <2>3, ZenonT(30) DEF SendInv
<1>14. QED
  BY <1>1, <1>2, <1>3, <1>4, <1>5, <1>6, <1>7, <1>8, <1>9, <1>10, <1>11, <1>12,
     <1>13, SMTT(30)
  DEF SenderWorks, SenderHears
-----------------------------------------------------------------------------
(***************************************************************************)
(* The steps of the other parts keep SendInv too, and SendInv gives the    *)
(* two theorems: a number is saved before it is sent, and is sent once.    *)
(***************************************************************************)

\* A handshake draws numbers from no session but the fresh one it registers.
LEMMA RegisterNumbers ==
    ASSUME TypeInv, SendInv, NEW p \in Peers, NEW k \in Sids, SendFresh(p, k),
           RegisterSend(p, k)
    PROVE  /\ NumbersOK'
           /\ \A q \in Peers : \A j \in Sids :
                 q # p \/ j # k => sendSeq'[q][j] = sendSeq[q][j]
<1> DEFINE first == Larger(1, sendFloor[p])
           w == RowWrite(p, k, first)
<1>1. /\ sendSeq \in Counters /\ sendRow \in Counters /\ sendFloor[p] \in Nat
      /\ writes \in Seq(Writes)
  BY ZenonT(30) DEF TypeInv, TypeOK, SenderTypeOK, Counters
<1>2. first \in Nat /\ 1 =< first
  BY <1>1, Successor, Ordered, ZenonT(30) DEF Larger
<1> HIDE DEF first
<1>3. /\ sendSeq' = [sendSeq EXCEPT ![p][k] = first]
      /\ writes' = Append(writes, w)
      /\ UNCHANGED <<sendRow, net>>
  BY ZenonT(30) DEF RegisterSend, first
<1>4. sendSeq[p][k] = 0
  BY ZenonT(30) DEF SendInv, FreshUnused
<1>5. sendRow[p][k] = 0
  <2>1. sendRow[p][k] =< sendSeq[p][k] /\ sendRow[p][k] \in Nat
    BY <1>1, ZenonT(30) DEF SendInv, NumbersOK, RowsBehind, Counters
  <2>2. QED
    BY <1>4, <2>1
<1>6. sendSeq' \in Counters /\ sendSeq'[p][k] = first
  BY <1>1, <1>2, <1>3, ZenonT(30) DEF Counters
<1>7. \A q \in Peers : \A j \in Sids :
          q # p \/ j # k => sendSeq'[q][j] = sendSeq[q][j]
  BY <1>1, <1>3, ZenonT(30) DEF Counters
<1>8. \A q \in Peers : \A j \in Sids : sendSeq[q][j] =< sendSeq'[q][j]
  <2>1. ASSUME NEW q \in Peers, NEW j \in Sids
        PROVE  sendSeq[q][j] =< sendSeq'[q][j]
    <3>1. sendSeq[q][j] \in Nat
      BY <1>1, ZenonT(30) DEF Counters
    <3>2. CASE q = p /\ j = k
      BY <1>2, <1>4, <1>6, <3>2, SMTT(30)
    <3>3. CASE q # p \/ j # k
      BY <1>7, <3>1, <3>3, Successor, Ordered, ZenonT(30)
    <3>4. QED
      BY <3>2, <3>3, ZenonT(30)
  <2>2. QED
    BY <2>1, ZenonT(30)
<1>9. QueueOK(writes, sendRow, sendSeq')
  BY <1>1, <1>6, <1>8, QueueRaise, ZenonT(30) DEF SendInv, NumbersOK
<1>10. QueueOK(writes', sendRow', sendSeq')
  <2>1. w \in Writes /\ w.op = "row" /\ w.val = first
    BY <1>2, ZenonT(30) DEF RowWrite, Writes
  <2>2. \A q \in Peers : \A j \in Sids : Sets(w, q, j) => q = p /\ j = k
    BY ZenonT(30) DEF RowWrite, Sets
  <2>3. ASSUME NEW i \in 1..Len(writes), Sets(writes[i], p, k) PROVE FALSE
    <3>1. writes[i].val \in Nat
      BY <1>1, <2>3, ElementTyped, SetsValue, ZenonT(30)
    <3>2. 1 =< writes[i].val /\ writes[i].val =< sendSeq[p][k]
      BY <2>3, ZenonT(30) DEF SendInv, NumbersOK, QueueOK
    <3>3. QED
      BY <1>4, <3>1, <3>2, SMTT(30)
  <2>4. \A q \in Peers : \A j \in Sids : Sets(w, q, j) =>
            /\ 1 =< w.val /\ sendRow[q][j] =< w.val /\ w.val =< sendSeq'[q][j]
            /\ \A i \in 1..Len(writes) :
                  Sets(writes[i], q, j) => writes[i].val =< w.val
    <3>1. 1 =< w.val /\ sendRow[p][k] =< w.val /\ w.val =< sendSeq'[p][k]
      BY <1>2, <1>5, <1>6, <2>1, SMTT(30)
    <3>2. \A i \in 1..Len(writes) : ~Sets(writes[i], p, k)
      BY <2>3, ZenonT(30)
    <3> HIDE DEF w
    <3>3. QED
      BY <2>2, <3>1, <3>2, ZenonT(30)
  <2> HIDE DEF w
  <2>5. QueueOK(Append(writes, w), sendRow, sendSeq')
    BY <1>1, <1>6, <1>9, <2>1, <2>4, QueueAdd, ZenonT(30)
  <2>6. QED
    BY <1>3, <2>5, ZenonT(30)
<1>11. RowsBehind(sendRow', sendSeq')
  <2>1. ASSUME NEW q \in Peers, NEW j \in Sids
        PROVE  sendRow[q][j] =< sendSeq'[q][j]
    <3>1. sendRow[q][j] =< sendSeq[q][j] /\ sendSeq[q][j] =< sendSeq'[q][j]
      BY <1>8, ZenonT(30) DEF SendInv, NumbersOK, RowsBehind
    <3>2. sendRow[q][j] \in Nat /\ sendSeq[q][j] \in Nat /\ sendSeq'[q][j] \in Nat
      BY <1>1, <1>6, ZenonT(30) DEF Counters
    <3>3. QED
      BY <3>1, <3>2, Successor, Ordered, ZenonT(30)
  <2>2. QED
    BY <1>3, <2>1, ZenonT(30) DEF RowsBehind
<1>12. SavedBeforeSent'
  BY <1>3, ZenonT(30) DEF SendInv, NumbersOK, SavedBeforeSent, DataSent
<1>13. Unique(IssuedIn(writes', net'))
  <2>1. ~Carries(w)
    BY ZenonT(30) DEF RowWrite, Carries
  <2>2. IssuedIn(writes', net') \subseteq IssuedIn(writes, net)
    BY <1>1, <1>3, <2>1, IssuedAppend, ZenonT(30)
  <2>3. QED
    BY <2>2, UniqueSubset, ZenonT(30) DEF SendInv, NumbersOK
<1>14. QED
  BY <1>7, <1>10, <1>11, <1>12, <1>13, ZenonT(30) DEF NumbersOK

\* The session a reconnect flush was started for is one there can be.
LEMMA FlushSession ==
    ASSUME TypeInv, NEW q \in Peers, NEW j \in Sids
    PROVE  flush[q][j].sid \in 0..MaxSid
<1>1. flush[q][j] \in Flushes
  BY SMTT(30) DEF TypeInv, TypeOK, SenderTypeOK
<1>2. QED
  BY <1>1, ZenonT(30) DEF Flushes

\* Sessions stay in use when fresh ones are only taken away.
LEMMA FreshShrinks ==
    ASSUME TypeInv, InUse,
           \A q \in Peers : \A j \in 0..MaxSid : SendFresh(q, j)' => SendFresh(q, j),
           \A q \in Peers : sSession'[q] # 0 =>
               sSession'[q] = sSession[q] \/ ~SendFresh(q, sSession[q])',
           \A m \in Msgs : inserting'[m] # 0 => inserting'[m] = inserting[m],
           \A q \in Peers : \A j \in Sids : flush'[q][j].stage = "flushing" =>
               /\ flush[q][j].stage = "flushing"
               /\ flush'[q][j].sid = flush[q][j].sid,
           \A q \in Peers : offer'[q].to # "none" => offer'[q].sid < nextSid'[q]
    PROVE  InUse'
<1>1. ASSUME NEW q \in Peers, sSession'[q] # 0
      PROVE  ~SendFresh(q, sSession[q])'
  <2>1. CASE sSession'[q] = sSession[q]
    <3>1. sSession[q] \in 0..MaxSid /\ ~SendFresh(q, sSession[q])
      BY <1>1, <2>1, ZenonT(30) DEF TypeInv, TypeOK, SenderTypeOK, InUse
    <3>2. QED
      BY <2>1, <3>1, ZenonT(90) DEF SendFresh
  <2>2. QED
    BY <1>1, <2>1, ZenonT(30)
<1>2. ASSUME NEW m \in Msgs, inserting'[m] # 0
      PROVE  ~SendFresh(To[m], inserting[m])'
  <2>1. inserting'[m] = inserting[m] /\ To[m] \in Peers
    BY <1>2, WireAssumption, ZenonT(30)
  <2>2. inserting[m] \in 0..MaxSid
    BY ZenonT(30) DEF TypeInv, TypeOK, SenderTypeOK
  <2>3. inserting[m] # 0
    BY <1>2, <2>1, Zenon
  <2>4. ~SendFresh(To[m], inserting[m])
    BY <2>1, <2>3, ZenonT(30) DEF InUse
  <2>5. \A l \in 0..MaxSid : ~SendFresh(To[m], l) => ~SendFresh(To[m], l)'
    BY <2>1, Zenon
  <2>6. QED
    BY <2>1, <2>2, <2>4, <2>5, ZenonT(30) DEF SendFresh
<1>3. ASSUME NEW q \in Peers, NEW j \in Sids, flush'[q][j].stage = "flushing"
      PROVE  ~SendFresh(q, flush[q][j].sid)'
  <2>1. /\ flush'[q][j].sid = flush[q][j].sid
        /\ flush[q][j].sid \in 0..MaxSid /\ ~SendFresh(q, flush[q][j].sid)
    BY <1>3, FlushSession, Zenon DEF InUse
  <2>2. \A l \in 0..MaxSid : ~SendFresh(q, l) => ~SendFresh(q, l)'
    BY ZenonT(30)
  <2>3. QED
    BY <2>1, <2>2, ZenonT(30) DEF SendFresh
<1>4. QED
  BY <1>1, <1>2, <1>3, ZenonT(30) DEF InUse

\* A handshake step registers session k of p at the sender, which drew it or
\* was offered it.
Registers(p, k) ==
    /\ RegisterSend(p, k)
    /\ sSession[p] = 0
    /\ SendFresh(p, k) /\ ~SendFresh(p, k)'
    /\ k = nextSid[p] \/ (offer[p].to = "sender" /\ offer[p].sid = k)

\* What a handshake step does to the sender and to the sessions it has not
\* registered yet.
HandshakeTakes ==
    /\ \A q \in Peers : \A j \in 0..MaxSid : SendFresh(q, j)' => SendFresh(q, j)
    /\ \A q \in Peers : offer'[q].to # "none" => offer'[q].sid < nextSid'[q]
    /\ \A q \in Peers : offer'[q].to = "sender" =>
          \/ nextSid'[q] = offer'[q].sid + 1
          \/ offer'[q] = offer[q] /\ nextSid'[q] = nextSid[q]
    /\ UNCHANGED budget
    /\ \/ UNCHANGED <<senderVars, net>>
       \/ \E p \in Peers, k \in Sids : Registers(p, k)

\* A handshake gives the sender a fresh session, or the receiver one, or takes
\* the offer of one away.
LEMMA HandshakeStep ==
    ASSUME TypeInv, SendInv, Handshakes
    PROVE  HandshakeTakes
<1>1. \A q \in Peers : nextSid[q] \in Nat /\ offer[q].sid \in Nat
  BY WireAssumption, SMTT(30) DEF Offers, TypeInv, TypeOK
<1>2. \A q \in Peers : offer[q].to # "none" => offer[q].sid < nextSid[q]
  BY ZenonT(30) DEF SendInv, InUse
<1>3. ASSUME NEW p \in Peers, SenderAnswersHello(p) PROVE  HandshakeTakes
  <2>1. PICK k \in Sids : k = nextSid[p]
    BY <1>3, ZenonT(30) DEF SenderAnswersHello
  <2>2. /\ RegisterSend(p, k)
        /\ offer' = [offer EXCEPT ![p] = [to |-> "receiver", sid |-> k]]
        /\ nextSid' = [nextSid EXCEPT ![p] = k + 1]
    BY <1>3, <2>1, ZenonT(30) DEF SenderAnswersHello
  <2>3. k \in Nat
    BY <1>1, <2>1, ZenonT(30)
  <2>4. /\ nextSid'[p] = k + 1 /\ offer'[p] = [to |-> "receiver", sid |-> k]
        /\ \A q \in Peers : q # p => /\ nextSid'[q] = nextSid[q]
                                     /\ offer'[q] = offer[q]
    BY <2>2, ZenonT(30) DEF TypeInv, TypeOK
  <2>5. SendFresh(p, k) /\ ~SendFresh(p, k)'
    BY <2>1, <2>3, <2>4, SMTT(30) DEF SendFresh
  <2>6. ASSUME NEW q \in Peers, NEW j \in 0..MaxSid, SendFresh(q, j)'
        PROVE  SendFresh(q, j)
    BY <1>1, <2>1, <2>3, <2>4, <2>6, SMTT(30) DEF SendFresh
  <2>7. \A q \in Peers : offer'[q].to # "none" => offer'[q].sid < nextSid'[q]
    BY <1>2, <2>3, <2>4, SMTT(30)
  <2>8. \A q \in Peers : offer'[q].to = "sender" =>
            \/ nextSid'[q] = offer'[q].sid + 1
            \/ offer'[q] = offer[q] /\ nextSid'[q] = nextSid[q]
    BY <2>4, SMTT(30)
  <2>9. Registers(p, k) /\ UNCHANGED budget
    BY <1>3, <2>1, <2>2, <2>5, Zenon DEF SenderAnswersHello, Registers
  <2>10. QED
    BY <2>6, <2>7, <2>8, <2>9, ZenonT(30) DEF HandshakeTakes
<1>4. ASSUME NEW p \in Peers, ReceiverAnswersHello(p) PROVE  HandshakeTakes
  <2>1. PICK k \in Sids : k = nextSid[p]
    BY <1>4, ZenonT(30) DEF ReceiverAnswersHello
  <2>2. /\ UNCHANGED <<senderVars, net>>
        /\ offer' = [offer EXCEPT ![p] = [to |-> "sender", sid |-> k]]
        /\ nextSid' = [nextSid EXCEPT ![p] = k + 1]
    BY <1>4, <2>1, ZenonT(30) DEF ReceiverAnswersHello, RegisterRecv
  <2>3. k \in Nat
    BY <1>1, <2>1, ZenonT(30)
  <2>4. /\ nextSid'[p] = k + 1 /\ offer'[p] = [to |-> "sender", sid |-> k]
        /\ \A q \in Peers : q # p => /\ nextSid'[q] = nextSid[q]
                                     /\ offer'[q] = offer[q]
    BY <2>2, ZenonT(30) DEF TypeInv, TypeOK
  <2>5. ASSUME NEW q \in Peers, NEW j \in 0..MaxSid, SendFresh(q, j)'
        PROVE  SendFresh(q, j)
    BY <1>1, <2>1, <2>3, <2>4, <2>5, SMTT(30) DEF SendFresh
  <2>6. \A q \in Peers : offer'[q].to # "none" => offer'[q].sid < nextSid'[q]
    BY <1>2, <2>3, <2>4, SMTT(30)
  <2>7. \A q \in Peers : offer'[q].to = "sender" =>
            \/ nextSid'[q] = offer'[q].sid + 1
            \/ offer'[q] = offer[q] /\ nextSid'[q] = nextSid[q]
    BY <2>4, SMTT(30)
  <2>8. UNCHANGED budget
    BY <1>4, ZenonT(30) DEF ReceiverAnswersHello
  <2>9. QED
    BY <2>2, <2>5, <2>6, <2>7, <2>8, ZenonT(30) DEF HandshakeTakes
<1>5. ASSUME NEW p \in Peers, SenderTakesHelloAck(p) PROVE  HandshakeTakes
  <2>1. PICK k \in Sids : k = offer[p].sid
    BY <1>5, WireAssumption, SidsPositive, ZenonT(30)
    DEF SenderTakesHelloAck, SessionsNamed, Offers, Sids, TypeInv, TypeOK
  <2>2. /\ RegisterSend(p, k) /\ offer[p].to = "sender"
        /\ offer' = [offer EXCEPT ![p] = NoOffer] /\ UNCHANGED nextSid
    BY <1>5, <2>1, ZenonT(30) DEF SenderTakesHelloAck
  <2>3. k \in Nat /\ k < nextSid[p]
    BY <1>1, <1>2, <2>1, <2>2, ZenonT(30)
  <2>4. /\ offer'[p] = NoOffer
        /\ \A q \in Peers : q # p => offer'[q] = offer[q]
    BY <2>2, ZenonT(30) DEF TypeInv, TypeOK
  <2>5. SendFresh(p, k) /\ ~SendFresh(p, k)'
    BY <1>1, <2>1, <2>2, <2>3, <2>4, SMTT(30) DEF SendFresh, NoOffer
  <2>6. ASSUME NEW q \in Peers, NEW j \in 0..MaxSid, SendFresh(q, j)'
        PROVE  SendFresh(q, j)
    BY <2>2, <2>4, <2>6, SMTT(30) DEF SendFresh, NoOffer
  <2>7. \A q \in Peers : offer'[q].to # "none" => offer'[q].sid < nextSid'[q]
    BY <1>2, <2>2, <2>4, SMTT(30) DEF NoOffer
  <2>8. \A q \in Peers : offer'[q].to = "sender" =>
            \/ nextSid'[q] = offer'[q].sid + 1
            \/ offer'[q] = offer[q] /\ nextSid'[q] = nextSid[q]
    BY <2>2, <2>4, SMTT(30) DEF NoOffer
  <2>9. Registers(p, k) /\ UNCHANGED budget
    BY <1>5, <2>1, <2>2, <2>5, Zenon DEF SenderTakesHelloAck, Registers
  <2>10. QED
    BY <2>6, <2>7, <2>8, <2>9, ZenonT(30) DEF HandshakeTakes
<1>6. ASSUME NEW p \in Peers, ReceiverTakesHelloAck(p) PROVE  HandshakeTakes
  <2>1. /\ UNCHANGED <<senderVars, net, nextSid>>
        /\ offer' = [offer EXCEPT ![p] = NoOffer]
    BY <1>6, ZenonT(30) DEF ReceiverTakesHelloAck, RegisterRecv
  <2>2. /\ offer'[p] = NoOffer
        /\ \A q \in Peers : q # p => offer'[q] = offer[q]
    BY <2>1, ZenonT(30) DEF TypeInv, TypeOK
  <2>3. ASSUME NEW q \in Peers, NEW j \in 0..MaxSid, SendFresh(q, j)'
        PROVE  SendFresh(q, j)
    BY <2>1, <2>2, <2>3, SMTT(30) DEF SendFresh, NoOffer
  <2>4. \A q \in Peers : offer'[q].to # "none" => offer'[q].sid < nextSid'[q]
    BY <1>2, <2>1, <2>2 DEF NoOffer
  <2>5. \A q \in Peers : offer'[q].to = "sender" =>
            \/ nextSid'[q] = offer'[q].sid + 1
            \/ offer'[q] = offer[q] /\ nextSid'[q] = nextSid[q]
    BY <2>1, <2>2, SMTT(30) DEF NoOffer
  <2>6. UNCHANGED budget
    BY <1>6, ZenonT(30) DEF ReceiverTakesHelloAck
  <2>7. QED
    BY <2>1, <2>3, <2>4, <2>5, <2>6, ZenonT(30) DEF HandshakeTakes
<1>7. QED
  BY <1>3, <1>4, <1>5, <1>6, ZenonT(30) DEF Handshakes

\* The numbers stay in order in a handshake.
LEMMA HandshakeSendStep ==
    ASSUME TypeInv, SendInv, Handshakes
    PROVE  SendInv'
<1>1. ASSUME NEW p \in Peers, NEW k \in Sids, RegisterSend(p, k),
             SendFresh(p, k), ~SendFresh(p, k)',
             \A q \in Peers : \A j \in 0..MaxSid :
                 SendFresh(q, j)' => SendFresh(q, j),
             \A q \in Peers : offer'[q].to # "none" => offer'[q].sid < nextSid'[q]
      PROVE  SendInv'
  <2>1. /\ NumbersOK'
        /\ \A q \in Peers : \A j \in Sids :
              q # p \/ j # k => sendSeq'[q][j] = sendSeq[q][j]
    BY <1>1, RegisterNumbers, ZenonT(30)
  <2>2. FreshUnused'
    <3>1. ASSUME NEW q \in Peers, NEW j \in Sids, SendFresh(q, j)'
          PROVE  sendSeq'[q][j] = 0
      <4>1. q # p \/ j # k
        BY <1>1, <3>1, ZenonT(30) DEF SendFresh
      <4>2. j \in 0..MaxSid
        BY WireAssumption, SMTT(30) DEF Sids
      <4>3. SendFresh(q, j)
        BY <1>1, <3>1, <4>2, ZenonT(30)
      <4>4. QED
        BY <2>1, <4>1, <4>3, ZenonT(30) DEF SendInv, FreshUnused
    <3>2. QED
      BY <3>1, ZenonT(30) DEF FreshUnused
  <2>3. /\ sSession' = [sSession EXCEPT ![p] = k]
        /\ UNCHANGED inserting
        /\ flush' = [flush EXCEPT ![p][k].stage = "saving"]
    BY <1>1, ZenonT(30) DEF RegisterSend
  <2>4. \A q \in Peers : sSession'[q] # 0 =>
            sSession'[q] = sSession[q] \/ ~SendFresh(q, sSession[q])'
    BY <1>1, <2>3 DEF SenderTypeOK, SendFresh
  <2>5. ASSUME NEW q \in Peers, NEW j \in Sids, flush'[q][j].stage = "flushing"
        PROVE  flush'[q][j] = flush[q][j]
    <3>1. flush'[p][k].stage = "saving"
      BY <2>3 DEF SenderTypeOK, Flushes, TypeInv, TypeOK
    <3>2. q # p \/ j # k
      BY <2>5, <3>1, ZenonT(30)
    <3>3. QED
      BY <2>3, <3>2 DEF SenderTypeOK
  <2>6. InUse'
    BY <1>1, <2>3, <2>4, <2>5, FreshShrinks, ZenonT(30) DEF SendInv
  <2>7. QED
    BY <2>1, <2>2, <2>6, ZenonT(30) DEF SendInv
<1>2. ASSUME UNCHANGED <<senderVars, net>>,
             \A q \in Peers : \A j \in 0..MaxSid :
                 SendFresh(q, j)' => SendFresh(q, j),
             \A q \in Peers : offer'[q].to # "none" => offer'[q].sid < nextSid'[q]
      PROVE  SendInv'
  <2>1. NumbersOK'
    BY <1>2, QuietNumbers, ZenonT(30) DEF senderVars, SendInv
  <2>2. \A j \in Sids : j \in 0..MaxSid
    BY WireAssumption, SMTT(30) DEF Sids
  <2>3. FreshUnused'
    BY <1>2, <2>2, ZenonT(30) DEF SendInv, FreshUnused, senderVars
  <2>4. InUse'
    BY <1>2, FreshShrinks, ZenonT(30) DEF SendInv, senderVars
  <2>5. QED
    BY <2>1, <2>3, <2>4, ZenonT(30) DEF SendInv
<1>3. HandshakeTakes
  BY HandshakeStep, ZenonT(30)
<1>4. QED
  BY <1>1, <1>2, <1>3, ZenonT(30) DEF HandshakeTakes, Registers

\* A lost peer or a restart takes sessions, writes and offers away.
LEMMA FaultSendStep ==
    ASSUME TypeInv, SendInv, FaultsHappen
    PROVE  SendInv'
<1>1. ASSUME UNCHANGED <<sendSeq, nextSid>>, NumbersOK',
             \A q \in Peers : offer'[q] \in {offer[q], NoOffer},
             \A q \in Peers : sSession'[q] \in {0, sSession[q]},
             \A m \in Msgs : inserting'[m] \in {0, inserting[m]},
             \A q \in Peers : \A j \in Sids : flush'[q][j] \in {NoFlush, flush[q][j]}
      PROVE  SendInv'
  <2>1. ASSUME NEW q \in Peers, NEW j, SendFresh(q, j)'
        PROVE  SendFresh(q, j)
    BY <1>1, <2>1 DEF SendFresh, NoOffer
  <2>2. \A q \in Peers : \A j \in 0..MaxSid : SendFresh(q, j)' => SendFresh(q, j)
    BY <2>1, ZenonT(30)
  <2>3. FreshUnused'
    <3>1. ASSUME NEW q \in Peers, NEW j \in Sids, SendFresh(q, j)'
          PROVE  sendSeq'[q][j] = 0
      BY <1>1, <2>1, <3>1, ZenonT(30) DEF SendInv, FreshUnused
    <3>2. QED
      BY <3>1, ZenonT(30) DEF FreshUnused
  <2>4. \A q \in Peers : \A j \in Sids : flush'[q][j].stage = "flushing" =>
            /\ flush[q][j].stage = "flushing"
            /\ flush'[q][j].sid = flush[q][j].sid
    <3>1. NoFlush.stage # "flushing"
      BY ZenonT(30) DEF NoFlush
    <3>2. QED
      BY <1>1, <3>1, ZenonT(30)
  <2>5. \A q \in Peers : offer'[q].to # "none" => offer'[q].sid < nextSid'[q]
    <3>1. NoOffer.to = "none"
      BY ZenonT(30) DEF NoOffer
    <3>2. QED
      BY <1>1, <3>1, ZenonT(30) DEF SendInv, InUse
  <2>6. InUse'
    BY <1>1, <2>2, <2>4, <2>5, FreshShrinks, ZenonT(30) DEF SendInv
  <2>7. QED
    BY <1>1, <2>3, <2>6, ZenonT(30) DEF SendInv
<1>2. ASSUME UNCHANGED <<senderVars, net>> PROVE NumbersOK'
  BY <1>2, QuietNumbers, ZenonT(30) DEF senderVars, SendInv
<1>3. ASSUME NEW p \in Peers, SenderLosesPeer(p) PROVE SendInv'
  <2>1. /\ sSession' = [sSession EXCEPT ![p] = 0]
        /\ UNCHANGED <<sendSeq, inserting, flush, writes, sendRow, net,
                       nextSid, offer>>
    BY <1>3, ZenonT(30) DEF SenderLosesPeer, DropSendSession
  <2>2. NumbersOK'
    BY <2>1, QuietNumbers, ZenonT(30) DEF SendInv
  <2>3. \A q \in Peers : sSession'[q] \in {0, sSession[q]}
    BY <2>1, ZenonT(30) DEF TypeInv, TypeOK, SenderTypeOK
  <2>4. QED
    BY <1>1, <2>1, <2>2, <2>3, ZenonT(30)
<1>4. ASSUME NEW p \in Peers, ReceiverLosesPeer(p) PROVE SendInv'
  <2>1. UNCHANGED <<senderVars, net, nextSid, offer>>
    BY <1>4, ZenonT(30) DEF ReceiverLosesPeer, DropRecvSession
  <2>2. QED
    BY <1>1, <1>2, <2>1, Zenon DEF senderVars
<1>5. ASSUME NEW p \in Peers, ReceiverCrashes(p) PROVE SendInv'
  <2>1. UNCHANGED <<senderVars, net, nextSid>>
    BY <1>5, ZenonT(30) DEF ReceiverCrashes, RestartReceiver
  <2>2. \A q \in Peers : offer'[q] \in {offer[q], NoOffer}
    BY <1>5, ZenonT(30) DEF TypeInv, TypeOK, ReceiverCrashes, Forget
  <2>3. QED
    BY <1>1, <1>2, <2>1, <2>2, ZenonT(30) DEF senderVars
<1>6. CASE SenderCrashes
  <2>1. /\ sSession' = [p \in Peers |-> 0]
        /\ inserting' = [m \in Msgs |-> 0]
        /\ flush' = [p \in Peers |-> [k \in Sids |-> NoFlush]]
        /\ writes' = <<>>
        /\ offer' = [p \in Peers |-> Forget(offer[p], "sender")]
        /\ UNCHANGED <<sendSeq, sendRow, net, nextSid>>
    BY <1>6, ZenonT(30) DEF SenderCrashes, RestartSender
  <2>2. NumbersOK'
    <3>1. QueueOK(<<>>, sendRow, sendSeq)
      BY EmptyQueue, ZenonT(30) DEF QueueOK
    <3>2. IssuedIn(<<>>, net) \subseteq IssuedIn(writes, net)
      BY DEF IssuedIn
    <3>3. Unique(IssuedIn(<<>>, net))
      BY <3>2, UniqueSubset, ZenonT(30) DEF SendInv, NumbersOK
    <3>4. QED
      BY <2>1, <3>1, <3>3, ZenonT(30)
      DEF SendInv, NumbersOK, RowsBehind, SavedBeforeSent, DataSent
  <2>3. \A q \in Peers : offer'[q] \in {offer[q], NoOffer}
    BY <2>1, ZenonT(30) DEF Forget
  <2>4. QED
    BY <1>1, <2>1, <2>2, <2>3, ZenonT(30)
<1>7. QED
  BY <1>3, <1>4, <1>5, <1>6, ZenonT(30) DEF FaultsHappen

\* The receivers leave the sender's numbers alone.
LEMMA ReceiverSendStep ==
    ASSUME TypeInv, SendInv, (\E d \in DataSent : HandleData(d)) \/ ReceiverWorks,
           UNCHANGED <<senderVars, handshakeVars>>
    PROVE  SendInv'
<1>1. \A d \in net' \ net : d.type # "DATA"
  BY ReceiversSendNoData, Zenon
<1>2. UNCHANGED <<sendRow, sendSeq, writes, sSession, inserting, flush, nextSid,
                  offer>>
  BY ZenonT(30) DEF senderVars, handshakeVars
<1>3. NumbersOK'
  BY <1>1, <1>2, NetNumbers, ZenonT(30) DEF SendInv
<1>4. FreshUnused' /\ InUse'
  BY <1>2, ZenonT(30) DEF SendInv, FreshUnused, InUse, SendFresh
<1>5. QED
  BY <1>3, <1>4, ZenonT(30) DEF SendInv

\* Before any message is sent nothing is numbered.
LEMMA SendInit == Init => SendInv
<1> SUFFICES ASSUME Init PROVE SendInv
  BY ZenonT(30)
<1>1. /\ sendRow = [p \in Peers |-> [k \in Sids |-> 0]]
      /\ sendSeq = [p \in Peers |-> [k \in Sids |-> 0]]
      /\ writes = <<>> /\ net = {}
      /\ sSession = [p \in Peers |-> 0]
      /\ inserting = [m \in Msgs |-> 0]
      /\ flush = [p \in Peers |-> [k \in Sids |-> NoFlush]]
      /\ offer = [p \in Peers |-> NoOffer]
  BY ZenonT(30) DEF Init, SenderInit
<1>2. NumbersOK
  <2>1. RowsBehind(sendRow, sendSeq)
    BY <1>1, Successor, Ordered, ZenonT(30) DEF RowsBehind
  <2>2. QueueOK(<<>>, sendRow, sendSeq)
    BY DEF QueueOK
  <2>3. SavedBeforeSent
    BY <1>1, ZenonT(30) DEF SavedBeforeSent, DataSent
  <2>4. IssuedIn(<<>>, {}) = {}
    BY DEF IssuedIn
  <2>5. QED
    BY <1>1, <2>1, <2>2, <2>3, <2>4, ZenonT(30) DEF NumbersOK, Unique
<1>3. FreshUnused
  BY <1>1, ZenonT(30) DEF FreshUnused
<1>4. InUse
  BY <1>1, ZenonT(30) DEF InUse, NoFlush, NoOffer
<1>5. QED
  BY <1>2, <1>3, <1>4, ZenonT(30) DEF SendInv

\* Every step of the system keeps the sender's numbers in order.
LEMMA SendStep == TypeInv /\ SendInv /\ [Next]_vars => SendInv'
<1> SUFFICES ASSUME TypeInv, SendInv, [Next]_vars PROVE SendInv'
  BY ZenonT(30)
<1>1. CASE UNCHANGED vars
  <2>1. UNCHANGED <<sendRow, sendSeq, writes, net, nextSid, offer, sSession,
                    inserting, flush>>
    BY <1>1, ZenonT(30) DEF vars, senderVars
  <2>2. NumbersOK'
    BY <2>1, QuietNumbers, ZenonT(30) DEF SendInv
  <2>3. FreshUnused' /\ InUse'
    BY <2>1, ZenonT(30) DEF SendInv, FreshUnused, InUse, SendFresh
  <2>4. QED
    BY <2>2, <2>3, ZenonT(30) DEF SendInv
<1>2. CASE Next
  BY <1>2, SenderSendStep, ReceiverSendStep, HandshakeSendStep, FaultSendStep,
     ZenonT(30)
  DEF Next
<1>3. QED
  BY <1>1, <1>2, ZenonT(30)

\* "Update send_sequence in DB BEFORE sending" (node.py): in every execution,
\* crashes and session changes included, no packet built from the queue
\* carries a number the database has not passed.
THEOREM SendCounterSaved == Spec => []SavedBeforeSent
<1>1. Init => TypeInv /\ SendInv
  BY TypeInit, SendInit, ZenonT(30)
<1>2. TypeInv /\ SendInv /\ [Next]_vars => (TypeInv /\ SendInv)'
  BY TypeStep, SendStep, ZenonT(30)
<1>3. SendInv => SavedBeforeSent
  BY ZenonT(30) DEF SendInv, NumbersOK
<1>4. QED
  BY <1>1, <1>2, <1>3, PTL DEF Spec

\* next_sequence is called from send_message, the flushes and the retry loop
\* at once, and they hold sessions across awaits: two messages never leave
\* under one number of one session.
THEOREM NoNumberTwice == Spec => []QueueNumbersOnce
<1>1. Init => TypeInv /\ SendInv
  BY TypeInit, SendInit, ZenonT(30)
<1>2. TypeInv /\ SendInv /\ [Next]_vars => (TypeInv /\ SendInv)'
  BY TypeStep, SendStep, ZenonT(30)
<1>3. SendInv => QueueNumbersOnce
  BY Zenon DEF SendInv, NumbersOK, Unique, IssuedIn, QueueNumbersOnce, DataSent
<1>4. QED
  BY <1>1, <1>2, <1>3, PTL DEF Spec
=============================================================================
