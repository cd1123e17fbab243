----------------------- MODULE DeliveryReceiveProofs ------------------------
EXTENDS DeliverySendProofs, FiniteSetTheorems

RowValues == [Sids -> Nat \cup {NoRow}]
SeqValues == [Sids -> Nat]

\* A saved row and the numbers above it.
LEMMA RowOrder ==
    ASSUME NEW x \in Nat \cup {NoRow}
    PROVE  /\ x =< x
           /\ \A b \in Nat : x < b => x =< b
           /\ \A a, b \in Nat : x =< a /\ a < b => x < b
           /\ \A b \in Nat : x = b => b =< x
  BY DEF NoRow

(***************************************************************************)
(* The numbers a queue of writes ws still has to save lie above the row,   *)
(* up to the counter in memory, and grow.                                  *)
(***************************************************************************)
RecvQueueOK(ws, row, ctr) ==
    /\ \A i \in 1..Len(ws) :
          row[ws[i].sid] < ws[i].seq /\ ws[i].seq =< ctr[ws[i].sid]
    /\ \A i, j \in 1..Len(ws) :
          (i < j /\ ws[i].sid = ws[j].sid) => ws[i].seq < ws[j].seq

(***************************************************************************)
(* The log is in order, and the row has reached every number in it and     *)
(* that of the message to be appended, which is above those in the log.    *)
(***************************************************************************)
LogOK(entries, next, row) ==
    /\ \A i \in 1..Len(entries) : entries[i].seq =< row[entries[i].sid]
    /\ \A i, j \in 1..Len(entries) :
          (i < j /\ entries[i].sid = entries[j].sid)
              => entries[i].seq < entries[j].seq
    /\ next # <<>> =>
          /\ Head(next).seq =< row[Head(next).sid]
          /\ \A i \in 1..Len(entries) :
                entries[i].sid = Head(next).sid
                    => entries[i].seq < Head(next).seq

ReceiverOK(p) ==
    /\ RecvQueueOK(rWrites[p], recvRow[p], recvSeq[p])
    /\ \A k \in Sids : recvRow[p][k] =< recvSeq[p][k]
    /\ LogOK(log[p], logging[p], recvRow[p])

\* Session k has not been registered at receiver p, and still may be.
RecvFresh(p, k) ==
    \/ nextSid[p] =< k
    \/ offer[p].to = "receiver" /\ offer[p].sid = k

\* A session is registered at most once: nothing is there of a fresh one.
RecvUnused ==
    /\ \A p \in Peers : offer[p].to = "receiver" => offer[p].sid < nextSid[p]
    /\ \A p \in Peers : \A k \in Sids : RecvFresh(p, k) =>
          /\ rSession[p] # k
          /\ recvRow[p][k] = NoRow
          /\ \A i \in 1..Len(rWrites[p]) : rWrites[p][i].sid # k

(***************************************************************************)
(* The inductive invariant.  SavedBeforeAcked and LoggedInOrder speak of   *)
(* the row and the log; the numbers in between are in the queue of the     *)
(* database, and a session that could be registered twice would start its  *)
(* numbers again.                                                          *)
(***************************************************************************)
RecvInv ==
    RecvUnused /\ (\A p \in Peers : ReceiverOK(p)) /\ SavedBeforeAcked
-----------------------------------------------------------------------------
\* A write of a higher number joins the queue.
LEMMA RecvQueueAdd ==
    ASSUME NEW ws \in Seq(RWrites), NEW row \in RowValues,
           NEW ctr \in SeqValues, NEW new \in SeqValues, NEW w \in RWrites,
           RecvQueueOK(ws, row, ctr),
           \A i \in 1..Len(ws) : ws[i].seq =< new[ws[i].sid],
           row[w.sid] < w.seq, w.seq =< new[w.sid],
           \A i \in 1..Len(ws) : ws[i].sid = w.sid => ws[i].seq < w.seq
    PROVE  RecvQueueOK(Append(ws, w), row, new)
<1>1. /\ Len(Append(ws, w)) = Len(ws) + 1 /\ Len(ws) \in Nat
      /\ \A i \in 1..Len(ws) : Append(ws, w)[i] = ws[i]
      /\ Append(ws, w)[Len(ws) + 1] = w
  OBVIOUS
<1>2. \A i \in 1..Len(Append(ws, w)) : i \in 1..Len(ws) \/ i = Len(ws) + 1
  BY <1>1
<1>3. ASSUME NEW i \in 1..Len(Append(ws, w)), NEW j \in 1..Len(Append(ws, w)), i < j
      PROVE  i \in 1..Len(ws)
  BY <1>1, <1>3
<1>4. QED
  BY <1>1, <1>2, <1>3, ZenonT(30) DEF RecvQueueOK

\* The row when the write w is executed.
Executed(row, w) == [row EXCEPT ![w.sid] = w.seq]

\* The head of the queue is executed: the row grows to its number, and stays
\* below the others and behind the counter.
LEMMA RecvQueueExecute ==
    ASSUME NEW ws \in Seq(RWrites), ws # <<>>, NEW row \in RowValues,
           NEW ctr \in SeqValues, RecvQueueOK(ws, row, ctr),
           \A k \in Sids : row[k] =< ctr[k]
    PROVE  /\ RecvQueueOK(Tail(ws), Executed(row, Head(ws)), ctr)
           /\ \A k \in Sids : /\ row[k] =< Executed(row, Head(ws))[k]
                               /\ Executed(row, Head(ws))[k] =< ctr[k]
           /\ Executed(row, Head(ws))[Head(ws).sid] = Head(ws).seq
           /\ row[Head(ws).sid] < Head(ws).seq
           /\ Executed(row, Head(ws)) \in RowValues
<1> DEFINE new == Executed(row, Head(ws))
<1>1. /\ Len(Tail(ws)) = Len(ws) - 1 /\ Len(ws) \in Nat \ {0}
      /\ \A i \in 1..Len(Tail(ws)) : Tail(ws)[i] = ws[i + 1]
      /\ \A i \in 1..Len(Tail(ws)) : i + 1 \in 1..Len(ws) /\ 1 < i + 1
      /\ 1 \in 1..Len(ws) /\ Head(ws) = ws[1]
  OBVIOUS
<1>2. \A i \in 1..Len(ws) : ws[i] \in RWrites /\ ws[i].sid \in Sids /\ ws[i].seq \in Nat
  BY DEF RWrites
<1>3. row[ws[1].sid] < ws[1].seq /\ ws[1].seq =< ctr[ws[1].sid]
  BY <1>1, ZenonT(30) DEF RecvQueueOK
<1>4. /\ new[ws[1].sid] = ws[1].seq
      /\ \A k \in Sids : k # ws[1].sid => new[k] = row[k]
      /\ new \in RowValues
  BY <1>1, <1>2, ZenonT(30) DEF RowValues, Executed
<1> HIDE DEF new
<1>5. \A k \in Sids : row[k] =< new[k] /\ new[k] =< ctr[k]
  <2>1. \A k \in Sids : row[k] \in Int /\ ctr[k] \in Int
    BY DEF RowValues, SeqValues, NoRow
  <2>2. QED
    BY <1>1, <1>2, <1>3, <1>4, <2>1
<1>6. ASSUME NEW i \in 1..Len(Tail(ws))
      PROVE  new[Tail(ws)[i].sid] < Tail(ws)[i].seq
  <2>1. CASE ws[i + 1].sid = ws[1].sid
    <3>1. ws[1].seq < ws[i + 1].seq
      BY <1>1, <2>1, ZenonT(30) DEF RecvQueueOK
    <3>2. QED
      BY <1>1, <1>4, <2>1, <3>1, ZenonT(30)
  <2>2. CASE ws[i + 1].sid # ws[1].sid
    <3>1. row[ws[i + 1].sid] < ws[i + 1].seq
      BY <1>1, ZenonT(30) DEF RecvQueueOK
    <3>2. QED
      BY <1>1, <1>2, <1>4, <2>2, <3>1, ZenonT(30)
  <2>3. QED
    BY <2>1, <2>2, ZenonT(30)
<1>7. RecvQueueOK(Tail(ws), new, ctr)
  BY <1>1, <1>6 DEF RecvQueueOK
<1>8. QED
  BY <1>1, <1>3, <1>4, <1>5, <1>7, ZenonT(30) DEF new

\* A row that grows keeps the log behind it.
LEMMA LogRaise ==
    ASSUME NEW entries \in Seq(Received), NEW next \in Seq(Received),
           NEW row \in RowValues, NEW new \in RowValues,
           \A k \in Sids : row[k] =< new[k], LogOK(entries, next, row)
    PROVE  LogOK(entries, next, new)
<1>1. \A r \in Received : r.sid \in Sids /\ r.seq \in Nat
  BY ZenonT(30) DEF Received
<1>2. \A k \in Sids : row[k] \in Int /\ new[k] \in Int
  BY DEF RowValues, NoRow
<1>3. \A i \in 1..Len(entries) : entries[i] \in Received
  OBVIOUS
<1>4. next # <<>> => Head(next) \in Received
  OBVIOUS
<1>5. ASSUME NEW r \in Received, r.seq =< row[r.sid]
      PROVE  r.seq =< new[r.sid]
  BY <1>1, <1>2, <1>5
<1>6. QED
  BY <1>3, <1>4, <1>5, ZenonT(30) DEF LogOK

\* The message in hand is appended.
LEMMA LogAppend ==
    ASSUME NEW entries \in Seq(Received), NEW next \in Seq(Received),
           next # <<>>, NEW row \in RowValues, LogOK(entries, next, row)
    PROVE  LogOK(Append(entries, Head(next)), <<>>, row)
<1> DEFINE r == Head(next)
           longer == Append(entries, r)
<1>1. r \in Received
  OBVIOUS
<1>2. /\ Len(longer) = Len(entries) + 1 /\ Len(entries) \in Nat
      /\ \A i \in 1..Len(entries) : longer[i] = entries[i]
      /\ longer[Len(entries) + 1] = r
  BY <1>1
<1>3. \A i \in 1..Len(longer) : i \in 1..Len(entries) \/ i = Len(entries) + 1
  BY <1>2
<1>4. ASSUME NEW i \in 1..Len(longer), NEW j \in 1..Len(longer), i < j
      PROVE  i \in 1..Len(entries)
  BY <1>2, <1>4
<1> HIDE DEF longer
<1>5. QED
  BY <1>2, <1>3, <1>4, ZenonT(30) DEF LogOK, longer

\* A message whose number is above the row as it was is taken in hand.
LEMMA LogTake ==
    ASSUME NEW entries \in Seq(Received), NEW r \in Received,
           NEW row \in RowValues, NEW new \in RowValues,
           LogOK(entries, <<>>, row), LogOK(entries, <<>>, new),
           row[r.sid] < r.seq, r.seq =< new[r.sid]
    PROVE  LogOK(entries, <<r>>, new)
<1>1. ASSUME NEW i \in 1..Len(entries), entries[i].sid = r.sid
      PROVE  entries[i].seq < r.seq
  <2>1. entries[i].seq =< row[r.sid]
    BY <1>1, ZenonT(30) DEF LogOK
  <2>2. entries[i] \in Received
    OBVIOUS
  <2>3. entries[i].seq \in Nat /\ r.seq \in Nat /\ row[r.sid] \in Int
    BY <2>2 DEF Received, RowValues, NoRow
  <2>4. QED
    BY <2>1, <2>3
<1>2. Head(<<r>>) = r
  OBVIOUS
<1>3. QED
  BY <1>1, <1>2, ZenonT(30) DEF LogOK
-----------------------------------------------------------------------------
\* What a receiver p is made of has its type.
LEMMA ReceiverParts ==
    ASSUME TypeInv, NEW p \in Peers
    PROVE  /\ rWrites[p] \in Seq(RWrites)
           /\ recvRow[p] \in RowValues /\ recvSeq[p] \in SeqValues
           /\ log[p] \in Seq(Received) /\ logging[p] \in Seq(Received)
BY ZenonT(30) DEF TypeInv, TypeOK, ReceiverTypeOK, RowValues, SeqValues

\* A receiver that does nothing stays as it is.
LEMMA ReceiverStays ==
    ASSUME NEW p \in Peers, ReceiverOK(p),
           rWrites'[p] = rWrites[p], recvRow'[p] = recvRow[p],
           recvSeq'[p] = recvSeq[p], log'[p] = log[p],
           logging'[p] = logging[p]
    PROVE  ReceiverOK(p)'
BY ZenonT(30) DEF ReceiverOK, RecvQueueOK, LogOK

\* A step of the sending node: the receivers do nothing, no ACK is sent, and
\* no session becomes fresh.
LEMMA OthersStep ==
    ASSUME RecvInv, UNCHANGED receiverVars, AcksSent' \subseteq AcksSent,
           \A p \in Peers : offer'[p].to = "receiver" => offer'[p].sid < nextSid'[p],
           \A p \in Peers : \A k \in Sids : RecvFresh(p, k)' => RecvFresh(p, k)
    PROVE  RecvInv'
<1>1. \A p \in Peers : ReceiverOK(p)'
  BY ReceiverStays, ZenonT(30) DEF RecvInv, receiverVars
<1>2. SavedBeforeAcked'
  BY ZenonT(30) DEF RecvInv, receiverVars, SavedBeforeAcked
<1>3. RecvUnused'
  BY ZenonT(30) DEF RecvInv, receiverVars, RecvUnused
<1>4. QED
  BY <1>1, <1>2, <1>3, ZenonT(30) DEF RecvInv

\* The sender's own steps.
LEMMA SenderRecvStep ==
    ASSUME TypeInv, RecvInv, SendMessage \/ SenderWorks \/ SenderHears,
           UNCHANGED <<receiverVars, handshakeVars>>
    PROVE  RecvInv'
BY SenderSendsData, OthersStep, ZenonT(30)
DEF handshakeVars, RecvInv, RecvUnused, RecvFresh

\* A step of receiver p is none of the others.
LEMMA OneReceiver ==
    ASSUME RecvInv, NEW p \in Peers, ReceiverOK(p)',
           \A q \in Peers \ {p} :
              /\ rWrites'[q] = rWrites[q] /\ recvRow'[q] = recvRow[q]
              /\ recvSeq'[q] = recvSeq[q] /\ log'[q] = log[q]
              /\ logging'[q] = logging[q]
    PROVE  \A q \in Peers : ReceiverOK(q)'
BY ReceiverStays, ZenonT(30) DEF RecvInv

\* The row grew or stayed, so what was acknowledged is still covered.
LEMMA AckedStays ==
    ASSUME TypeInv, RecvInv,
           \A q \in Peers : \A k \in Sids : recvRow[q][k] =< recvRow'[q][k],
           recvRow' \in [Peers -> RowValues]
    PROVE  \A a \in AcksSent : recvRow'[a.peer][a.sid] >= a.seq
<1>1. ASSUME NEW a \in AcksSent
      PROVE  recvRow'[a.peer][a.sid] >= a.seq
  <2>1. a \in Packets /\ a.type = "ACK"
    BY ZenonT(30) DEF TypeInv, TypeOK, AcksSent
  <2>2. a.peer \in Peers /\ a.sid \in Sids /\ a.seq \in Nat
    BY <2>1, ZenonT(30) DEF Packets, DataPackets
  <2>3. recvRow[a.peer][a.sid] \in Int /\ recvRow'[a.peer][a.sid] \in Int
    BY <2>2, ReceiverParts DEF RowValues, NoRow
  <2>4. recvRow[a.peer][a.sid] >= a.seq
    BY ZenonT(30) DEF RecvInv, SavedBeforeAcked
  <2>5. recvRow[a.peer][a.sid] =< recvRow'[a.peer][a.sid]
    BY <2>2, ZenonT(30)
  <2>6. QED
    BY <2>2, <2>3, <2>4, <2>5
<1>2. QED
  BY <1>1, ZenonT(30)

\* The head of p's queue is executed: the part that both kinds of write share.
LEMMA RowExecuted ==
    ASSUME TypeInv, RecvInv, NEW p \in Peers, rWrites[p] # <<>>,
           recvRow' = [recvRow EXCEPT ![p][Head(rWrites[p]).sid] =
                           Head(rWrites[p]).seq],
           rWrites' = [rWrites EXCEPT ![p] = Tail(@)],
           UNCHANGED <<rSession, recvSeq, nextSid, offer>>
    PROVE  /\ RecvQueueOK(rWrites'[p], recvRow'[p], recvSeq'[p])
           /\ \A k \in Sids : recvRow'[p][k] =< recvSeq'[p][k]
           /\ recvRow' \in [Peers -> RowValues]
           /\ \A q \in Peers : \A k \in Sids : recvRow[q][k] =< recvRow'[q][k]
           /\ \A q \in Peers \ {p} :
                 rWrites'[q] = rWrites[q] /\ recvRow'[q] = recvRow[q]
           /\ Head(rWrites[p]).sid \in Sids /\ Head(rWrites[p]).seq \in Nat
           /\ recvRow'[p][Head(rWrites[p]).sid] = Head(rWrites[p]).seq
           /\ recvRow[p][Head(rWrites[p]).sid] < Head(rWrites[p]).seq
           /\ RecvUnused'
<1> DEFINE ws == rWrites[p]
           w == Head(ws)
           new == Executed(recvRow[p], w)
<1>1. /\ ws \in Seq(RWrites) /\ recvRow[p] \in RowValues
      /\ recvSeq[p] \in SeqValues
  BY ReceiverParts, ZenonT(30)
<1>2. w \in RWrites /\ w.sid \in Sids /\ w.seq \in Nat
  <2>1. w \in RWrites
    BY <1>1, HeadAndTail, ZenonT(30)
  <2>2. QED
    BY <2>1, ZenonT(30) DEF RWrites
<1>3. /\ recvRow \in [Peers -> RowValues] /\ recvSeq \in [Peers -> SeqValues]
      /\ rWrites \in [Peers -> Seq(RWrites)]
  BY ZenonT(30) DEF TypeInv, TypeOK, ReceiverTypeOK, RowValues, SeqValues
<1>4. recvRow' = [recvRow EXCEPT ![p] = new]
  BY <1>3, ZenonT(30) DEF Executed
<1>5. recvRow'[p] = new /\ rWrites'[p] = Tail(ws) /\ recvSeq'[p] = recvSeq[p]
  BY <1>3, <1>4, Zenon
<1>6. \A q \in Peers \ {p} : rWrites'[q] = rWrites[q] /\ recvRow'[q] = recvRow[q]
  BY <1>3, <1>4, ZenonT(30)
<1>7. ReceiverOK(p)
  BY ZenonT(30) DEF RecvInv
<1>8. /\ RecvQueueOK(Tail(ws), new, recvSeq[p])
      /\ \A k \in Sids : recvRow[p][k] =< new[k] /\ new[k] =< recvSeq[p][k]
      /\ new[w.sid] = w.seq /\ recvRow[p][w.sid] < w.seq
      /\ new \in RowValues
  <2>1. /\ RecvQueueOK(ws, recvRow[p], recvSeq[p])
        /\ \A k \in Sids : recvRow[p][k] =< recvSeq[p][k]
    BY <1>7, ZenonT(30) DEF ReceiverOK
  <2>2. QED
    BY <1>1, <2>1, RecvQueueExecute, ZenonT(30)
<1>9. recvRow' \in [Peers -> RowValues]
  BY <1>3, <1>4, <1>8, Zenon
<1>10. \A q \in Peers : \A k \in Sids : recvRow[q][k] =< recvRow'[q][k]
  <2>1. \A q \in Peers : \A k \in Sids : recvRow[q][k] \in Nat \cup {NoRow}
    BY <1>3, ZenonT(30) DEF RowValues
  <2>2. QED
    BY <1>5, <1>6, <1>8, <2>1, RowOrder, ZenonT(30)
<1>11. RecvUnused'
  <2>1. ASSUME NEW q \in Peers, NEW k \in Sids, RecvFresh(q, k)
        PROVE  /\ rSession[q] # k
               /\ recvRow'[q][k] = NoRow
               /\ \A i \in 1..Len(rWrites'[q]) : rWrites'[q][i].sid # k
    <3>1. /\ rSession[q] # k /\ recvRow[q][k] = NoRow
          /\ \A i \in 1..Len(rWrites[q]) : rWrites[q][i].sid # k
      BY <2>1, ZenonT(30) DEF RecvInv, RecvUnused
    <3>2. CASE q = p
      <4>1. w.sid # k
        BY <1>1, <3>1, <3>2, HeadAndTail, ZenonT(30)
      <4>2. recvRow'[q][k] = NoRow
        BY <1>1, <1>2, <1>5, <3>1, <3>2, <4>1, ZenonT(30)
        DEF RowValues, Executed
      <4>3. \A i \in 1..Len(Tail(ws)) : Tail(ws)[i].sid # k
        <5>1. ASSUME NEW i \in 1..Len(Tail(ws)) PROVE Tail(ws)[i].sid # k
          <6>1. \E j \in 1..Len(ws) : Tail(ws)[i] = ws[j]
            BY <1>1, TailIn, Zenon
          <6>2. QED
            BY <3>1, <3>2, <6>1, ZenonT(30)
        <5>2. QED
          BY <5>1, ZenonT(30)
      <4>4. QED
        BY <1>5, <3>1, <3>2, <4>2, <4>3, ZenonT(30)
    <3>3. CASE q # p
      BY <1>6, <3>1, <3>3, ZenonT(30)
    <3>4. QED
      BY <3>2, <3>3, ZenonT(30)
  <2>2. QED
    <3>1. \A q \in Peers : \A k \in Sids : RecvFresh(q, k)' => RecvFresh(q, k)
      BY ZenonT(30) DEF RecvFresh
    <3>2. \A q \in Peers : offer'[q].to = "receiver" => offer'[q].sid < nextSid'[q]
      BY ZenonT(30) DEF RecvInv, RecvUnused
    <3>3. rSession' = rSession
      BY ZenonT(30)
    <3>4. ASSUME NEW q \in Peers, NEW k \in Sids, RecvFresh(q, k)'
          PROVE  /\ rSession'[q] # k /\ recvRow'[q][k] = NoRow
                 /\ \A i \in 1..Len(rWrites'[q]) : rWrites'[q][i].sid # k
      <4>1. RecvFresh(q, k)
        BY <3>1, <3>4, ZenonT(30)
      <4>2. /\ rSession[q] # k /\ recvRow'[q][k] = NoRow
            /\ \A i \in 1..Len(rWrites'[q]) : rWrites'[q][i].sid # k
        BY <2>1, <4>1, ZenonT(30)
      <4>3. QED
        BY <3>3, <4>2, ZenonT(30)
    <3>5. QED
      BY <3>2, <3>4, ZenonT(30) DEF RecvUnused
<1>12. QED
  BY <1>2, <1>5, <1>6, <1>8, <1>9, <1>10, <1>11, Zenon
-----------------------------------------------------------------------------
\* The row of a new session is saved.
LEMMA RowSavedStep ==
    ASSUME TypeInv, RecvInv, NEW p \in Peers, RecvRowSaved(p),
           UNCHANGED handshakeVars
    PROVE  RecvInv'
<1> DEFINE w == Head(rWrites[p])
<1>1. /\ rWrites[p] # <<>>
      /\ recvRow' = [recvRow EXCEPT ![p][w.sid] = w.seq]
      /\ rWrites' = [rWrites EXCEPT ![p] = Tail(@)]
      /\ UNCHANGED <<rSession, recvSeq, nextSid, offer, log, logging, net>>
  BY ZenonT(30) DEF RecvRowSaved, handshakeVars
<1>2. /\ RecvQueueOK(rWrites'[p], recvRow'[p], recvSeq'[p])
      /\ \A k \in Sids : recvRow'[p][k] =< recvSeq'[p][k]
      /\ recvRow' \in [Peers -> RowValues]
      /\ \A q \in Peers : \A k \in Sids : recvRow[q][k] =< recvRow'[q][k]
      /\ \A q \in Peers \ {p} :
            rWrites'[q] = rWrites[q] /\ recvRow'[q] = recvRow[q]
      /\ RecvUnused'
  BY <1>1, RowExecuted, ZenonT(30)
<1>3. LogOK(log[p], logging[p], recvRow'[p])
  BY <1>2, ReceiverParts, LogRaise, ZenonT(30) DEF RecvInv, ReceiverOK
<1>4. \A q \in Peers : ReceiverOK(q)'
  <2>1. ReceiverOK(p)'
    BY <1>1, <1>2, <1>3, ZenonT(30) DEF ReceiverOK
  <2>2. QED
    BY <1>1, <1>2, <2>1, OneReceiver, ZenonT(30)
<1>5. SavedBeforeAcked'
  BY <1>1, <1>2, AckedStays, ZenonT(30) DEF SavedBeforeAcked, AcksSent
<1>6. QED
  BY <1>2, <1>4, <1>5, ZenonT(30) DEF RecvInv

\* The number of a message is saved and its ACK sent: it is above the row as
\* it was, and so above everything in the log.
LEMMA AckedStep ==
    ASSUME TypeInv, RecvInv, NEW p \in Peers, RecvSeqSavedAndAcked(p),
           UNCHANGED handshakeVars
    PROVE  RecvInv'
<1> DEFINE w == Head(rWrites[p])
           r == [sid |-> w.sid, seq |-> w.seq, msg |-> w.msg]
           a == AckPacket(p, w.sid, w.seq)
<1>1. /\ rWrites[p] # <<>> /\ logging[p] = <<>>
      /\ recvRow' = [recvRow EXCEPT ![p][w.sid] = w.seq]
      /\ rWrites' = [rWrites EXCEPT ![p] = Tail(@)]
      /\ logging' = [logging EXCEPT ![p] = <<r>>]
      /\ net' = net \cup {a}
      /\ UNCHANGED <<rSession, recvSeq, nextSid, offer, log>>
  BY ZenonT(30) DEF RecvSeqSavedAndAcked, Free, Send, handshakeVars
<1>2. /\ RecvQueueOK(rWrites'[p], recvRow'[p], recvSeq'[p])
      /\ \A k \in Sids : recvRow'[p][k] =< recvSeq'[p][k]
      /\ recvRow' \in [Peers -> RowValues]
      /\ \A q \in Peers : \A k \in Sids : recvRow[q][k] =< recvRow'[q][k]
      /\ \A q \in Peers \ {p} :
            rWrites'[q] = rWrites[q] /\ recvRow'[q] = recvRow[q]
      /\ w.sid \in Sids /\ w.seq \in Nat
      /\ recvRow'[p][w.sid] = w.seq
      /\ recvRow[p][w.sid] < w.seq
      /\ RecvUnused'
  BY <1>1, RowExecuted, ZenonT(30)
<1>3. w.msg \in Msgs
  <2>1. w \in RWrites /\ w.op = "recv"
    BY <1>1, ReceiverParts, HeadAndTail, ZenonT(30) DEF RecvSeqSavedAndAcked
  <2>2. QED
    BY <2>1, ZenonT(30) DEF RWrites
<1>4. LogOK(log[p], <<r>>, recvRow'[p])
  <2>1. r \in Received /\ r.seq = w.seq /\ r.sid = w.sid
    BY <1>2, <1>3, ZenonT(30) DEF Received
  <2> HIDE DEF r, w
  <2>2. /\ log[p] \in Seq(Received) /\ <<>> \in Seq(Received)
        /\ recvRow[p] \in RowValues /\ recvRow'[p] \in RowValues
    <3>1. <<>> \in Seq(Received)
      OBVIOUS
    <3>2. QED
      BY <1>2, <3>1, ReceiverParts, ZenonT(30)
  <2>3. LogOK(log[p], <<>>, recvRow[p])
    BY <1>1, ZenonT(30) DEF RecvInv, ReceiverOK
  <2>4. LogOK(log[p], <<>>, recvRow'[p])
    BY <1>2, <2>2, <2>3, LogRaise, Zenon
  <2>5. recvRow[p][r.sid] < r.seq /\ r.seq =< recvRow'[p][r.sid]
    <3>1. recvRow'[p][r.sid] \in Nat /\ recvRow'[p][r.sid] = r.seq
      BY <1>2, <2>1, ZenonT(30)
    <3>2. QED
      BY <1>2, <2>1, <3>1, RowOrder, ZenonT(30)
  <2>6. QED
    BY <2>1, <2>2, <2>3, <2>4, <2>5, LogTake, ZenonT(30)
<1>5. \A q \in Peers : ReceiverOK(q)'
  <2>1. logging'[p] = <<r>> /\ \A q \in Peers \ {p} : logging'[q] = logging[q]
    BY <1>1, ZenonT(30) DEF TypeInv, TypeOK, ReceiverTypeOK
  <2>2. ReceiverOK(p)'
    BY <1>1, <1>2, <1>4, <2>1, ZenonT(30) DEF ReceiverOK
  <2>3. QED
    BY <1>1, <1>2, <2>1, <2>2, OneReceiver, ZenonT(30)
<1>6. SavedBeforeAcked'
  <2>1. \A b \in AcksSent : recvRow'[b.peer][b.sid] >= b.seq
    BY <1>2, AckedStays, ZenonT(30)
  <2>2. a.peer = p /\ a.sid = w.sid /\ a.seq = w.seq
    BY ZenonT(30) DEF AckPacket
  <2> HIDE DEF a, w
  <2>3. recvRow'[a.peer][a.sid] >= a.seq
    BY <1>2, <2>2
  <2>4. \A b \in AcksSent' : b \in AcksSent \/ b = a
    BY <1>1, ZenonT(30) DEF AcksSent
  <2>5. QED
    BY <2>1, <2>3, <2>4, ZenonT(30) DEF SavedBeforeAcked
<1>7. QED
  BY <1>2, <1>5, <1>6, ZenonT(30) DEF RecvInv

\* The message in hand is logged, or a SYNC is sent.
LEMMA LogStep ==
    ASSUME TypeInv, RecvInv, NEW p \in Peers,
           LogAndShow(p) \/ \E k \in Sids : SendSync(p, k),
           UNCHANGED handshakeVars
    PROVE  RecvInv'
<1>1. UNCHANGED <<rSession, recvSeq, rWrites, recvRow, nextSid, offer>>
  BY Zenon DEF LogAndShow, SendSync, handshakeVars
<1>2. AcksSent' = AcksSent
  <2>1. CASE LogAndShow(p)
    <3> DEFINE d == AppAckPacket(p, Head(logging[p]).sid, Head(logging[p]).seq)
    <3>1. net' = net \cup {d} /\ d.type = "APP_ACK"
      BY <2>1, ZenonT(30) DEF LogAndShow, Send, AppAckPacket
    <3>2. QED
      BY <3>1, ZenonT(30) DEF AcksSent
  <2>2. ASSUME NEW k \in Sids, SendSync(p, k) PROVE AcksSent' = AcksSent
    <3> DEFINE d == SyncPacket(p, k, recvSeq[p][k])
    <3>1. net' = net \cup {d} /\ d.type = "SYNC"
      BY <2>2, ZenonT(30) DEF SendSync, Send, SyncPacket
    <3>2. QED
      BY <3>1, ZenonT(30) DEF AcksSent
  <2>3. QED
    BY <2>1, <2>2, ZenonT(30)
<1>3. \A q \in Peers : ReceiverOK(q)'
  <2>1. CASE LogAndShow(p)
    <3>1. /\ logging[p] # <<>>
          /\ log' = [log EXCEPT ![p] = Append(@, Head(logging[p]))]
          /\ logging' = [logging EXCEPT ![p] = <<>>]
      BY <2>1, ZenonT(30) DEF LogAndShow
    <3>2. /\ log'[p] = Append(log[p], Head(logging[p])) /\ logging'[p] = <<>>
          /\ \A q \in Peers \ {p} : log'[q] = log[q] /\ logging'[q] = logging[q]
      BY <3>1, ZenonT(30) DEF TypeInv, TypeOK, ReceiverTypeOK
    <3>3. LogOK(log'[p], logging'[p], recvRow[p])
      BY <3>1, <3>2, ReceiverParts, LogAppend, SMTT(30) DEF RecvInv, ReceiverOK
    <3>4. ReceiverOK(p)'
      BY <1>1, <3>3, ZenonT(30) DEF RecvInv, ReceiverOK
    <3>5. QED
      BY <1>1, <3>2, <3>4, OneReceiver, ZenonT(30)
  <2>2. CASE \E k \in Sids : SendSync(p, k)
    <3>1. UNCHANGED <<log, logging>>
      BY <2>2, ZenonT(30) DEF SendSync
    <3>2. QED
      BY <1>1, <3>1, ReceiverStays, ZenonT(30) DEF RecvInv
  <2>3. QED
    BY <2>1, <2>2, ZenonT(30)
<1>4. SavedBeforeAcked' /\ RecvUnused'
  BY <1>1, <1>2 DEF RecvInv, SavedBeforeAcked, RecvUnused, RecvFresh
<1>5. QED
  BY <1>3, <1>4, ZenonT(30) DEF RecvInv

\* The counter of a session is raised, and the new value given to the
\* database.
LEMMA WriteAdded ==
    ASSUME TypeInv, RecvInv, NEW p \in Peers, NEW w \in RWrites,
           recvSeq' = [recvSeq EXCEPT ![p][w.sid] = w.seq],
           rWrites' = [rWrites EXCEPT ![p] = Append(@, w)],
           UNCHANGED <<recvRow, log, logging>>,
           recvRow[p][w.sid] < w.seq,
           \A i \in 1..Len(rWrites[p]) :
              rWrites[p][i].sid = w.sid => rWrites[p][i].seq < w.seq
    PROVE  \A q \in Peers : ReceiverOK(q)'
<1> DEFINE ws == rWrites[p]
           new == [recvSeq[p] EXCEPT ![w.sid] = w.seq]
<1>1. /\ ws \in Seq(RWrites) /\ recvRow[p] \in RowValues
      /\ recvSeq[p] \in SeqValues
  BY ReceiverParts, ZenonT(30)
<1>2. \A v \in RWrites : v.sid \in Sids /\ v.seq \in Nat
  BY ZenonT(30) DEF RWrites
<1>3. /\ recvSeq \in [Peers -> SeqValues] /\ rWrites \in [Peers -> Seq(RWrites)]
  BY ZenonT(30) DEF TypeInv, TypeOK, ReceiverTypeOK, SeqValues
<1>4. /\ recvSeq'[p] = new /\ rWrites'[p] = Append(ws, w)
      /\ \A q \in Peers \ {p} : recvSeq'[q] = recvSeq[q] /\ rWrites'[q] = rWrites[q]
  BY <1>3, ZenonT(30)
<1>5. /\ new \in SeqValues /\ new[w.sid] = w.seq
      /\ \A k \in Sids : k # w.sid => new[k] = recvSeq[p][k]
  BY <1>1, <1>2, ZenonT(30) DEF SeqValues
<1> HIDE DEF new
<1>6. /\ RecvQueueOK(ws, recvRow[p], recvSeq[p])
      /\ \A k \in Sids : recvRow[p][k] =< recvSeq[p][k]
      /\ LogOK(log[p], logging[p], recvRow[p])
  BY ZenonT(30) DEF RecvInv, ReceiverOK
<1>7. ASSUME NEW i \in 1..Len(ws) PROVE ws[i].seq =< new[ws[i].sid]
  <2>1. ws[i].sid \in Sids /\ ws[i].seq \in Nat
    <3>1. ws[i] \in RWrites
      BY <1>1, ElementTyped, ZenonT(30)
    <3>2. QED
      BY <3>1, ZenonT(30) DEF RWrites
  <2>2. CASE ws[i].sid = w.sid
    BY <1>2, <1>5, <2>1, <2>2, Successor, Ordered, ZenonT(30)
  <2>3. CASE ws[i].sid # w.sid
    BY <1>5, <1>6, <2>1, <2>3, ZenonT(30) DEF RecvQueueOK
  <2>4. QED
    BY <2>2, <2>3, ZenonT(30)
<1>8. RecvQueueOK(Append(ws, w), recvRow[p], new)
  <2>1. w.seq =< new[w.sid]
    BY <1>2, <1>5, Successor, Ordered, ZenonT(30)
  <2>2. QED
    BY <1>1, <1>5, <1>6, <1>7, <2>1, RecvQueueAdd, Zenon
<1>9. \A k \in Sids : recvRow[p][k] =< new[k]
  <2>1. \A k \in Sids : recvRow[p][k] \in Nat \cup {NoRow}
    BY <1>1, ZenonT(30) DEF RowValues
  <2>2. QED
    BY <1>2, <1>5, <1>6, <2>1, RowOrder, ZenonT(30)
<1>10. ReceiverOK(p)'
  BY <1>4, <1>6, <1>8, <1>9, ZenonT(30) DEF ReceiverOK
<1>11. QED
  BY <1>4, <1>10, OneReceiver, ZenonT(30)

\* A packet is accepted: its number is above the counter, and the session is
\* not fresh because it is registered.
LEMMA DataStep ==
    ASSUME TypeInv, RecvInv, NEW d \in DataSent, HandleData(d),
           UNCHANGED handshakeVars
    PROVE  RecvInv'
<1> DEFINE p == d.peer
           k == d.sid
           w == RecvSeqWrite(k, d.seq, d.msg)
<1>1. d \in Packets /\ d.type = "DATA"
  BY ZenonT(30) DEF DataSent, TypeInv, TypeOK
<1>2. p \in Peers /\ k \in Sids /\ d.seq \in Nat /\ d.msg \in Msgs
  BY <1>1, ZenonT(30) DEF Packets, DataPackets
<1>3. w \in RWrites /\ w.sid = k /\ w.seq = d.seq
  BY <1>2, ZenonT(30) DEF RecvSeqWrite, RWrites
<1>4. /\ rSession[p] = k /\ d.seq > recvSeq[p][k]
      /\ recvSeq' = [recvSeq EXCEPT ![p][k] = d.seq]
      /\ rWrites' = [rWrites EXCEPT ![p] = Append(@, w)]
      /\ UNCHANGED <<rSession, recvRow, log, logging, net, nextSid, offer>>
  BY ZenonT(30) DEF HandleData, CheckRecvSequence, handshakeVars
<1>5. /\ rWrites[p] \in Seq(RWrites) /\ recvRow[p] \in RowValues
      /\ recvSeq[p] \in SeqValues
  BY <1>2, ReceiverParts, ZenonT(30)
<1>6. ReceiverOK(p)
  BY <1>2, ZenonT(30) DEF RecvInv
<1>7. recvRow[p][k] < d.seq
  <2>1. recvRow[p][k] \in Nat \cup {NoRow} /\ recvSeq[p][k] \in Nat
    BY <1>2, <1>5, ZenonT(30) DEF RowValues, SeqValues
  <2>2. recvRow[p][k] =< recvSeq[p][k] /\ recvSeq[p][k] < d.seq
    BY <1>2, <1>4, <1>6, <2>1, Ordered, ZenonT(30) DEF ReceiverOK
  <2>3. QED
    BY <1>2, <2>1, <2>2, RowOrder, ZenonT(30)
<1>8. ASSUME NEW i \in 1..Len(rWrites[p]), rWrites[p][i].sid = k
      PROVE  rWrites[p][i].seq < d.seq
  <2>1. rWrites[p][i] \in RWrites
    BY <1>5, ElementTyped, ZenonT(30)
  <2>2. rWrites[p][i].seq \in Nat /\ recvSeq[p][k] \in Nat
    BY <1>2, <1>5, <2>1, ZenonT(30) DEF RWrites, SeqValues
  <2>3. rWrites[p][i].seq =< recvSeq[p][k]
    BY <1>6, <1>8, ZenonT(30) DEF ReceiverOK, RecvQueueOK
  <2>4. QED
    <3>1. d.seq \in Nat /\ recvSeq[p][k] < d.seq
      BY <1>2, <1>4, <2>2, Ordered, ZenonT(30)
    <3>2. QED
      BY <2>2, <2>3, <3>1, RowOrder, ZenonT(30)
<1> HIDE DEF p, k, w
<1>9. \A q \in Peers : ReceiverOK(q)'
  BY <1>2, <1>3, <1>4, <1>7, <1>8, WriteAdded, ZenonT(30)
<1>10. SavedBeforeAcked'
  BY <1>4, ZenonT(30) DEF RecvInv, SavedBeforeAcked, AcksSent
<1>11. RecvUnused'
  <2>1. ~RecvFresh(p, k)
    BY <1>2, <1>4, ZenonT(30) DEF RecvInv, RecvUnused
  <2>2. ASSUME NEW q \in Peers, NEW j \in Sids, RecvFresh(q, j)
        PROVE  \A i \in 1..Len(rWrites'[q]) : rWrites'[q][i].sid # j
    <3>1. \A i \in 1..Len(rWrites[q]) : rWrites[q][i].sid # j
      BY <2>2, ZenonT(30) DEF RecvInv, RecvUnused
    <3>2. CASE q = p
      <4>1. rWrites'[p] = Append(rWrites[p], w)
        BY <1>2, <1>4, ZenonT(30) DEF TypeInv, TypeOK, ReceiverTypeOK
      <4>2. j # k
        BY <2>1, <2>2, <3>2, ZenonT(30)
      <4>3. QED
        BY <1>3, <1>5, <3>1, <3>2, <4>1, <4>2, SMTT(30)
    <3>3. CASE q # p
      <4>1. rWrites'[q] = rWrites[q]
        BY <1>4, <3>3, ZenonT(30) DEF TypeInv, TypeOK, ReceiverTypeOK
      <4>2. QED
        BY <3>1, <4>1, ZenonT(30)
    <3>4. QED
      BY <3>2, <3>3, ZenonT(30)
  <2>3. QED
    BY <1>4, <2>2, ZenonT(30) DEF RecvInv, RecvUnused, RecvFresh
<1>12. QED
  BY <1>9, <1>10, <1>11, ZenonT(30) DEF RecvInv

\* All that a receiver does by itself.
LEMMA ReceiverRecvStep ==
    ASSUME TypeInv, RecvInv, (\E d \in DataSent : HandleData(d)) \/ ReceiverWorks,
           UNCHANGED <<senderVars, handshakeVars>>
    PROVE  RecvInv'
BY DataStep, RowSavedStep, AckedStep, LogStep, ZenonT(30) DEF ReceiverWorks
-----------------------------------------------------------------------------
\* A fresh session is registered at p, and is not fresh any more.
LEMMA RegisterStep ==
    ASSUME TypeInv, RecvInv, NEW p \in Peers, NEW k \in Sids,
           RecvFresh(p, k), RegisterRecv(p, k),
           \A q \in Peers : offer'[q].to = "receiver" => offer'[q].sid < nextSid'[q],
           \A q \in Peers : \A j \in Sids : RecvFresh(q, j)' =>
              RecvFresh(q, j) /\ (q # p \/ j # k)
    PROVE  RecvInv'
<1> DEFINE w == RecvRowWrite(k, recvFloor[p])
<1>1. recvFloor[p] \in Nat
  BY ZenonT(30) DEF TypeInv, TypeOK, ReceiverTypeOK
<1>2. w \in RWrites /\ w.sid = k /\ w.seq = recvFloor[p]
  BY <1>1, ZenonT(30) DEF RecvRowWrite, RWrites
<1>3. /\ recvSeq' = [recvSeq EXCEPT ![p][k] = recvFloor[p]]
      /\ rWrites' = [rWrites EXCEPT ![p] = Append(@, w)]
      /\ rSession' = [rSession EXCEPT ![p] = k]
      /\ UNCHANGED <<recvRow, log, logging, net>>
  BY ZenonT(30) DEF RegisterRecv
<1>4. /\ recvRow[p][k] = NoRow
      /\ \A i \in 1..Len(rWrites[p]) : rWrites[p][i].sid # k
  BY ZenonT(30) DEF RecvInv, RecvUnused
<1>5. recvRow[p][k] < recvFloor[p]
  BY <1>1, <1>4, SMTT(30) DEF NoRow
<1> HIDE DEF w
<1>6. \A q \in Peers : ReceiverOK(q)'
  BY <1>2, <1>3, <1>4, <1>5, WriteAdded, ZenonT(30)
<1>7. SavedBeforeAcked'
  BY <1>3, ZenonT(30) DEF RecvInv, SavedBeforeAcked, AcksSent
<1>8. RecvUnused'
  <2>1. ASSUME NEW q \in Peers, NEW j \in Sids, RecvFresh(q, j)'
        PROVE  /\ rSession'[q] # j /\ recvRow'[q][j] = NoRow
               /\ \A i \in 1..Len(rWrites'[q]) : rWrites'[q][i].sid # j
    <3>1. RecvFresh(q, j) /\ (q # p \/ j # k)
      BY <2>1, ZenonT(30)
    <3>2. /\ rSession[q] # j /\ recvRow[q][j] = NoRow
          /\ \A i \in 1..Len(rWrites[q]) : rWrites[q][i].sid # j
      BY <3>1, ZenonT(30) DEF RecvInv, RecvUnused
    <3>3. CASE q = p
      <4>1. rWrites'[p] = Append(rWrites[p], w) /\ rSession'[p] = k
        BY <1>3, ZenonT(30) DEF TypeInv, TypeOK, ReceiverTypeOK
      <4>2. rWrites[p] \in Seq(RWrites)
        BY ReceiverParts, ZenonT(30)
      <4>3. QED
        BY <1>2, <1>3, <3>1, <3>2, <3>3, <4>1, <4>2, SMTT(30)
    <3>4. CASE q # p
      <4>1. rWrites'[q] = rWrites[q] /\ rSession'[q] = rSession[q]
        BY <1>3, <3>4, ZenonT(30) DEF TypeInv, TypeOK, ReceiverTypeOK
      <4>2. QED
        BY <1>3, <3>2, <4>1, Zenon
    <3>5. QED
      BY <3>3, <3>4, ZenonT(30)
  <2>2. QED
    BY <2>1, ZenonT(30) DEF RecvUnused
<1>9. QED
  BY <1>6, <1>7, <1>8, ZenonT(30) DEF RecvInv

\* The four halves of a handshake.
LEMMA HandshakeRecvStep ==
    ASSUME TypeInv, RecvInv, Handshakes
    PROVE  RecvInv'
<1>0. /\ \A q \in Peers : nextSid[q] \in Nat
      /\ nextSid \in [Peers -> 1..(MaxSid + 1)] /\ offer \in [Peers -> Offers]
      /\ \A q \in Peers : offer[q].to = "receiver" => offer[q].sid < nextSid[q]
  <2>1. /\ nextSid \in [Peers -> 1..(MaxSid + 1)] /\ offer \in [Peers -> Offers]
        /\ \A q \in Peers : offer[q].to = "receiver" => offer[q].sid < nextSid[q]
    BY ZenonT(30) DEF TypeInv, TypeOK, RecvInv, RecvUnused
  <2>2. 1..(MaxSid + 1) \subseteq Nat
    BY WireAssumption
  <2>3. QED
    BY <2>1, <2>2, ZenonT(30)
<1>1. ASSUME NEW p \in Peers, SenderAnswersHello(p) PROVE RecvInv'
  <2> DEFINE k == nextSid[p]
  <2>1. /\ nextSid' = [nextSid EXCEPT ![p] = k + 1]
        /\ offer' = [offer EXCEPT ![p] = [to |-> "receiver", sid |-> k]]
        /\ UNCHANGED receiverVars /\ UNCHANGED net
    BY <1>1, ZenonT(30) DEF SenderAnswersHello, RegisterSend
  <2>2. /\ nextSid'[p] = k + 1 /\ offer'[p] = [to |-> "receiver", sid |-> k]
        /\ \A q \in Peers \ {p} : nextSid'[q] = nextSid[q] /\ offer'[q] = offer[q]
    BY <1>0, <2>1, ZenonT(30)
  <2>3. k \in Nat /\ \A j \in Sids : j \in Nat
    BY <1>0 DEF Sids
  <2>4. \A q \in Peers : offer'[q].to = "receiver" => offer'[q].sid < nextSid'[q]
    BY <1>0, <2>2, <2>3, SMTT(30)
  <2>5. \A q \in Peers : \A j \in Sids : RecvFresh(q, j)' => RecvFresh(q, j)
    BY <2>2, <2>3 DEF RecvFresh
  <2>6. QED
    BY <2>1, <2>4, <2>5, OthersStep, ZenonT(30) DEF AcksSent
<1>2. ASSUME NEW p \in Peers, ReceiverAnswersHello(p) PROVE RecvInv'
  <2> DEFINE k == nextSid[p]
  <2>1. /\ k \in Sids /\ RegisterRecv(p, k)
        /\ nextSid' = [nextSid EXCEPT ![p] = k + 1]
        /\ offer' = [offer EXCEPT ![p] = [to |-> "sender", sid |-> k]]
    BY <1>2, ZenonT(30) DEF ReceiverAnswersHello
  <2>2. /\ nextSid'[p] = k + 1 /\ offer'[p].to = "sender"
        /\ \A q \in Peers \ {p} : nextSid'[q] = nextSid[q] /\ offer'[q] = offer[q]
    BY <1>0, <2>1, ZenonT(30)
  <2>3. k \in Nat /\ \A j \in Sids : j \in Nat
    BY <1>0 DEF Sids
  <2>4. \A q \in Peers : offer'[q].to = "receiver" => offer'[q].sid < nextSid'[q]
    BY <1>0, <2>2, ZenonT(30)
  <2>5. \A q \in Peers : \A j \in Sids : RecvFresh(q, j)' =>
            RecvFresh(q, j) /\ (q # p \/ j # k)
    BY <2>2, <2>3 DEF RecvFresh
  <2>6. RecvFresh(p, k)
    BY <2>3, Successor, Ordered, ZenonT(30) DEF RecvFresh
  <2>7. QED
    BY <2>1, <2>4, <2>5, <2>6, RegisterStep, ZenonT(30)
<1>3. ASSUME NEW p \in Peers, SenderTakesHelloAck(p) PROVE RecvInv'
  <2>1. /\ offer' = [offer EXCEPT ![p] = NoOffer]
        /\ UNCHANGED receiverVars /\ UNCHANGED <<nextSid, net>>
    BY <1>3, ZenonT(30) DEF SenderTakesHelloAck, RegisterSend
  <2>2. offer'[p].to = "none" /\ \A q \in Peers \ {p} : offer'[q] = offer[q]
    BY <1>0, <2>1, ZenonT(30) DEF NoOffer
  <2>3. QED
    BY <1>0, <2>1, <2>2, OthersStep, ZenonT(30) DEF RecvFresh, AcksSent
<1>4. ASSUME NEW p \in Peers, ReceiverTakesHelloAck(p) PROVE RecvInv'
  <2> DEFINE k == offer[p].sid
  <2>1. /\ offer[p].to = "receiver" /\ RegisterRecv(p, k)
        /\ offer' = [offer EXCEPT ![p] = NoOffer]
        /\ UNCHANGED nextSid
    BY <1>4, ZenonT(30) DEF ReceiverTakesHelloAck
  <2>2. offer'[p].to = "none" /\ \A q \in Peers \ {p} : offer'[q] = offer[q]
    BY <1>0, <2>1, ZenonT(30) DEF NoOffer
  <2>3. k \in Sids
    BY <1>0, <2>1, WireAssumption, SidsPositive, ZenonT(30)
    DEF TypeInv, SessionsNamed, Offers, Sids
  <2>4. k < nextSid[p] /\ k \in Nat /\ nextSid[p] \in Nat
    <3>1. k < nextSid[p] /\ nextSid[p] \in Nat
      BY <1>0, <2>1, ZenonT(30)
    <3>2. k \in Nat
      BY <2>3 DEF Sids
    <3>3. QED
      BY <3>1, <3>2, ZenonT(30)
  <2>5. \A q \in Peers : offer'[q].to = "receiver" => offer'[q].sid < nextSid'[q]
    BY <1>0, <2>1, <2>2, ZenonT(30)
  <2>6. \A q \in Peers : \A j \in Sids : RecvFresh(q, j)' =>
            RecvFresh(q, j) /\ (q # p \/ j # k)
    BY <2>1, <2>2, <2>4, Successor, Ordered, ZenonT(30) DEF RecvFresh
  <2>7. RecvFresh(p, k)
    BY <2>1, ZenonT(30) DEF RecvFresh
  <2>8. QED
    BY <2>1, <2>3, <2>5, <2>6, <2>7, RegisterStep, ZenonT(30)
<1>5. QED
  BY <1>1, <1>2, <1>3, <1>4, ZenonT(30) DEF Handshakes

\* A lost session or a restart takes away what waits, and saves nothing.
LEMMA FaultRecvStep ==
    ASSUME TypeInv, RecvInv, FaultsHappen
    PROVE  RecvInv'
<1>0. /\ offer \in [Peers -> Offers]
      /\ \A q \in Peers : offer[q].to = "receiver" => offer[q].sid < nextSid[q]
  BY ZenonT(30) DEF TypeInv, TypeOK, RecvInv, RecvUnused
<1>1. ASSUME NEW p \in Peers, SenderLosesPeer(p) PROVE RecvInv'
  <2>1. UNCHANGED receiverVars /\ UNCHANGED <<nextSid, offer, net>>
    BY <1>1, ZenonT(30) DEF SenderLosesPeer, DropSendSession
  <2>2. QED
    BY <1>0, <2>1, OthersStep, ZenonT(30) DEF RecvFresh, AcksSent
<1>2. CASE SenderCrashes
  <2>1. /\ UNCHANGED receiverVars /\ UNCHANGED <<nextSid, net>>
        /\ \A q \in Peers : offer'[q] \in {offer[q], NoOffer}
    BY <1>2, ZenonT(30) DEF SenderCrashes, RestartSender, Forget
  <2>2. \A q \in Peers : offer'[q].to = "receiver" => offer'[q] = offer[q]
    BY <2>1 DEF NoOffer
  <2>3. QED
    BY <1>0, <2>1, <2>2, OthersStep, ZenonT(30) DEF RecvFresh, AcksSent
<1>3. ASSUME NEW p \in Peers, ReceiverLosesPeer(p) PROVE RecvInv'
  <2>1. /\ rSession' = [rSession EXCEPT ![p] = 0]
        /\ UNCHANGED <<recvSeq, rWrites, recvRow, log, logging, net, nextSid, offer>>
    BY <1>3, ZenonT(30) DEF ReceiverLosesPeer, DropRecvSession
  <2>2. \A q \in Peers : ReceiverOK(q)'
    BY <2>1, ReceiverStays, ZenonT(30) DEF RecvInv
  <2>3. \A q \in Peers : \A k \in Sids : rSession[q] # k => rSession'[q] # k
    BY <2>1, SMTT(30) DEF TypeInv, TypeOK, ReceiverTypeOK, Sids
  <2>4. RecvUnused' /\ SavedBeforeAcked'
    BY <2>1, <2>3 DEF RecvInv, RecvUnused, RecvFresh, SavedBeforeAcked, AcksSent
  <2>5. QED
    BY <2>2, <2>4, ZenonT(30) DEF RecvInv
<1>4. ASSUME NEW p \in Peers, ReceiverCrashes(p) PROVE RecvInv'
  <2>1. /\ rSession' = [rSession EXCEPT ![p] = 0]
        /\ rWrites' = [rWrites EXCEPT ![p] = <<>>]
        /\ logging' = [logging EXCEPT ![p] = <<>>]
        /\ offer' = [offer EXCEPT ![p] = Forget(@, "receiver")]
        /\ UNCHANGED <<recvSeq, recvRow, log, net, nextSid>>
    BY <1>4, ZenonT(30) DEF ReceiverCrashes, RestartReceiver
  <2>2. /\ rWrites'[p] = <<>> /\ logging'[p] = <<>>
        /\ \A q \in Peers \ {p} : rWrites'[q] = rWrites[q] /\ logging'[q] = logging[q]
        /\ \A q \in Peers : \A k \in Sids : rSession[q] # k => rSession'[q] # k
    BY <2>1, SMTT(30) DEF TypeInv, TypeOK, ReceiverTypeOK, Sids
  <2>3. ReceiverOK(p)'
    <3>1. RecvQueueOK(<<>>, recvRow[p], recvSeq[p])
      BY EmptyQueue, ZenonT(30) DEF RecvQueueOK
    <3>2. LogOK(log[p], <<>>, recvRow[p])
      BY ZenonT(30) DEF RecvInv, ReceiverOK, LogOK
    <3>3. QED
      BY <2>1, <2>2, <3>1, <3>2, ZenonT(30) DEF RecvInv, ReceiverOK
  <2>4. \A q \in Peers : ReceiverOK(q)'
    BY <2>1, <2>2, <2>3, OneReceiver, ZenonT(30)
  <2>5. \A q \in Peers : offer'[q].to = "receiver" => offer'[q] = offer[q]
    BY <1>0, <2>1, ZenonT(30) DEF Forget, NoOffer
  <2>6. RecvUnused'
    <3>1. ASSUME NEW q \in Peers, NEW k \in Sids, RecvFresh(q, k)'
          PROVE  /\ rSession'[q] # k /\ recvRow'[q][k] = NoRow
                 /\ \A i \in 1..Len(rWrites'[q]) : rWrites'[q][i].sid # k
      <4>1. RecvFresh(q, k)
        BY <2>1, <2>5, <3>1, ZenonT(30) DEF RecvFresh
      <4>2. /\ rSession[q] # k /\ recvRow[q][k] = NoRow
            /\ \A i \in 1..Len(rWrites[q]) : rWrites[q][i].sid # k
        BY <4>1, ZenonT(30) DEF RecvInv, RecvUnused
      <4>3. QED
        <5>1. rSession'[q] # k /\ recvRow'[q][k] = NoRow
          BY <2>1, <2>2, <4>2, ZenonT(30)
        <5>2. rWrites'[q] = rWrites[q] \/ rWrites'[q] = <<>>
          BY <2>2, ZenonT(30)
        <5>3. QED
          BY <4>2, <5>1, <5>2, EmptyQueue, ZenonT(30)
    <3>2. QED
      BY <1>0, <2>1, <2>5, <3>1, ZenonT(90) DEF RecvUnused
  <2>7. SavedBeforeAcked'
    BY <2>1, ZenonT(30) DEF RecvInv, SavedBeforeAcked, AcksSent
  <2>8. QED
    BY <2>4, <2>6, <2>7, ZenonT(30) DEF RecvInv
<1>5. QED
  BY <1>1, <1>2, <1>3, <1>4, ZenonT(30) DEF FaultsHappen

\* Before anything is received nothing is saved, acknowledged or logged.
LEMMA RecvInit == Init => RecvInv
<1> SUFFICES ASSUME Init PROVE RecvInv
  BY ZenonT(30)
<1>1. \A p \in Peers :
         /\ rWrites[p] = <<>> /\ log[p] = <<>> /\ logging[p] = <<>>
         /\ rSession[p] = 0 /\ offer[p] = NoOffer
         /\ \A k \in Sids : recvRow[p][k] = NoRow /\ recvSeq[p][k] = 0
  BY ZenonT(30) DEF Init, ReceiverInit
<1>2. ASSUME NEW p \in Peers PROVE ReceiverOK(p)
  <2>1. RecvQueueOK(<<>>, recvRow[p], recvSeq[p])
    BY DEF RecvQueueOK
  <2>2. LogOK(<<>>, <<>>, recvRow[p])
    BY DEF LogOK
  <2>3. \A k \in Sids : recvRow[p][k] =< recvSeq[p][k]
    BY <1>1, SMTT(30) DEF NoRow
  <2>4. QED
    BY <1>1, <2>1, <2>2, <2>3, ZenonT(30) DEF ReceiverOK
<1>3. RecvUnused
  BY <1>1 DEF RecvUnused, NoOffer, Sids
<1>4. SavedBeforeAcked
  BY ZenonT(30) DEF Init, SavedBeforeAcked, AcksSent
<1>5. QED
  BY <1>2, <1>3, <1>4, ZenonT(30) DEF RecvInv

\* Every step of the system keeps the receivers' numbers in order.
LEMMA RecvStep == TypeInv /\ RecvInv /\ [Next]_vars => RecvInv'
<1> SUFFICES ASSUME TypeInv, RecvInv, [Next]_vars PROVE RecvInv'
  BY ZenonT(30)
<1>1. CASE UNCHANGED vars
  BY <1>1, OthersStep, ZenonT(30)
  DEF vars, RecvInv, RecvUnused, RecvFresh, AcksSent
<1>2. CASE Next
  BY <1>2, SenderRecvStep, ReceiverRecvStep, HandshakeRecvStep, FaultRecvStep,
     ZenonT(30)
  DEF Next
<1>3. QED
  BY <1>1, <1>2, ZenonT(30)

\* "Update recv_sequence in DB BEFORE sending ACK" (node.py): in every
\* execution, crashes and session changes included, the saved counter of a
\* session covers every number that was acknowledged in it.
THEOREM RecvCounterSaved == Spec => []SavedBeforeAcked
<1>1. Init => TypeInv /\ RecvInv
  BY TypeInit, RecvInit, ZenonT(30)
<1>2. TypeInv /\ RecvInv /\ [Next]_vars => (TypeInv /\ RecvInv)'
  BY TypeStep, RecvStep, ZenonT(30)
<1>3. RecvInv => SavedBeforeAcked
  BY ZenonT(30) DEF RecvInv
<1>4. QED
  BY <1>1, <1>2, <1>3, PTL DEF Spec

\* check_recv_sequence and the order of the database's queue: the log holds
\* the packets of a session once each and in the order of their numbers,
\* however they are repeated and reordered and whenever the node dies.
THEOREM LogInOrder == Spec => []LoggedInOrder
<1>1. Init => TypeInv /\ RecvInv
  BY TypeInit, RecvInit, ZenonT(30)
<1>2. TypeInv /\ RecvInv /\ [Next]_vars => (TypeInv /\ RecvInv)'
  BY TypeStep, RecvStep, ZenonT(30)
<1>3. RecvInv => LoggedInOrder
  BY ZenonT(30) DEF RecvInv, ReceiverOK, LogOK, LoggedInOrder
<1>4. QED
  BY <1>1, <1>2, <1>3, PTL DEF Spec
-----------------------------------------------------------------------------
(***************************************************************************)
(* The bound on attempts, while the sending node is not restarted.  The    *)
(* retry count of an entry accounts for every number the message was ever  *)
(* given: one for the first packet, one more for each timeout.  A restart  *)
(* reads entries back with the count at zero (restore_entry).              *)
(***************************************************************************)
Attempts(m) ==
    {<<d.sid, d.seq>> : d \in {x \in IssuedIn(writes, net) : x.msg = m}}

\* How many numbers an entry accounts for.
Accounted(e) ==
    IF e.status \in {"absent", "queued", "failed"} THEN e.retries
    ELSE e.retries + 1

AttemptOK(m) ==
    /\ IsFiniteSet(Attempts(m))
    /\ Cardinality(Attempts(m)) =< Accounted(queue[m])
    /\ queue[m].retries =< MaxRetries
    /\ queue[m].status # "failed" => queue[m].retries < MaxRetries
    /\ m \in retry =>
          queue[m].status \in {"pending", "delivered", "acknowledged"}
    /\ m > sent => queue[m] = Absent

AttemptInv == budget["sendCrash"] = 0 /\ \A m \in Msgs : AttemptOK(m)

\* One attempt more, and one more accounted for.
LEMMA OneMore ==
    ASSUME NEW a \in Nat, NEW b \in Nat, NEW c \in Nat, a =< b, c =< a + 1
    PROVE  c =< b + 1
  OBVIOUS

\* Where no packet is numbered, no message gains an attempt.
LEMMA FewerAttempts ==
    ASSUME NEW m \in Msgs, IsFiniteSet(Attempts(m)),
           {x \in IssuedIn(writes', net') : x.msg = m}
               \subseteq {x \in IssuedIn(writes, net) : x.msg = m}
    PROVE  /\ IsFiniteSet(Attempts(m)')
           /\ Cardinality(Attempts(m)) \in Nat
           /\ Cardinality(Attempts(m)') \in Nat
           /\ Cardinality(Attempts(m)') =< Cardinality(Attempts(m))
<1>1. Attempts(m)' \subseteq Attempts(m)
  BY ZenonT(30) DEF Attempts
<1>2. /\ IsFiniteSet(Attempts(m)')
      /\ Cardinality(Attempts(m)') =< Cardinality(Attempts(m))
  BY <1>1, FS_Subset, ZenonT(30)
<1>3. QED
  BY <1>2, FS_CardinalityType, ZenonT(30)

\* A packet numbered for m is one attempt more.
LEMMA OneMoreAttempt ==
    ASSUME NEW m \in Msgs, IsFiniteSet(Attempts(m)), NEW d,
           {x \in IssuedIn(writes', net') : x.msg = m}
               \subseteq {x \in IssuedIn(writes, net) : x.msg = m} \cup {d}
    PROVE  /\ IsFiniteSet(Attempts(m)')
           /\ Cardinality(Attempts(m)) \in Nat
           /\ Cardinality(Attempts(m)') \in Nat
           /\ Cardinality(Attempts(m)') =< Cardinality(Attempts(m)) + 1
<1> DEFINE S == Attempts(m) \cup {<<d.sid, d.seq>>}
<1>1. Attempts(m)' \subseteq S
  BY ZenonT(30) DEF Attempts
<1>2. /\ IsFiniteSet(S) /\ Cardinality(Attempts(m)) \in Nat
      /\ \/ Cardinality(S) = Cardinality(Attempts(m))
         \/ Cardinality(S) = Cardinality(Attempts(m)) + 1
  BY FS_AddElement, FS_CardinalityType, ZenonT(30)
<1> HIDE DEF S
<1>3. /\ IsFiniteSet(Attempts(m)')
      /\ Cardinality(Attempts(m)') =< Cardinality(S)
  BY <1>1, <1>2, FS_Subset, ZenonT(30)
<1>4. Cardinality(Attempts(m)') \in Nat
  BY <1>3, FS_CardinalityType, ZenonT(30)
<1>5. QED
  BY <1>2, <1>3, <1>4, Successor, Ordered, ZenonT(30)

\* Receipts, SYNC requests and writes that are done leave the account alone.
LEMMA AttemptKept ==
    ASSUME TypeInv, NEW m \in Msgs, AttemptOK(m),
           IssuedIn(writes', net') \subseteq IssuedIn(writes, net),
           queue'[m].retries = queue[m].retries,
           \/ queue'[m].status = queue[m].status
           \/ queue[m].status = "pending" /\ queue'[m].status = "delivered"
           \/ queue[m].status = "delivered" /\ queue'[m].status = "acknowledged",
           m \in retry' => m \in retry \/ queue[m].status = "pending",
           m > sent' => m > sent /\ queue'[m] = queue[m]
    PROVE  AttemptOK(m)'
<1>1. queue[m] \in Entries /\ queue[m].retries \in Nat /\ MaxRetries \in Nat
  BY RetriesAssumption, ZenonT(30) DEF TypeInv, TypeOK, SenderTypeOK, Entries
<1>2. /\ IsFiniteSet(Attempts(m)')
      /\ Cardinality(Attempts(m)) \in Nat
      /\ Cardinality(Attempts(m)') \in Nat
      /\ Cardinality(Attempts(m)') =< Cardinality(Attempts(m))
  BY FewerAttempts, ZenonT(30) DEF AttemptOK
<1>3. Accounted(queue[m])' = Accounted(queue[m])
  BY ZenonT(30) DEF Accounted
<1>4. Cardinality(Attempts(m)') =< Accounted(queue[m])'
  <2>1. Cardinality(Attempts(m)) =< Accounted(queue[m])
    BY ZenonT(30) DEF AttemptOK
  <2>2. Accounted(queue[m]) \in Nat
    BY <1>1, Successor, Ordered, ZenonT(30) DEF Accounted
  <2>3. QED
    BY <1>2, <1>3, <2>1, <2>2, Successor, Ordered, ZenonT(30)
<1>5. /\ queue'[m].retries =< MaxRetries
      /\ queue'[m].status # "failed" => queue'[m].retries < MaxRetries
      /\ m \in retry' =>
            queue'[m].status \in {"pending", "delivered", "acknowledged"}
      /\ m > sent' => queue'[m] = Absent
  BY <1>1, ZenonT(30) DEF AttemptOK
<1>6. QED
  BY <1>2, <1>4, <1>5, ZenonT(30) DEF AttemptOK

\* build_data_packet numbers a queued message, or one that just timed out.
LEMMA BuildAttempt ==
    ASSUME TypeInv, NEW m \in Msgs, AttemptOK(m), NEW e \in Entries,
           NEW k \in Sids, NEW task, NEW flow, NEW ws \in Seq(Writes),
           BuildAndPersist(m, e, k, task, flow, ws), UNCHANGED <<net, sent>>,
           IssuedIn(ws, net) \subseteq IssuedIn(writes, net),
           e.retries < MaxRetries, queue[m] # Absent,
           \/ queue[m].status = "queued" /\ e.retries = queue[m].retries
           \/ e.retries = queue[m].retries + 1
    PROVE  AttemptOK(m)'
<1> DEFINE d == DataPacket(To[m], k, sendSeq[To[m]][k], m, "queue")
           w == SendSeqWrite(d, NextSequence(To[m], k))
<1>1. /\ writes' = Append(ws, w)
      /\ queue' = [queue EXCEPT ![m] =
                      [e EXCEPT !.status = "pending", !.seq = sendSeq[To[m]][k],
                                !.timed = TRUE]]
  BY ZenonT(30) DEF BuildAndPersist
<1>2. queue'[m].status = "pending" /\ queue'[m].retries = e.retries
  BY <1>1, ZenonT(30) DEF Entries, TypeInv, TypeOK, SenderTypeOK
<1>3. IssuedIn(writes', net') \subseteq IssuedIn(writes, net) \cup {d}
  <2>1. Carries(w) /\ w.pkt = d
    BY ZenonT(30) DEF Carries, SendSeqWrite
  <2>2. IssuedIn(Append(ws, w), net) \subseteq IssuedIn(ws, net) \cup {d}
    BY <2>1, IssuedAppend, ZenonT(30)
  <2>3. QED
    BY <1>1, <2>2, ZenonT(30)
<1> HIDE DEF d, w
<1>4. /\ IsFiniteSet(Attempts(m)')
      /\ Cardinality(Attempts(m)) \in Nat
      /\ Cardinality(Attempts(m)') \in Nat
      /\ Cardinality(Attempts(m)') =< Cardinality(Attempts(m)) + 1
  BY <1>3, OneMoreAttempt, ZenonT(30) DEF AttemptOK
<1>5. /\ queue[m].retries \in Nat /\ e.retries \in Nat /\ MaxRetries \in Nat
  BY RetriesAssumption, ZenonT(30) DEF TypeInv, TypeOK, SenderTypeOK, Entries
<1>6. Cardinality(Attempts(m)') =< Accounted(queue[m])'
  <2>1. Cardinality(Attempts(m)) =< Accounted(queue[m])
    BY ZenonT(30) DEF AttemptOK
  <2>2. Accounted(queue[m])' = e.retries + 1
    BY <1>2, ZenonT(30) DEF Accounted
  <2>3. CASE queue[m].status = "queued" /\ e.retries = queue[m].retries
    <3>1. Accounted(queue[m]) = e.retries
      BY <2>3, ZenonT(30) DEF Accounted
    <3>2. QED
      BY <1>4, <1>5, <2>1, <2>2, <3>1, OneMore, ZenonT(30)
  <2>4. CASE e.retries = queue[m].retries + 1
    <3>1. Accounted(queue[m]) \in Nat /\ Accounted(queue[m]) =< e.retries
      BY <1>5, <2>4, Successor, ZenonT(30) DEF Accounted
    <3>2. Cardinality(Attempts(m)) =< e.retries
      BY <1>4, <1>5, <2>1, <3>1, Ordered, ZenonT(30)
    <3>3. QED
      BY <1>4, <1>5, <2>2, <3>2, OneMore, ZenonT(30)
  <2>5. QED
    BY <2>3, <2>4, ZenonT(30)
<1>7. ~(m > sent')
  BY ZenonT(30) DEF AttemptOK
<1>8. QED
  BY <1>2, <1>4, <1>5, <1>6, <1>7, Successor, Ordered, ZenonT(30) DEF AttemptOK

\* The other messages keep their accounts while one is numbered.
LEMMA BuildOthers ==
    ASSUME TypeInv, NEW m \in Msgs, NEW e, NEW k, NEW task, NEW flow,
           NEW ws \in Seq(Writes), BuildAndPersist(m, e, k, task, flow, ws),
           IssuedIn(ws, net) \subseteq IssuedIn(writes, net),
           UNCHANGED <<net, sent>>,
           NEW n \in Msgs, n # m, AttemptOK(n),
           n \in retry' => n \in retry \/ queue[n].status = "pending"
    PROVE  AttemptOK(n)'
<1> DEFINE d == DataPacket(To[m], k, sendSeq[To[m]][k], m, "queue")
           w == SendSeqWrite(d, NextSequence(To[m], k))
<1>1. writes' = Append(ws, w) /\ queue'[n] = queue[n]
  BY ZenonT(30) DEF BuildAndPersist, TypeInv, TypeOK, SenderTypeOK
<1>2. IssuedIn(writes', net') \subseteq IssuedIn(writes, net) \cup {d}
  <2>1. Carries(w) /\ w.pkt = d
    BY ZenonT(30) DEF Carries, SendSeqWrite
  <2>2. IssuedIn(Append(ws, w), net) \subseteq IssuedIn(ws, net) \cup {d}
    BY <2>1, IssuedAppend, ZenonT(30)
  <2>3. QED
    BY <1>1, <2>2, ZenonT(30)
<1>3. d.msg # n
  BY ZenonT(30) DEF DataPacket
<1> HIDE DEF d, w
<1>4. {x \in IssuedIn(writes', net') : x.msg = n}
          \subseteq {x \in IssuedIn(writes, net) : x.msg = n}
  BY <1>2, <1>3, ZenonT(30)
<1>5. /\ IsFiniteSet(Attempts(n)')
      /\ Cardinality(Attempts(n)) \in Nat
      /\ Cardinality(Attempts(n)') \in Nat
      /\ Cardinality(Attempts(n)') =< Cardinality(Attempts(n))
  BY <1>4, FewerAttempts, ZenonT(30) DEF AttemptOK
<1>6. Cardinality(Attempts(n)') =< Accounted(queue[n])'
  <2>1. Cardinality(Attempts(n)) =< Accounted(queue[n])
    BY ZenonT(30) DEF AttemptOK
  <2>2. queue[n].retries \in Nat
    BY ZenonT(30) DEF TypeInv, TypeOK, SenderTypeOK, Entries
  <2>3. Accounted(queue[n]) \in Nat /\ Accounted(queue[n])' = Accounted(queue[n])
    BY <1>1, <2>2, Successor, Ordered, ZenonT(30) DEF Accounted
  <2>4. QED
    BY <1>5, <2>1, <2>3, Successor, Ordered, ZenonT(30)
<1>7. QED
  BY <1>1, <1>5, <1>6, ZenonT(30) DEF AttemptOK

\* The database thread only moves packets on, or drops what is done with.
LEMMA PacketsMove ==
    ASSUME TypeInv,
           SendSeqSaved \/ MsgSeqSaved \/ PendingSavedAndSent \/ StatusSaved
               \/ SendRowSaved
    PROVE  IssuedIn(writes', net') \subseteq IssuedIn(writes, net)
<1>1. writes \in Seq(Writes)
  BY ZenonT(30) DEF TypeInv, TypeOK, SenderTypeOK
<1>2. writes # <<>>
  BY ZenonT(30) DEF SendSeqSaved, MsgSeqSaved, PendingSavedAndSent, StatusSaved,
         SendRowSaved
<1>3. Tail(writes) \in Seq(Writes)
  BY <1>1, <1>2, HeadAndTail, ZenonT(30)
<1>4. IssuedIn(Tail(writes), net) \subseteq IssuedIn(writes, net)
  BY <1>1, <1>2, IssuedTail, ZenonT(30)
<1> DEFINE d == Head(writes).pkt
<1>5. Carries(Head(writes)) => d \in IssuedIn(writes, net) /\ d \in DataPackets
  BY <1>1, <1>2, HeadCarried, ZenonT(30)
<1>6. ASSUME NEW x, Carries(x), x.pkt = d, Carries(Head(writes)),
             writes' = Append(Tail(writes), x), UNCHANGED net
      PROVE  IssuedIn(writes', net') \subseteq IssuedIn(writes, net)
  <2>1. IssuedIn(Append(Tail(writes), x), net)
            \subseteq IssuedIn(Tail(writes), net) \cup {d}
    BY <1>3, <1>6, IssuedAppend, ZenonT(30)
  <2>2. QED
    BY <1>4, <1>5, <1>6, <2>1, ZenonT(30)
<1>7. CASE SendSeqSaved
  <2>1. /\ writes' = Append(Tail(writes), MsgSeqWrite(d)) /\ UNCHANGED net
        /\ Carries(Head(writes))
    BY <1>7, ZenonT(30) DEF SendSeqSaved, Carries
  <2>2. Carries(MsgSeqWrite(d)) /\ MsgSeqWrite(d).pkt = d
    BY ZenonT(30) DEF MsgSeqWrite, Carries
  <2>3. QED
    BY <1>6, <2>1, <2>2, ZenonT(30)
<1>8. CASE MsgSeqSaved
  <2>1. /\ writes' = Append(Tail(writes), PendingWrite(d)) /\ UNCHANGED net
        /\ Carries(Head(writes))
    BY <1>8, ZenonT(30) DEF MsgSeqSaved, Carries
  <2>2. Carries(PendingWrite(d)) /\ PendingWrite(d).pkt = d
    BY ZenonT(30) DEF PendingWrite, Carries
  <2>3. QED
    BY <1>6, <2>1, <2>2, ZenonT(30)
<1>9. CASE PendingSavedAndSent
  <2>1. /\ writes' = Tail(writes) /\ net' = net \cup {d}
        /\ Carries(Head(writes))
    BY <1>9, ZenonT(30) DEF PendingSavedAndSent, Send, Carries
  <2>2. IssuedIn(writes', net') \subseteq IssuedIn(Tail(writes), net) \cup {d}
    BY <2>1, ZenonT(30) DEF IssuedIn
  <2>3. QED
    BY <1>4, <1>5, <2>1, <2>2, ZenonT(30)
<1>10. CASE StatusSaved \/ SendRowSaved
  BY <1>4, <1>10, ZenonT(30) DEF StatusSaved, SendRowSaved
<1>11. QED
  BY <1>7, <1>8, <1>9, <1>10, ZenonT(30)

\* One turn of the retry loop, for a message that was numbered before: it is
\* given up, put back, or numbered once more.
LEMMA TimeoutAttempt ==
    ASSUME TypeInv, NEW m \in Msgs, HandleTimeout(m), AttemptOK(m),
           queue[m].status \in {"pending", "delivered", "acknowledged"},
           m \notin retry', UNCHANGED <<net, sent>>
    PROVE  AttemptOK(m)'
<1> DEFINE n == queue[m].retries + 1
           k == sSession[To[m]]
           timedOut(st) == [queue[m] EXCEPT !.retries = n, !.status = st]
<1>1. /\ queue[m] \in Entries /\ queue[m].retries \in Nat /\ MaxRetries \in Nat
      /\ writes \in Seq(Writes)
  BY RetriesAssumption, ZenonT(30) DEF TypeInv, TypeOK, SenderTypeOK, Entries
<1>2. /\ queue[m].retries < MaxRetries /\ queue[m] # Absent /\ ~(m > sent)
  BY DEF AttemptOK, Absent
<1>3. \A st \in Statuses :
          /\ timedOut(st) \in Entries /\ timedOut(st).retries = n
          /\ timedOut(st).status = st
  <2>1. SUFFICES ASSUME NEW st \in Statuses
                 PROVE  /\ timedOut(st) \in Entries /\ timedOut(st).retries = n
                        /\ timedOut(st).status = st
    BY ZenonT(30)
  <2>2. PICK e \in Entries : e = queue[m]
    BY <1>1, ZenonT(30)
  <2>3. PICK r \in Nat : r = n
    BY <1>1, Successor, Ordered, ZenonT(30)
  <2>4. timedOut(st) = [e EXCEPT !.retries = r, !.status = st]
    BY <2>2, <2>3, ZenonT(30)
  <2>5. QED
    BY <2>3, <2>4, ZenonT(30) DEF Entries
<1>4. ASSUME NEW st \in {"failed", "queued"}, st = "queued" => n < MaxRetries,
             queue' = [queue EXCEPT ![m] = timedOut(st)],
             IssuedIn(writes', net') \subseteq IssuedIn(writes, net)
      PROVE  AttemptOK(m)'
  <2>1. queue'[m].status = st /\ queue'[m].retries = n
    BY <1>3, <1>4, ZenonT(30) DEF TypeInv, TypeOK, SenderTypeOK, Statuses
  <2>2. /\ IsFiniteSet(Attempts(m)')
        /\ Cardinality(Attempts(m)) \in Nat
        /\ Cardinality(Attempts(m)') \in Nat
        /\ Cardinality(Attempts(m)') =< Cardinality(Attempts(m))
    BY <1>4, FewerAttempts, ZenonT(30) DEF AttemptOK
  <2>3. Cardinality(Attempts(m)) =< n
    BY ZenonT(30) DEF AttemptOK, Accounted
  <2>4. Accounted(queue[m])' = n
    BY <1>4, <2>1, ZenonT(30) DEF Accounted
  <2>5. Cardinality(Attempts(m)') =< Accounted(queue[m])'
    BY <1>1, <2>2, <2>3, <2>4
  <2>6. /\ queue'[m].retries =< MaxRetries
        /\ queue'[m].status # "failed" => queue'[m].retries < MaxRetries
    BY <1>1, <1>2, <1>4, <2>1
  <2>7. QED
    BY <1>2, <2>2, <2>5, <2>6, ZenonT(30) DEF AttemptOK
<1>5. CASE /\ queue' = [queue EXCEPT ![m] = timedOut("failed")]
           /\ writes' = Append(writes, StatusWrite(m, "failed"))
  <2>1. ~Carries(StatusWrite(m, "failed"))
    BY ZenonT(30) DEF Carries, StatusWrite
  <2>2. IssuedIn(writes', net') \subseteq IssuedIn(writes, net)
    BY <1>1, <1>5, <2>1, IssuedAppend, ZenonT(30)
  <2>3. QED
    BY <1>4, <1>5, <2>2, ZenonT(30)
<1>6. CASE /\ ~Exhausted(n) /\ queue' = [queue EXCEPT ![m] = timedOut("queued")]
           /\ UNCHANGED writes
  <2>1. n < MaxRetries
    BY <1>1, <1>6, Successor, Ordered, ZenonT(30) DEF Exhausted
  <2>2. QED
    BY <1>4, <1>6, <2>1, ZenonT(30)
<1>7. CASE /\ ~Exhausted(n) /\ k # 0
           /\ BuildAndPersist(m, timedOut("queued"), k, "retry", 0, writes)
  <2>1. n < MaxRetries
    BY <1>1, <1>7, Successor, Ordered, ZenonT(30) DEF Exhausted
  <2>2. k \in Sids
    BY <1>7, WireAssumption, SidsPositive, ZenonT(30)
    DEF TypeInv, TypeOK, SenderTypeOK, Sids
  <2>3. timedOut("queued") \in Entries /\ timedOut("queued").retries = n
    BY <1>3, ZenonT(30) DEF Statuses
  <2> HIDE DEF timedOut, k
  <2>4. QED
    BY <1>1, <1>2, <1>7, <2>1, <2>2, <2>3, BuildAttempt, ZenonT(30)
<1>8. QED
  BY <1>5, <1>6, <1>7, ZenonT(30) DEF HandleTimeout

\* The other messages keep their accounts.
LEMMA TimeoutOthers ==
    ASSUME TypeInv, NEW m \in Msgs, HandleTimeout(m), UNCHANGED <<net, sent>>,
           NEW n \in Msgs, n # m, AttemptOK(n),
           n \in retry' => n \in retry \/ queue[n].status = "pending"
    PROVE  AttemptOK(n)'
<1> DEFINE k == sSession[To[m]]
           timedOut(st) == [queue[m] EXCEPT !.retries = queue[m].retries + 1,
                                            !.status = st]
<1>1. writes \in Seq(Writes)
  BY ZenonT(30) DEF TypeInv, TypeOK, SenderTypeOK
<1>2. CASE BuildAndPersist(m, timedOut("queued"), k, "retry", 0, writes)
  <2> HIDE DEF timedOut, k
  <2>1. QED
    BY <1>1, <1>2, BuildOthers, ZenonT(30)
<1>3. ASSUME NEW st, queue' = [queue EXCEPT ![m] = timedOut(st)],
             IssuedIn(writes', net') \subseteq IssuedIn(writes, net)
      PROVE  AttemptOK(n)'
  <2>1. queue'[n] = queue[n]
    BY <1>3, ZenonT(30) DEF TypeInv, TypeOK, SenderTypeOK
  <2>2. QED
    BY <1>3, <2>1, AttemptKept, ZenonT(30)
<1>4. ~Carries(StatusWrite(m, "failed"))
  BY ZenonT(30) DEF Carries, StatusWrite
<1>5. writes' = Append(writes, StatusWrite(m, "failed"))
          => IssuedIn(writes', net') \subseteq IssuedIn(writes, net)
  BY <1>1, <1>4, IssuedAppend, ZenonT(30)
<1>6. QED
  BY <1>2, <1>3, <1>5, ZenonT(30) DEF HandleTimeout

\* Every step of the sender keeps the accounts of its messages.
LEMMA SenderAttemptStep ==
    ASSUME TypeInv, \A x \in Msgs : AttemptOK(x),
           SendMessage \/ SenderWorks \/ SenderHears, NEW n \in Msgs
    PROVE  AttemptOK(n)'
<1>0. /\ writes \in Seq(Writes) /\ queue \in [Msgs -> Entries]
      /\ retry \in SUBSET Msgs /\ Msgs \subseteq Nat /\ sent \in Nat
  <2>1. sent \in 0..NumMsgs
    BY ZenonT(30) DEF TypeInv, TypeOK, SenderTypeOK
  <2>2. sent \in Nat
    <3>1. NumMsgs \in Nat
      BY WireAssumption, ZenonT(30)
    <3>2. QED
      BY <2>1, <3>1, AboveZero, ZenonT(30)
  <2>3. QED
    BY <2>2, MsgsNumbered, ZenonT(30) DEF TypeInv, TypeOK, SenderTypeOK
<1>a. ASSUME UNCHANGED <<queue, sent, retry>>,
             IssuedIn(writes', net') \subseteq IssuedIn(writes, net)
      PROVE  AttemptOK(n)'
  BY <1>a, AttemptKept, ZenonT(30)
<1>1. CASE SendMessage
  <2> DEFINE m == sent + 1
  <2>1. /\ m \in Msgs /\ sent' = m
        /\ queue' = [queue EXCEPT ![m] = [Absent EXCEPT !.status = "queued"]]
        /\ writes' = Append(writes, InsertWrite(m)) /\ UNCHANGED <<retry, net>>
    BY <1>1, ZenonT(30) DEF SendMessage
  <2>2. IssuedIn(writes', net') \subseteq IssuedIn(writes, net)
    BY <1>0, <2>1, IssuedAppend, ZenonT(30) DEF InsertWrite, Carries
  <2>3. CASE n # m
    <3>1. queue'[n] = queue[n] /\ (n > sent' => n > sent)
      BY <1>0, <2>1, <2>3, Successor, Ordered, ZenonT(30)
    <3>2. QED
      BY <2>1, <2>2, <3>1, AttemptKept, ZenonT(30)
  <2>4. CASE n = m
    <3>1. n > sent /\ ~(n > sent')
      BY <1>0, <2>1, <2>4, Successor, Ordered, ZenonT(30)
    <3>2. queue[n] = Absent
      BY <3>1, ZenonT(30) DEF AttemptOK
    <3>3. queue'[n].status = "queued" /\ queue'[n].retries = 0
      BY <1>0, <2>1, <2>4, ZenonT(30) DEF Absent
    <3>4. /\ IsFiniteSet(Attempts(n)')
          /\ Cardinality(Attempts(n)) \in Nat
          /\ Cardinality(Attempts(n)') \in Nat
          /\ Cardinality(Attempts(n)') =< Cardinality(Attempts(n))
      BY <2>2, FewerAttempts, ZenonT(30) DEF AttemptOK
    <3>5. Cardinality(Attempts(n)) =< 0
      BY <3>2, AbsentParts, ZenonT(30) DEF AttemptOK, Accounted
    <3>6. Cardinality(Attempts(n)') =< Accounted(queue[n])'
      <4>1. Cardinality(Attempts(n)) = 0
        BY <3>4, <3>5, AboveZero, ZenonT(30)
      <4>2. Accounted(queue[n])' = 0
        BY <3>3, ZenonT(30) DEF Accounted
      <4>3. QED
        BY <3>4, <4>1, <4>2, ZenonT(30)
    <3>7. n \notin retry'
      BY <2>1, <3>2, AbsentParts, ZenonT(30) DEF AttemptOK
    <3>8. 0 =< MaxRetries /\ 0 < MaxRetries
      BY RetriesAssumption, AboveZero, ZenonT(30)
    <3>9. QED
      BY <3>1, <3>3, <3>4, <3>6, <3>7, <3>8, ZenonT(30) DEF AttemptOK
  <2>5. QED
    BY <2>3, <2>4, ZenonT(30)
<1>2. CASE MessageInserted
  <2> DEFINE m == Head(writes).msg
             k == inserting[m]
  <2>1. writes # <<>> /\ Head(writes).op = "insert" /\ UNCHANGED <<sent, retry, net>>
    BY <1>2, ZenonT(30) DEF MessageInserted
  <2>2. Head(writes) \in Writes /\ Tail(writes) \in Seq(Writes)
    BY <1>0, <2>1, HeadAndTail, ZenonT(30)
  <2>3. m \in Msgs
    BY <2>1, <2>2, WriteParts, ZenonT(30)
  <2>4. IssuedIn(Tail(writes), net) \subseteq IssuedIn(writes, net)
    BY <1>0, <2>1, IssuedTail, ZenonT(30)
  <2>5. CASE /\ k # 0 /\ queue[m].status = "queued"
             /\ BuildAndPersist(m, queue[m], k, "send", 0, Tail(writes))
    <3>1. k \in Sids
      BY <2>3, <2>5, WireAssumption, SidsPositive, ZenonT(30)
      DEF TypeInv, TypeOK, SenderTypeOK, Sids
    <3> HIDE DEF m, k
    <3>2. queue[m] \in Entries /\ queue[m].retries < MaxRetries /\ queue[m] # Absent
      BY <1>0, <2>3, <2>5, AbsentParts, ZenonT(30) DEF AttemptOK
    <3>3. CASE n = m
      BY <2>1, <2>2, <2>3, <2>4, <2>5, <3>1, <3>2, <3>3, BuildAttempt,
         ZenonT(30)
    <3>4. CASE n # m
      BY <2>1, <2>2, <2>3, <2>4, <2>5, <3>4, BuildOthers, ZenonT(30)
    <3>5. QED
      BY <3>3, <3>4, ZenonT(30)
  <2>6. CASE writes' = Tail(writes) /\ UNCHANGED <<queue, sendSeq, sending>>
    BY <1>a, <2>1, <2>4, <2>6, ZenonT(30)
  <2>7. QED
    BY <1>2, <2>5, <2>6, ZenonT(30) DEF MessageInserted
<1>3. CASE SendSeqSaved \/ MsgSeqSaved \/ PendingSavedAndSent \/ StatusSaved
               \/ SendRowSaved
  <2>1. UNCHANGED <<queue, sent, retry>>
    BY <1>3, ZenonT(30) DEF SendSeqSaved, MsgSeqSaved, PendingSavedAndSent, StatusSaved,
                SendRowSaved, senderMem
  <2>2. QED
    BY <1>3, <1>a, <2>1, PacketsMove, ZenonT(30)
<1>4. ASSUME NEW p \in Peers, NEW k \in Sids, FlushStart(p, k)
      PROVE  AttemptOK(n)'
  BY <1>4, <1>a, ZenonT(30) DEF FlushStart
<1>5. ASSUME NEW p \in Peers, NEW k \in Sids, FlushStep(p, k)
      PROVE  AttemptOK(n)'
  <2> DEFINE f == flush[p][k]
             left == f.todo \cap QueuedFor(p)
             m == First(left)
  <2>1. f.stage = "flushing" /\ UNCHANGED <<sent, retry, net>>
    BY <1>5, ZenonT(30) DEF FlushStep
  <2>2. CASE left # {} /\ BuildAndPersist(m, queue[m], f.sid, "flush", k, writes)
    <3>1. m \in left
      <4>1. left \subseteq Nat
        BY <1>0, ZenonT(30) DEF QueuedFor
      <4>2. QED
        BY <4>1, <2>2, FirstIn, Zenon
    <3>2. m \in Msgs /\ queue[m].status = "queued"
      BY <3>1, ZenonT(30) DEF QueuedFor
    <3>3. f.sid \in Sids
      <4>1. f \in Flushes /\ f.sid # 0
        BY <2>1, ZenonT(30) DEF TypeInv, TypeOK, SenderTypeOK, SessionsNamed
      <4>2. QED
        BY <4>1, WireAssumption, SidsPositive, ZenonT(30) DEF Flushes, Sids
    <3>4. queue[m] \in Entries /\ queue[m].retries < MaxRetries /\ queue[m] # Absent
      BY <1>0, <3>2, AbsentParts, ZenonT(30) DEF AttemptOK
    <3> HIDE DEF m, f, left
    <3>5. CASE n = m
      BY <1>0, <2>1, <2>2, <3>2, <3>3, <3>4, <3>5, BuildAttempt, ZenonT(30)
    <3>6. CASE n # m
      BY <1>0, <2>1, <2>2, <3>2, <3>6, BuildOthers, ZenonT(30)
    <3>7. QED
      BY <3>5, <3>6, ZenonT(30)
  <2>3. CASE UNCHANGED <<queue, sendSeq, sending, writes>>
    BY <1>a, <2>1, <2>3, ZenonT(30)
  <2>4. QED
    BY <1>5, <2>2, <2>3, ZenonT(30) DEF FlushStep
<1>6. CASE RetryScan
  <2>1. PICK T \in SUBSET {x \in Msgs : MayTimeOut(x)} :
             T # {} /\ HandleTimeout(First(T)) /\ retry' = T \ {First(T)}
    BY <1>6, ZenonT(30) DEF RetryScan
  <2>2. First(T) \in T
    BY <1>0, <2>1, FirstIn, Zenon
  <2>3. UNCHANGED <<sent, net>>
    BY <1>6, ZenonT(30) DEF RetryScan
  <2>4. CASE n = First(T)
    <3>1. n \notin retry' /\ queue[n].status = "pending"
      BY <2>1, <2>2, <2>4, ZenonT(30) DEF MayTimeOut
    <3>2. QED
      BY <2>1, <2>3, <2>4, <3>1, TimeoutAttempt, ZenonT(30)
  <2>5. CASE n # First(T)
    <3>1. n \in retry' => queue[n].status = "pending"
      BY <2>1, ZenonT(30) DEF MayTimeOut
    <3>2. First(T) \in Msgs
      BY <2>1, <2>2, ZenonT(30)
    <3>3. QED
      BY <2>1, <2>3, <2>5, <3>1, <3>2, TimeoutOthers, ZenonT(30)
  <2>6. QED
    BY <2>4, <2>5, ZenonT(30)
<1>7. CASE RetryNext
  <2>1. /\ retry # {} /\ HandleTimeout(First(retry))
        /\ retry' = retry \ {First(retry)} /\ UNCHANGED <<sent, net>>
    BY <1>7, ZenonT(30) DEF RetryNext
  <2>2. First(retry) \in retry
    BY <1>0, <2>1, FirstIn, Zenon
  <2>3. CASE n = First(retry)
    <3>1. /\ n \notin retry'
          /\ queue[n].status \in {"pending", "delivered", "acknowledged"}
      BY <2>1, <2>2, <2>3, ZenonT(30) DEF AttemptOK
    <3>2. QED
      BY <2>1, <2>3, <3>1, TimeoutAttempt, ZenonT(30)
  <2>4. CASE n # First(retry)
    <3>1. First(retry) \in Msgs /\ (n \in retry' => n \in retry)
      BY <1>0, <2>1, <2>2, ZenonT(30)
    <3>2. QED
      BY <2>1, <2>4, <3>1, TimeoutOthers, ZenonT(30)
  <2>5. QED
    BY <2>3, <2>4, ZenonT(30)
<1>8. ASSUME NEW a, HandleAck(a) \/ HandleAppAck(a) PROVE AttemptOK(n)'
  <2>1. PICK S \in SUBSET Msgs, old \in {"pending", "delivered"},
             st \in {"delivered", "acknowledged"} :
             /\ S # {} /\ \A x \in S : queue[x].status = old
             /\ old = "pending" => st = "delivered"
             /\ old = "delivered" => st = "acknowledged"
             /\ queue' = [queue EXCEPT ![First(S)].status = st]
             /\ writes' = Append(writes, StatusWrite(First(S), st))
             /\ UNCHANGED <<sent, retry, net>>
    <3>1. CASE HandleAck(a)
      <4> DEFINE S == {m \in Msgs : AckMatches(m, a)}
      <4>1. /\ S \in SUBSET Msgs /\ S # {}
            /\ \A x \in S : queue[x].status = "pending"
            /\ queue' = [queue EXCEPT ![First(S)].status = "delivered"]
            /\ writes' = Append(writes, StatusWrite(First(S), "delivered"))
            /\ UNCHANGED <<sent, retry, net>>
        BY <3>1, ZenonT(30) DEF HandleAck, AckMatches
      <4> HIDE DEF S
      <4>2. QED
        BY <4>1, ZenonT(30)
    <3>2. CASE HandleAppAck(a)
      <4> DEFINE S == {m \in Msgs : AppAckMatches(m, a)}
      <4>1. /\ S \in SUBSET Msgs /\ S # {}
            /\ \A x \in S : queue[x].status = "delivered"
            /\ queue' = [queue EXCEPT ![First(S)].status = "acknowledged"]
            /\ writes' = Append(writes, StatusWrite(First(S), "acknowledged"))
            /\ UNCHANGED <<sent, retry, net>>
        BY <3>2, ZenonT(30) DEF HandleAppAck, AppAckMatches
      <4> HIDE DEF S
      <4>2. QED
        BY <4>1, ZenonT(30)
    <3>3. QED
      BY <1>8, <3>1, <3>2, ZenonT(30)
  <2>2. First(S) \in S
    BY <1>0, <2>1, FirstIn, Zenon
  <2>3. IssuedIn(writes', net') \subseteq IssuedIn(writes, net)
    BY <1>0, <2>1, IssuedAppend, ZenonT(90) DEF StatusWrite, Carries
  <2>4. CASE n = First(S)
    <3>1. queue'[n] = [queue[n] EXCEPT !.status = st]
      BY <1>0, <2>1, <2>4, ZenonT(30)
    <3>2. queue[n] \in Entries /\ queue[n].status = old
      BY <1>0, <2>1, <2>2, <2>4, ZenonT(30)
    <3>3. queue'[n].retries = queue[n].retries /\ queue'[n].status = st
      BY <3>1, <3>2, ZenonT(30) DEF Entries
    <3>4. ~(n > sent)
      BY <2>1, <3>2 DEF AttemptOK, Absent
    <3>5. QED
      BY <2>1, <2>3, <3>2, <3>3, <3>4, AttemptKept, ZenonT(30)
  <2>5. CASE n # First(S)
    <3>1. queue'[n] = queue[n]
      BY <1>0, <2>1, <2>5, ZenonT(30)
    <3>2. QED
      BY <2>1, <2>3, <3>1, AttemptKept, ZenonT(30)
  <2>6. QED
    BY <2>4, <2>5, ZenonT(30)
<1>9. ASSUME NEW y \in SyncsSent, HandleSync(y) PROVE AttemptOK(n)'
  <2>1. /\ queue'[n] = queue[n]
           \/ /\ queue[n].status # "absent"
              /\ queue'[n] = [queue[n] EXCEPT !.timed = TRUE]
        /\ UNCHANGED <<sent, retry, writes>>
    BY <1>9, ZenonT(30) DEF HandleSync
  <2>2. /\ queue'[n].retries = queue[n].retries
        /\ queue'[n].status = queue[n].status
        /\ n > sent => queue'[n] = queue[n]
    <3>1. n > sent => queue[n].status = "absent"
      BY AbsentParts, ZenonT(30) DEF AttemptOK
    <3>2. queue[n] \in Entries
      BY <1>0, ZenonT(30)
    <3>3. QED
      BY <2>1, <3>1, <3>2, ZenonT(30) DEF Entries
  <2>3. IssuedIn(writes', net') \subseteq IssuedIn(writes, net)
    <3>1. \A d \in net' \ net : ~(d.type = "DATA" /\ d.via = "queue")
      BY <1>9 DEF HandleSync, Send, DataPacket
    <3>2. QED
      BY <2>1, <3>1, ZenonT(30) DEF IssuedIn
  <2>4. QED
    BY <2>1, <2>2, <2>3, AttemptKept, ZenonT(30)
<1>10. QED
  BY <1>1, <1>2, <1>3, <1>4, <1>5, <1>6, <1>7, <1>8, <1>9, ZenonT(30)
  DEF SenderWorks, SenderHears

\* Every step of the system keeps the accounts while no restart of the
\* sending node is left to happen.
LEMMA AttemptStep == TypeInv /\ AttemptInv /\ [Next]_vars => AttemptInv'
<1> SUFFICES ASSUME TypeInv, AttemptInv, [Next]_vars PROVE AttemptInv'
  BY ZenonT(30)
<1>0. \A x \in Msgs : AttemptOK(x)
  BY ZenonT(30) DEF AttemptInv
<1>a. ASSUME UNCHANGED <<queue, sent, retry, writes>>,
             \A d \in net' \ net : d.type # "DATA", budget'["sendCrash"] = 0
      PROVE  AttemptInv'
  <2>1. IssuedIn(writes', net') \subseteq IssuedIn(writes, net)
    BY <1>a, ZenonT(30) DEF IssuedIn
  <2>2. ASSUME NEW n \in Msgs PROVE AttemptOK(n)'
    BY <1>0, <1>a, <2>1, AttemptKept, ZenonT(30)
  <2>3. QED
    BY <1>a, <2>2, ZenonT(30) DEF AttemptInv
<1>1. CASE UNCHANGED vars
  BY <1>1, <1>a, ZenonT(30) DEF vars, senderVars, AttemptInv
<1>2. CASE /\ SendMessage \/ SenderWorks \/ SenderHears
           /\ UNCHANGED <<receiverVars, handshakeVars>>
  <2>1. ASSUME NEW n \in Msgs PROVE AttemptOK(n)'
    BY <1>0, <1>2, SenderAttemptStep, ZenonT(30)
  <2>2. QED
    BY <1>2, <2>1, ZenonT(30) DEF AttemptInv, handshakeVars
<1>3. CASE /\ (\E d \in DataSent : HandleData(d)) \/ ReceiverWorks
           /\ UNCHANGED <<senderVars, handshakeVars>>
  BY <1>3, <1>a, ReceiversSendNoData, ZenonT(30)
  DEF AttemptInv, senderVars, handshakeVars
<1>4. ASSUME NEW p \in Peers, NEW k, RegisterSend(p, k), UNCHANGED budget
      PROVE  AttemptInv'
  <2>1. /\ UNCHANGED <<queue, sent, retry, net>>
        /\ writes' = Append(writes, RowWrite(p, k, Larger(1, sendFloor[p])))
    BY <1>4, ZenonT(30) DEF RegisterSend
  <2>2. writes \in Seq(Writes)
    BY ZenonT(30) DEF TypeInv, TypeOK, SenderTypeOK
  <2>3. IssuedIn(writes', net') \subseteq IssuedIn(writes, net)
    BY <2>1, <2>2, IssuedAppend, ZenonT(90) DEF RowWrite, Carries
  <2>4. ASSUME NEW n \in Msgs PROVE AttemptOK(n)'
    BY <1>0, <2>1, <2>3, AttemptKept, ZenonT(30)
  <2>5. QED
    BY <1>4, <2>4, ZenonT(30) DEF AttemptInv
<1>5. CASE Handshakes
  <2>1. ASSUME NEW p \in Peers, SenderAnswersHello(p) PROVE AttemptInv'
    BY <1>4, <2>1, ZenonT(30) DEF SenderAnswersHello
  <2>2. ASSUME NEW p \in Peers, SenderTakesHelloAck(p) PROVE AttemptInv'
    BY <1>4, <2>2, ZenonT(30) DEF SenderTakesHelloAck
  <2>3. ASSUME NEW p \in Peers, ReceiverAnswersHello(p) \/ ReceiverTakesHelloAck(p)
        PROVE  AttemptInv'
    <3>1. UNCHANGED <<senderVars, budget, net>>
      BY <2>3, ZenonT(30)
      DEF ReceiverAnswersHello, ReceiverTakesHelloAck, RegisterRecv
    <3>2. QED
      BY <1>a, <3>1, ZenonT(30) DEF AttemptInv, senderVars
  <2>4. QED
    BY <1>5, <2>1, <2>2, <2>3, ZenonT(30) DEF Handshakes
<1>6. ASSUME NEW f \in Faults, Spend(f) PROVE budget'["sendCrash"] = 0
  BY <1>6, Successor, Ordered, ZenonT(30)
  DEF Spend, AttemptInv, TypeInv, TypeOK, Faults
<1>7. CASE FaultsHappen
  <2>1. ASSUME NEW p \in Peers, SenderLosesPeer(p) PROVE AttemptInv'
    BY <1>6, <1>a, <2>1, ZenonT(30)
    DEF SenderLosesPeer, DropSendSession, Faults
  <2>2. ASSUME NEW p \in Peers, ReceiverLosesPeer(p) \/ ReceiverCrashes(p)
        PROVE  AttemptInv'
    BY <1>6, <1>a, <2>2, ZenonT(30)
    DEF ReceiverLosesPeer, DropRecvSession, ReceiverCrashes, RestartReceiver,
        Faults, senderVars
  <2>3. ~SenderCrashes
    BY AboveZero, ZenonT(30) DEF SenderCrashes, Spend, AttemptInv
  <2>4. QED
    BY <1>7, <2>1, <2>2, <2>3, ZenonT(30) DEF FaultsHappen
<1>8. QED
  BY <1>1, <1>2, <1>3, <1>5, <1>7, ZenonT(30) DEF Next

\* "Max retry attempts: 5" (project_requirements.md): while the sending node
\* is not restarted, a message is sent from the queue under at most
\* MAX_RETRIES numbers, over all sessions, losses and repeated timeouts.
THEOREM RetriesBounded ==
    ASSUME Budget["sendCrash"] = 0
    PROVE  Spec => []AttemptsBounded
<1>1. Init => TypeInv /\ AttemptInv
  <2> SUFFICES ASSUME Init PROVE AttemptInv
    BY TypeInit, ZenonT(30)
  <2>1. /\ queue = [m \in Msgs |-> Absent] /\ retry = {} /\ writes = <<>>
        /\ net = {} /\ budget["sendCrash"] = 0
    BY ZenonT(30) DEF Init, SenderInit
  <2>2. IssuedIn(writes, net) = {}
    BY <2>1 DEF IssuedIn
  <2>3. ASSUME NEW m \in Msgs PROVE AttemptOK(m)
    <3>1. Attempts(m) = {}
      BY <2>2, ZenonT(30) DEF Attempts
    <3>2. IsFiniteSet(Attempts(m)) /\ Cardinality(Attempts(m)) = 0
      BY <3>1, FS_EmptySet, ZenonT(30)
    <3>3. queue[m] = Absent
      BY <2>1, ZenonT(30)
    <3>4. QED
      BY <2>1, <3>2, <3>3, RetriesAssumption DEF AttemptOK, Accounted, Absent
  <2>4. QED
    BY <2>1, <2>3, ZenonT(30) DEF AttemptInv
<1>2. TypeInv /\ AttemptInv /\ [Next]_vars => (TypeInv /\ AttemptInv)'
  BY TypeStep, AttemptStep, ZenonT(30)
<1>3. TypeInv /\ AttemptInv => AttemptsBounded
  <2> SUFFICES ASSUME TypeInv, AttemptInv, NEW m \in Msgs
               PROVE  Cardinality({<<d.sid, d.seq>> : d \in {x \in DataSent :
                          x.msg = m /\ x.via = "queue"}}) =< MaxRetries
    BY ZenonT(30) DEF AttemptsBounded
  <2> DEFINE S == {<<d.sid, d.seq>> : d \in {x \in DataSent :
                       x.msg = m /\ x.via = "queue"}}
  <2>1. S \subseteq Attempts(m)
    BY ZenonT(30) DEF Attempts, IssuedIn, DataSent
  <2> HIDE DEF S
  <2>2. /\ IsFiniteSet(Attempts(m))
        /\ Cardinality(Attempts(m)) =< Accounted(queue[m])
        /\ queue[m].retries =< MaxRetries
        /\ queue[m].status # "failed" => queue[m].retries < MaxRetries
    BY ZenonT(30) DEF AttemptInv, AttemptOK
  <2>3. Cardinality(S) =< Cardinality(Attempts(m)) /\ IsFiniteSet(S)
    BY <2>1, <2>2, FS_Subset, ZenonT(30)
  <2>4. Cardinality(S) \in Nat /\ Cardinality(Attempts(m)) \in Nat
    BY <2>2, <2>3, FS_CardinalityType, ZenonT(30)
  <2>5. queue[m].retries \in Nat /\ MaxRetries \in Nat
    BY RetriesAssumption, ZenonT(30) DEF TypeInv, TypeOK, SenderTypeOK, Entries
  <2>6. Accounted(queue[m]) \in Nat /\ Accounted(queue[m]) =< MaxRetries
    BY <2>2, <2>5, Successor, Ordered, ZenonT(30) DEF Accounted
  <2>7. Cardinality(S) =< MaxRetries
    BY <2>2, <2>3, <2>4, <2>5, <2>6, Successor, Ordered, ZenonT(30)
  <2>8. QED
    BY <2>7, ZenonT(30) DEF S
<1>4. QED
  BY <1>1, <1>2, <1>3, PTL DEF Spec
=============================================================================
