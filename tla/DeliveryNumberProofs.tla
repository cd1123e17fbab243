------------------------ MODULE DeliveryNumberProofs ------------------------
EXTENDS DeliverySendProofs

(***************************************************************************)
(* The numbers of the present session and the messages they stand for: a   *)
(* number stands for one message (NamesHold), so it is not drawn twice     *)
(* (NumbersNeverRepeat), and the message an APP_ACK names is the one its   *)
(* receiver logged (AcknowledgedWereLogged).                               *)
(***************************************************************************)
\* The next number that a packet for p gets.
Counter(p) ==
    IF sSession[p] = 0 THEN Larger(1, sendFloor[p]) ELSE sendSeq[p][sSession[p]]

\* Number n stands for message m in what was, or may still be, sent to p in
\* the present session.
Named(p, n, m) ==
    \/ \E d \in DataSent : /\ d.peer = p /\ d.sid = sSession[p]
                           /\ d.seq = n /\ d.msg = m
    \/ \E d \in IssuedIn(writes, {}) : d.peer = p /\ d.seq = n /\ d.msg = m
    \/ To[m] = p /\ n # 0 /\ (queue[m].seq = n \/ queueRow[m].seq = n)

NamesHold ==
    \A p \in Peers : \A n \in Nat : \A m \in Msgs : Named(p, n, m) =>
        n < Counter(p) /\ \A l \in Msgs : Named(p, n, l) => l = m

-----------------------------------------------------------------------------
(***************************************************************************)
(* Numbers that SYNC sends again.  As long as the sending node loses no    *)
(* session other than by a restart, a message is only ever numbered in the *)
(* session of its receiver that is registered now, so what rebuild_for_sync *)
(* finds in the queue was drawn from that session's counter or, after a    *)
(* restart, lies below the floor the new session starts from.              *)
(***************************************************************************)
Floors == [p \in Peers |-> SavedSend(p)]

\* A queue of writes belongs to the sessions sess and lies above the floors.
QueueNow(ws, sess, floors) ==
    /\ \A i \in 1..Len(ws) : \A p \in Peers : \A k \in Sids :
          Sets(ws[i], p, k) => k = sess[p] /\ floors[p] =< ws[i].val
    /\ \A i \in 1..Len(ws) : Carries(ws[i]) =>
          /\ ws[i].pkt.sid = sess[ws[i].pkt.peer]
          /\ ws[i].pkt.peer = To[ws[i].pkt.msg]

\* Every handler works in the session that is registered.
OneSession ==
    /\ QueueNow(writes, sSession, Floors)
    /\ \A m \in Msgs : inserting[m] \in {0, sSession[To[m]]}
    /\ \A p \in Peers : \A k \in Sids :
          flush[p][k].stage = "flushing" => flush[p][k].sid = sSession[p]
    /\ \A p \in Peers : offer[p].to = "sender" => nextSid[p] = offer[p].sid + 1
    /\ \A d \in DataSent : ~SendFresh(d.peer, d.sid) /\ d.peer = To[d.msg]

\* The floor a restart would leave is below the counter and above what the
\* queue table names.
FloorsHold ==
    /\ \A p \in Peers : \A k \in Sids :
          (sendRow[p][k] # 0 /\ sSession[p] # 0) => k =< sSession[p]
    /\ \A p \in Peers : Floors[p] =< Counter(p)
    /\ \A p \in Peers : sSession[p] = 0 => sendFloor[p] = Floors[p]
    /\ \A m \in Msgs : queueRow[m].seq = 0 \/ queueRow[m].seq < Floors[To[m]]

OnceInv ==
    /\ budget["sendDrop"] = 0
    /\ OneSession
    /\ FloorsHold
    /\ NamesHold
    /\ NumbersOnce

\* Types of what the invariant speaks of.
LEMMA OnceTypes ==
    ASSUME TypeInv
    PROVE  /\ sendSeq \in Counters /\ sendRow \in Counters
           /\ writes \in Seq(Writes)
           /\ \A p \in Peers : /\ sSession[p] \in 0..MaxSid
                               /\ sSession[p] # 0 => sSession[p] \in Sids
                               /\ sendFloor[p] \in Nat
                               /\ Floors[p] \in Nat /\ Floors[p] = SavedSend(p)
                               /\ Counter(p) \in Nat
           /\ \A m \in Msgs : /\ To[m] \in Peers /\ queue[m].seq \in Nat
                              /\ queueRow[m].seq \in Nat
           /\ \A k \in Sids : k # 0 /\ k \in Nat
<1> USE DEF TypeInv, TypeOK, SenderTypeOK
<1>1. /\ sendSeq \in Counters /\ sendRow \in Counters
      /\ writes \in Seq(Writes)
  BY ZenonT(30) DEF Counters
<1>2. \A k \in Sids : k # 0 /\ k \in Nat
  BY WireAssumption DEF Sids
<1>3. ASSUME NEW p \in Peers
      PROVE  /\ sSession[p] \in 0..MaxSid
             /\ sSession[p] # 0 => sSession[p] \in Sids
             /\ sendFloor[p] \in Nat
             /\ Floors[p] \in Nat /\ Floors[p] = SavedSend(p)
             /\ Counter(p) \in Nat
  <2>1. /\ sSession[p] \in 0..MaxSid /\ sendFloor[p] \in Nat
        /\ sSession[p] # 0 => sSession[p] \in Sids
    BY WireAssumption, SidsPositive, ZenonT(30) DEF Sids
  <2>2. Floors[p] \in Nat /\ Floors[p] = SavedSend(p)
    BY FloorTypes, ZenonT(30) DEF Floors
  <2>3. Larger(1, sendFloor[p]) \in Nat
    BY <2>1, ZenonT(30) DEF Larger
  <2>4. Counter(p) \in Nat
    BY <1>1, <2>1, <2>3 DEF Counter, Counters
  <2>5. QED
    BY <2>1, <2>2, <2>4, ZenonT(30)
<1>4. ASSUME NEW m \in Msgs
      PROVE  To[m] \in Peers /\ queue[m].seq \in Nat /\ queueRow[m].seq \in Nat
  BY WireAssumption, ZenonT(30) DEF Entries, Rows
<1>5. QED
  BY <1>1, <1>2, <1>3, <1>4, ZenonT(30)

\* The newest of a set of sessions is the one no other is above.
LEMMA NewestIs ==
    ASSUME NEW S, S \subseteq Nat, NEW k \in S, \A j \in S : j =< k
    PROVE  Newest(S) = k
<1>1. Newest(S) \in S /\ \A j \in S : Newest(S) >= j
  <2>1. \E x \in S : \A y \in S : x >= y
    BY ZenonT(30)
  <2>2. QED
    BY <2>1, ZenonT(30) DEF Newest
<1>2. PICK n \in Nat : n = Newest(S)
  BY <1>1, ZenonT(30)
<1>3. n >= k /\ n =< k /\ k \in Nat
  BY <1>1, <1>2, ZenonT(30)
<1>4. QED
  BY <1>2, <1>3, Successor, Ordered, ZenonT(30)

\* The floor a restart reads from the rows r of one peer's sessions.
FloorOf(r) ==
    LET saved == {k \in Sids : r[k] # 0}
    IN  IF saved = {} THEN 0 ELSE r[Newest(saved)]

\* The floor is read from the saved rows.
LEMMA FloorsRead ==
    /\ Floors = [p \in Peers |-> FloorOf(sendRow[p])]
    /\ Floors' = [p \in Peers |-> FloorOf(sendRow'[p])]
BY ZenonT(30) DEF Floors, FloorOf, SavedSend

\* The row of the newest saved session is the floor.
LEMMA FloorIs ==
    ASSUME NEW r, NEW k \in Sids, r[k] # 0, \A j \in Sids : r[j] # 0 => j =< k
    PROVE  FloorOf(r) = r[k]
<1> DEFINE saved == {j \in Sids : r[j] # 0}
<1>1. saved \subseteq Nat /\ k \in saved /\ \A j \in saved : j =< k
  BY WireAssumption DEF Sids
<1>2. FloorOf(r) = r[Newest(saved)]
  BY <1>1, ZenonT(30) DEF FloorOf
<1> HIDE DEF saved
<1>3. Newest(saved) = k
  BY <1>1, NewestIs, ZenonT(30)
<1>4. QED
  BY <1>2, <1>3, ZenonT(30)

\* With a session registered whose row is saved, the floor is that row.
LEMMA FloorOfSession ==
    ASSUME TypeInv, FloorsHold, NEW p \in Peers, sSession[p] # 0,
           sendRow[p][sSession[p]] # 0
    PROVE  Floors[p] = sendRow[p][sSession[p]]
<1>1. sSession[p] \in Sids
  BY OnceTypes, ZenonT(30)
<1>2. \A j \in Sids : sendRow[p][j] # 0 => j =< sSession[p]
  BY ZenonT(30) DEF FloorsHold
<1>3. QED
  BY <1>1, <1>2, FloorIs, FloorsRead, ZenonT(30)

\* A write that has been executed, or one that sets no row, leaves the rest.
LEMMA NowDrop ==
    ASSUME NEW ws \in Seq(Writes), ws # <<>>, NEW sess, NEW floors,
           QueueNow(ws, sess, floors)
    PROVE  QueueNow(Tail(ws), sess, floors)
<1>1. /\ Len(Tail(ws)) = Len(ws) - 1
      /\ \A i \in 1..Len(Tail(ws)) : Tail(ws)[i] = ws[i + 1]
      /\ \A i \in 1..Len(Tail(ws)) : i + 1 \in 1..Len(ws)
  OBVIOUS
<1>2. QED
  BY <1>1 DEF QueueNow

\* A write of the present session joins the queue.
LEMMA NowAdd ==
    ASSUME NEW ws \in Seq(Writes), NEW sess, NEW floors, NEW w,
           QueueNow(ws, sess, floors),
           \A p \in Peers : \A k \in Sids :
               Sets(w, p, k) => k = sess[p] /\ floors[p] =< w.val,
           Carries(w) => /\ w.pkt.sid = sess[w.pkt.peer]
                         /\ w.pkt.peer = To[w.pkt.msg]
    PROVE  QueueNow(Append(ws, w), sess, floors)
<1> DEFINE vs == Append(ws, w)
<1>1. \A i \in 1..Len(vs) : (i \in 1..Len(ws) /\ vs[i] = ws[i]) \/ vs[i] = w
  OBVIOUS
<1> HIDE DEF vs
<1>2. QueueNow(vs, sess, floors)
  BY <1>1, ZenonT(90) DEF QueueNow
<1>3. QED
  BY <1>2, ZenonT(30) DEF vs

\* The write at the head sets the row of the present session: the floor rises
\* to its value, and the values behind it are no lower.
LEMMA NowExecute ==
    ASSUME NEW ws \in Seq(Writes), ws # <<>>, NEW row, NEW ctr,
           QueueOK(ws, row, ctr), NEW sess, NEW floors,
           QueueNow(ws, sess, floors), NEW p \in Peers, NEW k \in Sids,
           Sets(Head(ws), p, k), NEW higher, higher[p] = Head(ws).val,
           \A q \in Peers : q # p => higher[q] = floors[q]
    PROVE  QueueNow(Tail(ws), sess, higher)
<1> DEFINE w == Head(ws)
           vs == Tail(ws)
<1>1. /\ w = ws[1] /\ 1 \in 1..Len(ws)
      /\ \A i \in 1..Len(vs) : vs[i] = ws[i + 1] /\ i + 1 \in 1..Len(ws) /\ 1 < i + 1
  OBVIOUS
<1> HIDE DEF w, vs
<1>2. k = sess[p]
  BY <1>1, ZenonT(30) DEF QueueNow, w
<1>3. ASSUME NEW i \in 1..Len(vs), NEW q \in Peers, NEW j \in Sids,
             Sets(vs[i], q, j)
      PROVE  j = sess[q] /\ higher[q] =< vs[i].val
  <2>1. j = sess[q] /\ floors[q] =< vs[i].val
    BY <1>1, <1>3, ZenonT(30) DEF QueueNow
  <2>2. CASE q = p
    <3>1. Sets(ws[i + 1], p, k) /\ Sets(ws[1], p, k)
      BY <1>1, <1>2, <1>3, <2>1, <2>2, ZenonT(30) DEF w
    <3>2. ws[1].val =< ws[i + 1].val
      BY <1>1, <3>1, ZenonT(30) DEF QueueOK
    <3>3. QED
      BY <1>1, <2>1, <2>2, <3>2, ZenonT(30) DEF w
  <2>3. CASE q # p
    BY <2>1, <2>3, ZenonT(30)
  <2>4. QED
    BY <2>2, <2>3, ZenonT(30)
<1>4. \A i \in 1..Len(vs) : Carries(vs[i]) =>
          /\ vs[i].pkt.sid = sess[vs[i].pkt.peer]
          /\ vs[i].pkt.peer = To[vs[i].pkt.msg]
  BY <1>1 DEF QueueNow
<1>5. QueueNow(vs, sess, higher)
  BY <1>3, <1>4, ZenonT(30) DEF QueueNow
<1>6. QED
  BY <1>5, ZenonT(30) DEF vs

\* A packet that waits for its writes is of the present session.
LEMMA WaitingNow ==
    ASSUME NEW ws \in Seq(Writes), NEW sess, NEW floors,
           QueueNow(ws, sess, floors), NEW d \in IssuedIn(ws, {})
    PROVE  d \in DataPackets /\ d.sid = sess[d.peer] /\ d.peer = To[d.msg]
<1>1. PICK i \in 1..Len(ws) : Carries(ws[i]) /\ d = ws[i].pkt
  BY ZenonT(30) DEF IssuedIn
<1>2. ws[i] \in Writes
  OBVIOUS
<1>3. d \in DataPackets
  BY <1>1, <1>2, WriteParts, ZenonT(30) DEF Carries
<1>4. QED
  BY <1>1, <1>3, ZenonT(30) DEF QueueNow

\* A step that names nothing new keeps the names.
LEMMA NamesKept ==
    ASSUME NamesHold,
           \A p \in Peers : \A n \in Nat : \A m \in Msgs :
               Named(p, n, m)' => Named(p, n, m) /\ n < Counter(p)'
    PROVE  NamesHold'
<1>1. ASSUME NEW p \in Peers, NEW n \in Nat, NEW m \in Msgs, Named(p, n, m)',
             NEW l \in Msgs, Named(p, n, l)'
      PROVE  l = m
  BY <1>1, ZenonT(30) DEF NamesHold
<1>2. QED
  BY <1>1, ZenonT(30) DEF NamesHold

\* New packets are of the present session, where a number names one message.
LEMMA OnceKept ==
    ASSUME TypeInv', NumbersOnce, NamesHold',
           \A d \in DataSent' : d \in DataSent \/ d.sid = sSession'[d.peer]
    PROVE  NumbersOnce'
<1>1. SUFFICES ASSUME NEW d \in DataSent', NEW e \in DataSent',
                      d.peer = e.peer, d.sid = e.sid, d.seq = e.seq
               PROVE  d.msg = e.msg
  BY ZenonT(30) DEF NumbersOnce
<1>2. CASE d \in DataSent /\ e \in DataSent
  BY <1>1, <1>2, ZenonT(30) DEF NumbersOnce
<1>3. CASE d.sid = sSession'[d.peer]
  <2>1. /\ d.peer \in Peers /\ d.seq \in Nat /\ d.msg \in Msgs
        /\ e.msg \in Msgs
    BY ZenonT(30) DEF TypeInv, TypeOK, DataSent, Packets, DataPackets
  <2>2. Named(d.peer, d.seq, d.msg)' /\ Named(d.peer, d.seq, e.msg)'
    BY <1>1, <1>3, ZenonT(30) DEF Named
  <2>3. QED
    BY <2>1, <2>2, ZenonT(30) DEF NamesHold
<1>4. CASE e.sid = sSession'[e.peer]
  BY <1>1, <1>3, <1>4, ZenonT(30)
<1>5. QED
  BY <1>2, <1>3, <1>4, ZenonT(30)

\* Steps that draw no number and change no floor.
LEMMA OnceQuiet ==
    ASSUME TypeInv, TypeInv', SendInv, OnceInv,
           UNCHANGED <<sSession, sendSeq, sendFloor, sendRow>>,
           budget'["sendDrop"] = 0,
           \A p \in Peers :
               offer'[p].to = "sender" => nextSid'[p] = offer'[p].sid + 1,
           \A p \in Peers : \A k \in Sids : SendFresh(p, k)' => SendFresh(p, k),
           IssuedIn(writes', {}) \subseteq IssuedIn(writes, {}),
           QueueNow(writes', sSession, Floors),
           \A m \in Msgs : inserting'[m] \in {0, sSession[To[m]]},
           \A p \in Peers : \A k \in Sids :
               flush'[p][k].stage = "flushing" => flush'[p][k].sid = sSession[p],
           \A d \in DataSent' : d \in DataSent \/
               /\ d.sid = sSession[d.peer] /\ d.peer = To[d.msg]
               /\ Named(d.peer, d.seq, d.msg),
           \A m \in Msgs : queue'[m].seq \in {0, queue[m].seq},
           \A m \in Msgs : \/ queueRow'[m].seq \in {0, queueRow[m].seq}
                           \/ /\ queueRow'[m].seq < Floors[To[m]]
                              /\ Named(To[m], queueRow'[m].seq, m)
    PROVE  OnceInv'
<1>1. /\ Floors' = Floors /\ \A p \in Peers : Counter(p)' = Counter(p)
  BY FloorsRead, ZenonT(30) DEF Counter
<1>2. ASSUME NEW p \in Peers, NEW n \in Nat, NEW m \in Msgs, Named(p, n, m)'
      PROVE  Named(p, n, m)
  <2>1. CASE \E d \in DataSent' : /\ d.peer = p /\ d.sid = sSession'[p]
                                  /\ d.seq = n /\ d.msg = m
    <3>1. PICK d \in DataSent' : /\ d.peer = p /\ d.sid = sSession'[p]
                                 /\ d.seq = n /\ d.msg = m
      BY <2>1, ZenonT(30)
    <3>2. CASE d \in DataSent
      BY <3>1, <3>2, ZenonT(30) DEF Named
    <3>3. CASE Named(d.peer, d.seq, d.msg)
      BY <3>1, <3>3, ZenonT(30)
    <3>4. QED
      BY <3>1, <3>2, <3>3, ZenonT(30)
  <2>2. CASE \E d \in IssuedIn(writes', {}) : d.peer = p /\ d.seq = n /\ d.msg = m
    BY <2>2, ZenonT(30) DEF Named
  <2>3. CASE To[m] = p /\ n # 0 /\ (queue'[m].seq = n \/ queueRow'[m].seq = n)
    BY <2>3, ZenonT(30) DEF Named
  <2>4. QED
    BY <1>2, <2>1, <2>2, <2>3, ZenonT(30) DEF Named
<1>3. NamesHold'
  <2>1. ASSUME NEW p \in Peers, NEW n \in Nat, NEW m \in Msgs, Named(p, n, m)'
        PROVE  Named(p, n, m) /\ n < Counter(p)'
    <3>1. Named(p, n, m)
      BY <1>2, <2>1, ZenonT(30)
    <3>2. n < Counter(p)
      BY <3>1, ZenonT(30) DEF OnceInv, NamesHold
    <3>3. QED
      BY <1>1, <3>1, <3>2, ZenonT(30)
  <2>2. QED
    BY <2>1, NamesKept, ZenonT(30) DEF OnceInv
<1>4. NumbersOnce'
  BY <1>3, OnceKept, ZenonT(30) DEF OnceInv
<1>5. FloorsHold'
  <2>1. ASSUME NEW m \in Msgs
        PROVE  queueRow'[m].seq = 0 \/ queueRow'[m].seq < Floors[To[m]]
    BY ZenonT(30) DEF OnceInv, FloorsHold
  <2>2. QED
    BY <1>1, <2>1, ZenonT(30) DEF OnceInv, FloorsHold
<1>6. ASSUME NEW d \in DataSent' PROVE ~SendFresh(d.peer, d.sid)' /\ d.peer = To[d.msg]
  <2>1. d.peer \in Peers /\ d.sid \in Sids
    BY ZenonT(30) DEF TypeInv, TypeOK, DataSent, Packets, DataPackets
  <2>2. ~SendFresh(d.peer, d.sid) /\ d.peer = To[d.msg]
    <3>1. CASE d \in DataSent
      BY <3>1, ZenonT(30) DEF OnceInv, OneSession
    <3>2. CASE d.sid = sSession[d.peer] /\ d.peer = To[d.msg]
      BY <2>1, <3>2, OnceTypes, ZenonT(30) DEF SendInv, InUse
    <3>3. QED
      BY <3>1, <3>2, ZenonT(30)
  <2>3. QED
    BY <2>1, <2>2, ZenonT(30)
<1>7. OneSession'
  BY <1>1, <1>6, ZenonT(30) DEF OneSession, SendFresh
<1>8. QED
  BY <1>3, <1>4, <1>5, <1>7, ZenonT(30) DEF OnceInv

\* build_data_packet names the next number of the present session.
LEMMA OnceBuild ==
    ASSUME TypeInv, TypeInv', SendInv, OnceInv, NEW m \in Msgs, NEW e \in Entries,
           NEW k \in Sids, k = sSession[To[m]], NEW task, NEW flow,
           NEW ws \in Seq(Writes), BuildAndPersist(m, e, k, task, flow, ws),
           IssuedIn(ws, {}) \subseteq IssuedIn(writes, {}),
           QueueNow(ws, sSession, Floors),
           UNCHANGED <<sSession, sendFloor, sendRow, net, nextSid, offer, budget>>,
           \A n \in Msgs : inserting'[n] \in {0, sSession[To[n]]},
           \A p \in Peers : \A j \in Sids :
               flush'[p][j].stage = "flushing" => flush'[p][j].sid = sSession[p],
           \A n \in Msgs : queueRow'[n].seq \in {0, queueRow[n].seq}
    PROVE  OnceInv'
<1> DEFINE p == To[m]
           seq == sendSeq[p][k]
           d == DataPacket(p, k, seq, m, "queue")
           w == SendSeqWrite(d, seq + 1)
<1>0. /\ sendSeq \in Counters /\ p \in Peers /\ seq \in Nat /\ k # 0
      /\ \A n \in Msgs : To[n] \in Peers
  BY OnceTypes, CounterTyped, ZenonT(30)
<1>1. /\ sendSeq' = [sendSeq EXCEPT ![p][k] = seq + 1]
      /\ writes' = Append(ws, w)
      /\ queue' = [queue EXCEPT ![m] = [e EXCEPT !.status = "pending",
                                                 !.seq = seq, !.timed = TRUE]]
  BY ZenonT(30) DEF BuildAndPersist, NextSequence
<1>2. /\ queue'[m].seq = seq /\ \A n \in Msgs : n # m => queue'[n] = queue[n]
  BY <1>1, ZenonT(30) DEF Entries, TypeInv, TypeOK, SenderTypeOK
<1>3. /\ Counter(p) = seq /\ Counter(p)' = seq + 1
      /\ \A q \in Peers : q # p => Counter(q)' = Counter(q)
  BY <1>0, <1>1, ZenonT(30) DEF Counter, Counters
<1>4. Floors' = Floors
  BY FloorsRead, ZenonT(30)
<1>5. IssuedIn(writes', {}) \subseteq IssuedIn(writes, {}) \cup {d}
  <2>1. Carries(w) /\ w.pkt = d
    BY ZenonT(30) DEF Carries, SendSeqWrite
  <2>2. IssuedIn(Append(ws, w), {}) \subseteq IssuedIn(ws, {}) \cup {d}
    BY <2>1, IssuedAppend, ZenonT(30)
  <2>3. QED
    BY <1>1, <2>2, ZenonT(30)
<1>6. d.peer = p /\ d.sid = k /\ d.seq = seq /\ d.msg = m
  BY ZenonT(30) DEF DataPacket
<1>7. QueueNow(writes', sSession, Floors)
  <2>1. \A q \in Peers : \A j \in Sids :
            Sets(w, q, j) => j = sSession[q] /\ Floors[q] =< w.val
    <3>1. ASSUME NEW q \in Peers, NEW j \in Sids, Sets(w, q, j)
          PROVE  q = p /\ j = k /\ w.val = seq + 1
      BY <3>1, ZenonT(30) DEF Sets, SendSeqWrite, DataPacket
    <3>2. Floors[p] =< seq /\ Floors[p] \in Nat
      BY <1>0, <1>3, OnceTypes, ZenonT(30) DEF OnceInv, FloorsHold
    <3> HIDE DEF w, seq, p
    <3>3. Floors[p] =< seq + 1
      BY <1>0, <3>2, Successor, Ordered, ZenonT(30)
    <3>4. QED
      BY <3>1, <3>3, ZenonT(30) DEF p
  <2>2. w.pkt.sid = sSession[w.pkt.peer] /\ w.pkt.peer = To[w.pkt.msg]
    BY <1>6, ZenonT(30) DEF SendSeqWrite
  <2> HIDE DEF w
  <2>3. QED
    BY <1>1, <2>1, <2>2, NowAdd, ZenonT(30)
<1> HIDE DEF d, w, seq
<1>8. ASSUME NEW q \in Peers, NEW n \in Nat, NEW x \in Msgs, Named(q, n, x)'
      PROVE  Named(q, n, x) \/ (q = p /\ n = seq /\ x = m)
  <2>1. CASE \E y \in DataSent' : /\ y.peer = q /\ y.sid = sSession'[q]
                                  /\ y.seq = n /\ y.msg = x
    BY <2>1, ZenonT(30) DEF Named, DataSent
  <2>2. CASE \E y \in IssuedIn(writes', {}) : y.peer = q /\ y.seq = n /\ y.msg = x
    BY <1>5, <1>6, <2>2, ZenonT(30) DEF Named
  <2>3. CASE To[x] = q /\ n # 0 /\ (queue'[x].seq = n \/ queueRow'[x].seq = n)
    BY <1>2, <2>3, ZenonT(30) DEF Named
  <2>4. QED
    BY <1>8, <2>1, <2>2, <2>3, ZenonT(30) DEF Named
<1>9. NamesHold'
  <2>1. ASSUME NEW q \in Peers, NEW n \in Nat, NEW x \in Msgs, Named(q, n, x)
        PROVE  n < Counter(q) /\ n < Counter(q)' /\ ~(q = p /\ n = seq)
    <3>1. n < Counter(q) /\ Counter(q) \in Nat
      BY <2>1, OnceTypes, ZenonT(30) DEF OnceInv, NamesHold
    <3>2. QED
      BY <1>0, <1>3, <3>1
  <2>2. ASSUME NEW q \in Peers, NEW n \in Nat, NEW x \in Msgs, Named(q, n, x)'
        PROVE  n < Counter(q)'
    <3>1. CASE Named(q, n, x)
      BY <2>1, <3>1, ZenonT(30)
    <3>2. CASE q = p /\ n = seq
      <4>1. Counter(q)' = seq + 1
        BY <1>3, <3>2, ZenonT(30)
      <4>2. seq < seq + 1
        BY <1>0, Successor, ZenonT(30)
      <4>3. QED
        BY <3>2, <4>1, <4>2, ZenonT(30)
    <3>3. QED
      BY <1>8, <2>2, <3>1, <3>2, ZenonT(30)
  <2>3. ASSUME NEW q \in Peers, NEW n \in Nat, NEW x \in Msgs, Named(q, n, x)',
               NEW l \in Msgs, Named(q, n, l)'
        PROVE  l = x
    <3>1. CASE q = p /\ n = seq
      BY <1>8, <2>1, <2>3, <3>1
    <3>2. CASE ~(q = p /\ n = seq)
      <4>1. Named(q, n, x) /\ Named(q, n, l)
        BY <1>8, <2>3, <3>2, ZenonT(30)
      <4>2. QED
        BY <4>1, ZenonT(30) DEF OnceInv, NamesHold
    <3>3. QED
      BY <3>1, <3>2, ZenonT(30)
  <2>4. QED
    BY <2>2, <2>3, ZenonT(30) DEF NamesHold
<1>10. NumbersOnce'
  BY ZenonT(30) DEF OnceInv, NumbersOnce, DataSent
<1>11. FloorsHold'
  <2>1. ASSUME NEW q \in Peers PROVE Floors[q] =< Counter(q)'
    <3>1. Floors[q] =< Counter(q) /\ Floors[q] \in Nat /\ Counter(q) \in Nat
      BY OnceTypes, ZenonT(30) DEF OnceInv, FloorsHold
    <3>2. QED
      BY <1>0, <1>3, <3>1
  <2>2. \A n \in Msgs : queueRow'[n].seq = 0 \/ queueRow'[n].seq < Floors[To[n]]
    BY ZenonT(30) DEF OnceInv, FloorsHold
  <2>3. QED
    BY <1>4, <2>1, <2>2, ZenonT(30) DEF OnceInv, FloorsHold
<1>12. OneSession'
  BY <1>4, <1>7, ZenonT(30) DEF OnceInv, OneSession, SendFresh, DataSent
<1>13. QED
  BY <1>9, <1>10, <1>11, <1>12, ZenonT(30) DEF OnceInv

\* A row of the present session is saved: the floor rises to it.
LEMMA OnceExecute ==
    ASSUME TypeInv, TypeInv', SendInv, OnceInv, writes # <<>>,
           NEW p \in Peers, NEW k \in Sids, Sets(Head(writes), p, k),
           NEW v \in Nat, v = Head(writes).val,
           sendRow' = [sendRow EXCEPT ![p][k] = v],
           UNCHANGED <<queue, sSession, sendSeq, sendFloor, inserting, queueRow,
                       net, nextSid, offer, budget>>,
           \A q \in Peers : \A j \in Sids :
               flush'[q][j].stage = "flushing" => flush'[q][j].sid = sSession[q],
           \/ writes' = Tail(writes)
           \/ /\ Carries(Head(writes))
              /\ writes' = Append(Tail(writes), MsgSeqWrite(Head(writes).pkt))
    PROVE  OnceInv'
<1>1. /\ writes \in Seq(Writes) /\ Head(writes) = writes[1] /\ 1 \in 1..Len(writes)
      /\ Tail(writes) \in Seq(Writes) /\ sendRow \in Counters
      /\ QueueOK(writes, sendRow, sendSeq) /\ QueueNow(writes, sSession, Floors)
  BY OnceTypes, HeadAndTail, ZenonT(30)
  DEF SendInv, NumbersOK, OnceInv, OneSession
<1>2. k = sSession[p] /\ Floors[p] =< v
  BY <1>1, ZenonT(30) DEF QueueNow
<1>3. 1 =< v /\ v =< Counter(p)
  <2>1. 1 =< v /\ v =< sendSeq[p][k]
    BY <1>1, ZenonT(30) DEF QueueOK
  <2>2. sSession[p] # 0
    BY <1>2, OnceTypes, ZenonT(30)
  <2>3. QED
    BY <1>2, <2>1, <2>2, ZenonT(30) DEF Counter
<1>4. /\ sendRow'[p][k] = v
      /\ \A q \in Peers : \A j \in Sids :
            q # p \/ j # k => sendRow'[q][j] = sendRow[q][j]
  BY <1>1, ZenonT(30) DEF Counters
<1>5. Floors'[p] = v
  <2>1. \A j \in Sids : sendRow'[p][j] # 0 => j =< k
    <3>1. ASSUME NEW j \in Sids, sendRow'[p][j] # 0 PROVE j =< k
      <4>1. CASE j = k
        BY <4>1, OnceTypes, Successor, Ordered, ZenonT(30)
      <4>2. CASE j # k
        BY <1>2, <1>4, <3>1, <4>2, OnceTypes, ZenonT(30)
        DEF OnceInv, FloorsHold
      <4>3. QED
        BY <4>1, <4>2, ZenonT(30)
    <3>2. QED
      BY <3>1, ZenonT(30)
  <2>2. sendRow'[p][k] # 0
    <3>1. v # 0
      BY <1>3
    <3>2. QED
      BY <1>4, <3>1, ZenonT(30)
  <2>3. FloorOf(sendRow'[p]) = v
    BY <1>4, <2>1, <2>2, FloorIs, ZenonT(30)
  <2>4. QED
    BY <2>3, FloorsRead, ZenonT(30)
<1>6. \A q \in Peers : q # p => Floors'[q] = Floors[q]
  <2>1. \A q \in Peers : q # p => sendRow'[q] = sendRow[q]
    BY <1>1, ZenonT(30) DEF Counters
  <2>2. QED
    BY <2>1, FloorsRead
<1>7. \A q \in Peers : Counter(q)' = Counter(q)
  BY ZenonT(30) DEF Counter
<1>8. QueueNow(Tail(writes), sSession, Floors')
  BY <1>1, <1>5, <1>6, NowExecute, ZenonT(30)
<1>9. /\ QueueNow(writes', sSession, Floors')
      /\ IssuedIn(writes', {}) \subseteq IssuedIn(writes, {})
  <2>1. IssuedIn(Tail(writes), {}) \subseteq IssuedIn(writes, {})
    BY <1>1, IssuedTail, ZenonT(30)
  <2>2. CASE writes' = Tail(writes)
    BY <1>8, <2>1, <2>2, ZenonT(30)
  <2>3. CASE /\ Carries(Head(writes))
             /\ writes' = Append(Tail(writes), MsgSeqWrite(Head(writes).pkt))
    <3> DEFINE d == Head(writes).pkt
               x == MsgSeqWrite(d)
    <3>1. d \in IssuedIn(writes, {})
      BY <1>1, <2>3, HeadCarried, ZenonT(30)
    <3>2. d.sid = sSession[d.peer] /\ d.peer = To[d.msg]
      BY <1>1, <3>1, WaitingNow, ZenonT(90)
    <3>3. x.pkt = d /\ Carries(x) /\ \A q \in Peers, j \in Sids : ~Sets(x, q, j)
      BY ZenonT(30) DEF MsgSeqWrite, Carries, Sets
    <3>4. writes' = Append(Tail(writes), x)
      BY <2>3, ZenonT(30)
    <3> HIDE DEF d, x
    <3>5. QueueNow(writes', sSession, Floors')
      BY <1>1, <1>8, <3>2, <3>3, <3>4, NowAdd, ZenonT(30)
    <3>6. IssuedIn(writes', {}) \subseteq IssuedIn(Tail(writes), {}) \cup {d}
      BY <1>1, <3>3, <3>4, IssuedAppend, ZenonT(30)
    <3>7. QED
      BY <2>1, <3>1, <3>5, <3>6, ZenonT(30)
  <2>4. QED
    BY <2>2, <2>3, ZenonT(30)
<1>10. NamesHold'
  <2>1. ASSUME NEW q \in Peers, NEW n \in Nat, NEW m \in Msgs, Named(q, n, m)'
        PROVE  Named(q, n, m)
    BY <1>9, <2>1, ZenonT(30) DEF Named, DataSent
  <2>2. ASSUME NEW q \in Peers, NEW n \in Nat, NEW m \in Msgs, Named(q, n, m)'
        PROVE  Named(q, n, m) /\ n < Counter(q)'
    BY <1>7, <2>1, <2>2 DEF OnceInv, NamesHold
  <2>3. QED
    BY <2>2, NamesKept, ZenonT(30) DEF OnceInv
<1>11. NumbersOnce'
  BY ZenonT(30) DEF OnceInv, NumbersOnce, DataSent
<1>12. ASSUME NEW q \in Peers
       PROVE  Floors[q] =< Floors'[q] /\ Floors'[q] =< Counter(q) /\ Floors'[q] \in Nat
  <2>1. CASE q = p
    BY <1>2, <1>3, <1>5, <2>1, ZenonT(30)
  <2>2. CASE q # p
    BY <1>6, <2>2, OnceTypes, Successor, Ordered, ZenonT(30)
    DEF OnceInv, FloorsHold
  <2>3. QED
    BY <2>1, <2>2, ZenonT(30)
<1>13. FloorsHold'
  <2>1. ASSUME NEW q \in Peers, NEW j \in Sids, sendRow'[q][j] # 0, sSession[q] # 0
        PROVE  j =< sSession[q]
    <3>1. CASE q = p /\ j = k
      BY <1>2, <3>1, OnceTypes, Successor, Ordered, ZenonT(30)
    <3>2. CASE q # p \/ j # k
      BY <1>4, <2>1, <3>2, ZenonT(30) DEF OnceInv, FloorsHold
    <3>3. QED
      BY <3>1, <3>2, ZenonT(30)
  <2>2. ASSUME NEW q \in Peers, sSession[q] = 0
        PROVE  sendFloor[q] = Floors'[q]
    <3>1. q # p
      BY <1>2, <2>2, OnceTypes, ZenonT(30)
    <3>2. QED
      BY <1>6, <2>2, <3>1, ZenonT(30) DEF OnceInv, FloorsHold
  <2>3. ASSUME NEW m \in Msgs
        PROVE  queueRow[m].seq = 0 \/ queueRow[m].seq < Floors'[To[m]]
    <3>1. To[m] \in Peers /\ queueRow[m].seq \in Nat /\ Floors[To[m]] \in Nat
      BY OnceTypes, ZenonT(30)
    <3>2. queueRow[m].seq = 0 \/ queueRow[m].seq < Floors[To[m]]
      BY ZenonT(30) DEF OnceInv, FloorsHold
    <3>3. QED
      <4>1. Floors'[To[m]] \in Nat /\ Floors[To[m]] =< Floors'[To[m]]
        BY <1>12, <3>1, ZenonT(30)
      <4>2. QED
        BY <3>1, <3>2, <4>1, BelowLarger, ZenonT(30)
  <2>4. QED
    BY <1>7, <1>12, <2>1, <2>2, <2>3, ZenonT(30) DEF FloorsHold
<1>14. OneSession'
  BY <1>9, ZenonT(30) DEF OnceInv, OneSession, SendFresh, DataSent
<1>15. QED
  BY <1>10, <1>11, <1>13, <1>14, ZenonT(30) DEF OnceInv

\* A handshake registers a session newer than every row saved, and starts it
\* at the floor, above every number the restored queue names.
LEMMA OnceRegister ==
    ASSUME TypeInv, TypeInv', SendInv, OnceInv, NEW p \in Peers, NEW k \in Sids,
           sSession[p] = 0, RegisterSend(p, k), SendFresh(p, k),
           nextSid[p] =< k + 1, UNCHANGED budget,
           \A q \in Peers : \A j \in Sids : SendFresh(q, j)' => SendFresh(q, j),
           \A q \in Peers :
               offer'[q].to = "sender" => nextSid'[q] = offer'[q].sid + 1
    PROVE  OnceInv'
<1> DEFINE first == Larger(1, sendFloor[p])
           w == RowWrite(p, k, first)
<1>1. /\ sendSeq \in Counters /\ sendRow \in Counters /\ writes \in Seq(Writes)
      /\ first \in Nat /\ first = Counter(p) /\ k # 0 /\ k \in Nat
      /\ sSession \in [Peers -> 0..MaxSid] /\ nextSid[p] \in Nat
      /\ QueueNow(writes, sSession, Floors)
  <2>1. first \in Nat /\ first = Counter(p)
    BY OnceTypes, ZenonT(30) DEF Counter
  <2>2. sSession \in [Peers -> 0..MaxSid] /\ nextSid[p] \in Nat
    <3>1. /\ sSession \in [Peers -> 0..MaxSid]
          /\ nextSid \in [Peers -> 1..MaxSid + 1]
      BY ZenonT(30) DEF TypeInv, TypeOK, SenderTypeOK
    <3>2. 1..MaxSid + 1 \subseteq Nat
      BY WireAssumption
    <3>3. QED
      BY <3>1, <3>2, ZenonT(30)
  <2>3. QueueNow(writes, sSession, Floors)
    BY ZenonT(30) DEF OnceInv, OneSession
  <2>4. QED
    BY <2>1, <2>2, <2>3, OnceTypes, ZenonT(30)
<1>2. /\ sendSeq' = [sendSeq EXCEPT ![p][k] = first]
      /\ sendFloor' = [sendFloor EXCEPT ![p] = 0]
      /\ sSession' = [sSession EXCEPT ![p] = k]
      /\ flush' = [flush EXCEPT ![p][k].stage = "saving"]
      /\ writes' = Append(writes, w)
      /\ UNCHANGED <<queue, inserting, sendRow, queueRow, net>>
  BY ZenonT(30) DEF RegisterSend
<1> HIDE DEF first
<1>3. /\ sSession'[p] = k /\ \A q \in Peers : q # p => sSession'[q] = sSession[q]
  BY <1>1, <1>2, ZenonT(30)
<1>4. /\ Floors' = Floors /\ \A q \in Peers : Counter(q)' = Counter(q)
  <2>1. Floors' = Floors
    BY <1>2, FloorsRead, ZenonT(30)
  <2>2. Counter(p)' = first
    BY <1>1, <1>2, <1>3, ZenonT(30) DEF Counter, Counters
  <2>3. ASSUME NEW q \in Peers, q # p PROVE Counter(q)' = Counter(q)
    <3>1. sendFloor'[q] = sendFloor[q] /\ sendSeq'[q] = sendSeq[q]
      BY <1>1, <1>2, <2>3, ZenonT(30)
      DEF Counters, TypeInv, TypeOK, SenderTypeOK
    <3>2. QED
      BY <1>3, <2>3, <3>1, ZenonT(30) DEF Counter
  <2>4. QED
    BY <1>1, <2>1, <2>2, <2>3, ZenonT(30)
<1>5. QueueNow(writes, sSession', Floors)
  <2>1. ASSUME NEW i \in 1..Len(writes), NEW q \in Peers, NEW j \in Sids,
               Sets(writes[i], q, j)
        PROVE  j = sSession'[q] /\ Floors[q] =< writes[i].val
    <3>1. j = sSession[q] /\ Floors[q] =< writes[i].val
      BY <1>1, <2>1, ZenonT(30) DEF QueueNow
    <3>2. q # p
      BY <3>1, OnceTypes, ZenonT(30)
    <3>3. QED
      BY <1>3, <3>1, <3>2, ZenonT(30)
  <2>2. ASSUME NEW i \in 1..Len(writes), Carries(writes[i])
        PROVE  /\ writes[i].pkt.sid = sSession'[writes[i].pkt.peer]
               /\ writes[i].pkt.peer = To[writes[i].pkt.msg]
    <3> DEFINE d == writes[i].pkt
    <3>1. d \in DataPackets
      BY <1>1, <2>2, ElementTyped, WriteParts, ZenonT(30) DEF Carries
    <3>2. d.sid = sSession[d.peer] /\ d.peer = To[d.msg]
      BY <1>1, <2>2, ZenonT(30) DEF QueueNow
    <3>3. d.peer \in Peers /\ d.sid # 0
      BY <3>1, OnceTypes, ZenonT(30) DEF DataPackets
    <3>4. QED
      BY <1>3, <3>2, <3>3, ZenonT(30)
  <2>3. QED
    BY <2>1, <2>2, ZenonT(30) DEF QueueNow
<1>6. QueueNow(writes', sSession', Floors')
  <2>1. ASSUME NEW q \in Peers, NEW j \in Sids, Sets(w, q, j)
        PROVE  j = sSession'[q] /\ Floors[q] =< w.val
    <3>1. q = p /\ j = k /\ w.val = first
      BY <2>1, ZenonT(30) DEF Sets, RowWrite
    <3>2. Floors[p] =< first
      BY <1>1, ZenonT(30) DEF OnceInv, FloorsHold
    <3>3. QED
      BY <1>3, <3>1, <3>2, ZenonT(30)
  <2>2. ~Carries(w)
    BY ZenonT(30) DEF Carries, RowWrite
  <2> HIDE DEF w
  <2>3. QED
    BY <1>1, <1>2, <1>4, <1>5, <2>1, <2>2, NowAdd, ZenonT(30)
<1>7. IssuedIn(writes', {}) \subseteq IssuedIn(writes, {})
  <2>1. ~Carries(w)
    BY ZenonT(30) DEF Carries, RowWrite
  <2> HIDE DEF w
  <2>2. QED
    BY <1>1, <1>2, <2>1, IssuedAppend, ZenonT(30)
<1>8. \A d \in DataSent : ~SendFresh(d.peer, d.sid) /\ d.peer = To[d.msg]
  BY ZenonT(30) DEF OnceInv, OneSession
<1>9. NamesHold'
  <2>1. ASSUME NEW q \in Peers, NEW n \in Nat, NEW m \in Msgs, Named(q, n, m)'
        PROVE  Named(q, n, m)
    <3>1. ASSUME NEW d \in DataSent, d.peer = q, d.sid = sSession'[q], d.seq = n,
                 d.msg = m
          PROVE  Named(q, n, m)
      <4>1. q # p
        BY <1>3, <1>8, <3>1, ZenonT(30)
      <4>2. QED
        BY <1>3, <3>1, <4>1, ZenonT(30) DEF Named
    <3>2. DataSent' = DataSent
      BY <1>2, ZenonT(30) DEF DataSent
    <3>3. CASE \E d \in IssuedIn(writes', {}) : d.peer = q /\ d.seq = n /\ d.msg = m
      BY <1>7, <3>3, ZenonT(30) DEF Named
    <3>4. CASE To[m] = q /\ n # 0 /\ (queue'[m].seq = n \/ queueRow'[m].seq = n)
      BY <1>2, <3>4, ZenonT(30) DEF Named
    <3>5. QED
      BY <2>1, <3>1, <3>2, <3>3, <3>4, ZenonT(30) DEF Named
  <2>2. ASSUME NEW q \in Peers, NEW n \in Nat, NEW m \in Msgs, Named(q, n, m)'
        PROVE  Named(q, n, m) /\ n < Counter(q)'
    <3>1. Named(q, n, m)
      BY <2>1, <2>2, ZenonT(30)
    <3>2. n < Counter(q)
      BY <3>1, ZenonT(30) DEF OnceInv, NamesHold
    <3>3. QED
      BY <1>4, <3>1, <3>2, ZenonT(30)
  <2>3. QED
    BY <2>2, NamesKept, ZenonT(30) DEF OnceInv
<1>10. NumbersOnce'
  BY <1>2, ZenonT(30) DEF OnceInv, NumbersOnce, DataSent
<1>11. ASSUME NEW j \in Sids, sendRow[p][j] # 0 PROVE j =< k
  <2>1. sendRow[p][j] =< sendSeq[p][j] /\ sendRow[p][j] \in Nat
    BY <1>1, ZenonT(30) DEF Counters, SendInv, NumbersOK, RowsBehind
  <2>2. sendSeq[p][j] # 0
    BY <1>11, <2>1
  <2>3. ~SendFresh(p, j)
    BY <2>2, ZenonT(30) DEF SendInv, FreshUnused
  <2>4. j < nextSid[p] /\ j \in Nat
    BY <1>1, <2>3, OnceTypes, Successor, Ordered, ZenonT(30) DEF SendFresh
  <2>5. QED
    BY <1>1, <2>4, Successor, Ordered, ZenonT(30)
<1>12. FloorsHold'
  <2>1. ASSUME NEW q \in Peers, NEW j \in Sids, sendRow'[q][j] # 0, sSession'[q] # 0
        PROVE  j =< sSession'[q]
    <3>1. CASE q = p
      BY <1>2, <1>3, <1>11, <2>1, <3>1, ZenonT(30)
    <3>2. CASE q # p
      BY <1>2, <1>3, <2>1, <3>2, ZenonT(30) DEF OnceInv, FloorsHold
    <3>3. QED
      BY <3>1, <3>2, ZenonT(30)
  <2>2. ASSUME NEW q \in Peers, sSession'[q] = 0 PROVE sendFloor'[q] = Floors'[q]
    <3>1. q # p
      BY <1>1, <1>3, <2>2, ZenonT(30)
    <3>2. sendFloor'[q] = sendFloor[q] /\ sSession[q] = 0
      BY <1>2, <1>3, <2>2, <3>1, ZenonT(30) DEF TypeInv, TypeOK, SenderTypeOK
    <3>3. QED
      BY <1>4, <3>2, ZenonT(30) DEF OnceInv, FloorsHold
  <2>3. QED
    BY <1>2, <1>4, <2>1, <2>2, ZenonT(30) DEF OnceInv, FloorsHold
<1>13. ASSUME NEW m \in Msgs PROVE inserting'[m] \in {0, sSession'[To[m]]}
  <2>1. inserting[m] \in {0, sSession[To[m]]} /\ To[m] \in Peers
    BY OnceTypes, ZenonT(30) DEF OnceInv, OneSession
  <2>2. QED
    BY <1>2, <1>3, <2>1, ZenonT(30)
<1>14. ASSUME NEW q \in Peers, NEW j \in Sids, flush'[q][j].stage = "flushing"
       PROVE  flush'[q][j].sid = sSession'[q]
  <2>0. /\ flush' = [flush EXCEPT ![p][k].stage = "saving"]
        /\ flush \in [Peers -> [Sids -> Flushes]]
    BY <1>2, ZenonT(30) DEF SenderTypeOK, TypeInv, TypeOK
  <2>1. flush'[p][k].stage = "saving"
    <3>1. flush'[p][k] = [flush[p][k] EXCEPT !.stage = "saving"]
      BY <2>0, ZenonT(30)
    <3>2. flush[p][k] \in Flushes
      BY <2>0, ZenonT(30)
    <3>3. QED
      BY <3>1, <3>2, ZenonT(30) DEF Flushes
  <2>2. q # p \/ j # k
    BY <1>14, <2>1, ZenonT(30)
  <2>3. flush'[q][j] = flush[q][j]
    BY <2>0, <2>2, ZenonT(30)
  <2>4. flush[q][j].sid = sSession[q] /\ flush[q][j].sid # 0
    <3>1. flush[q][j].stage = "flushing"
      BY <1>14, <2>3, ZenonT(30)
    <3>2. QED
      BY <3>1, ZenonT(30) DEF OnceInv, OneSession, TypeInv, SessionsNamed
  <2>5. q # p
    BY <2>4, ZenonT(30)
  <2>6. QED
    BY <1>3, <2>3, <2>4, <2>5, ZenonT(30)
<1>15. ASSUME NEW d \in DataSent' PROVE ~SendFresh(d.peer, d.sid)' /\ d.peer = To[d.msg]
  <2>1. d \in DataSent
    BY <1>2, ZenonT(30) DEF DataSent
  <2>2. d.peer \in Peers /\ d.sid \in Sids
    BY <2>1, ZenonT(30) DEF TypeInv, TypeOK, DataSent, Packets, DataPackets
  <2>3. QED
    BY <1>8, <2>1, <2>2, ZenonT(30)
<1>16. OneSession'
  BY <1>6, <1>13, <1>14, <1>15, ZenonT(30) DEF OneSession
<1>17. QED
  BY <1>9, <1>10, <1>12, <1>16, ZenonT(30) DEF OnceInv

\* A restart leaves the numbers the database has, all of them below the floors
\* it reads there.
LEMMA OnceRestart ==
    ASSUME TypeInv, TypeInv', SendInv, OnceInv, SenderCrashes
    PROVE  OnceInv'
<1>1. /\ queue' = [m \in Msgs |-> Restored(queueRow[m])]
      /\ sSession' = [p \in Peers |-> 0]
      /\ sendFloor' = [p \in Peers |-> SavedSend(p)]
      /\ inserting' = [m \in Msgs |-> 0]
      /\ flush' = [p \in Peers |-> [k \in Sids |-> NoFlush]]
      /\ writes' = <<>>
      /\ offer' = [p \in Peers |-> Forget(offer[p], "sender")]
      /\ budget' = [budget EXCEPT !["sendCrash"] = @ - 1]
      /\ UNCHANGED <<sendRow, queueRow, net, nextSid>>
  BY ZenonT(30) DEF SenderCrashes, RestartSender, Spend
<1>2. budget'["sendDrop"] = 0
  BY <1>1, ZenonT(30) DEF TypeInv, TypeOK, OnceInv, Faults
<1>3. /\ Floors' = Floors
      /\ \A p \in Peers : /\ sendFloor'[p] = Floors[p] /\ Floors[p] \in Nat
                          /\ Floors[p] =< Counter(p)'
  <2>1. Floors' = Floors
    BY <1>1, FloorsRead, ZenonT(30)
  <2>2. ASSUME NEW p \in Peers PROVE sendFloor'[p] = Floors[p] /\ Floors[p] \in Nat
    BY <1>1, OnceTypes, ZenonT(30)
  <2>3. ASSUME NEW p \in Peers PROVE Floors[p] =< Counter(p)'
    <3>1. Counter(p)' = Larger(1, Floors[p])
      BY <1>1, <2>2, ZenonT(30) DEF Counter
    <3>2. QED
      BY <2>2, <3>1 DEF Larger
  <2>4. QED
    BY <2>1, <2>2, <2>3, ZenonT(30)
<1>4. ASSUME NEW p \in Peers, NEW n \in Nat, NEW m \in Msgs, Named(p, n, m)'
      PROVE  Named(p, n, m) /\ n < Counter(p)'
  <2>1. ~\E d \in DataSent' : d.peer = p /\ d.sid = sSession'[p]
    <3>1. SUFFICES ASSUME NEW d \in DataSent', d.sid = 0 PROVE FALSE
      BY <1>1, ZenonT(30)
    <3>2. d.sid \in Sids
      BY ZenonT(30) DEF TypeInv, TypeOK, DataSent, Packets, DataPackets
    <3>3. QED
      BY <3>1, <3>2, OnceTypes, ZenonT(30)
  <2>2. IssuedIn(writes', {}) = {}
    BY <1>1 DEF IssuedIn
  <2>3. To[m] = p /\ n # 0 /\ (queue'[m].seq = n \/ queueRow'[m].seq = n)
    BY <1>4, <2>1, <2>2, ZenonT(30) DEF Named
  <2>4. queueRow[m].seq = n
    <3>1. queue'[m].seq \in {0, queueRow[m].seq}
      BY <1>1, ZenonT(30) DEF Restored, Absent
    <3>2. QED
      BY <1>1, <2>3, <3>1, ZenonT(30)
  <2>5. Named(p, n, m)
    BY <2>3, <2>4, ZenonT(30) DEF Named
  <2>6. n < Floors[p]
    BY <2>3, <2>4, ZenonT(30) DEF OnceInv, FloorsHold
  <2>7. Counter(p)' \in Nat
    <3>1. Counter(p)' = Larger(1, Floors[p])
      BY <1>1, <1>3, ZenonT(30) DEF Counter
    <3>2. QED
      BY <1>3, <3>1 DEF Larger
  <2>8. QED
    BY <1>3, <2>5, <2>6, <2>7, Successor, Ordered, ZenonT(30)
<1>5. NamesHold'
  BY <1>4, NamesKept, ZenonT(30) DEF OnceInv
<1>6. NumbersOnce'
  BY <1>1, ZenonT(30) DEF OnceInv, NumbersOnce, DataSent
<1>7. FloorsHold'
  BY <1>1, <1>3, ZenonT(30) DEF OnceInv, FloorsHold
<1>8. OneSession'
  <2>1. QueueNow(writes', sSession', Floors')
    <3>1. QueueNow(<<>>, sSession', Floors')
      BY DEF QueueNow
    <3>2. QED
      BY <1>1, <3>1, ZenonT(30)
  <2>2. \A p \in Peers : offer'[p].to # "sender" /\ offer'[p] \in {offer[p], NoOffer}
    BY <1>1, ZenonT(30) DEF Forget, NoOffer
  <2>3. ASSUME NEW d \in DataSent' PROVE ~SendFresh(d.peer, d.sid)' /\ d.peer = To[d.msg]
    <3>1. d \in DataSent /\ d.peer \in Peers
      BY <1>1, ZenonT(30) DEF DataSent, TypeInv, TypeOK, Packets, DataPackets
    <3>2. ~SendFresh(d.peer, d.sid) /\ d.peer = To[d.msg]
      BY <3>1, ZenonT(30) DEF OnceInv, OneSession
    <3>3. QED
      BY <1>1, <2>2, <3>1, <3>2, ZenonT(30) DEF SendFresh
  <2>4. QED
    BY <1>1, <2>1, <2>2, <2>3, ZenonT(30) DEF OneSession, NoFlush
<1>9. QED
  BY <1>2, <1>5, <1>6, <1>7, <1>8, ZenonT(30) DEF OnceInv

\* Steps that only drop the head of the queue or add a write of another kind.
LEMMA QuietQueue ==
    ASSUME TypeInv, OnceInv,
           \/ UNCHANGED writes
           \/ writes # <<>> /\ writes' = Tail(writes)
           \/ \E w \in Writes : /\ w.op \in {"insert", "status"}
                                /\ writes' = Append(writes, w)
    PROVE  /\ QueueNow(writes', sSession, Floors)
           /\ IssuedIn(writes', {}) \subseteq IssuedIn(writes, {})
<1>1. writes \in Seq(Writes) /\ QueueNow(writes, sSession, Floors)
  BY OnceTypes, ZenonT(30) DEF OnceInv, OneSession
<1>2. CASE UNCHANGED writes
  BY <1>1, <1>2, ZenonT(30)
<1>3. CASE writes # <<>> /\ writes' = Tail(writes)
  BY <1>1, <1>3, NowDrop, IssuedTail, ZenonT(30)
<1>4. ASSUME NEW w \in Writes, w.op \in {"insert", "status"},
             writes' = Append(writes, w)
      PROVE  /\ QueueNow(writes', sSession, Floors)
             /\ IssuedIn(writes', {}) \subseteq IssuedIn(writes, {})
  <2>1. ~Carries(w) /\ \A p \in Peers, k \in Sids : ~Sets(w, p, k)
    BY <1>4, ZenonT(30) DEF Carries, Sets
  <2>2. QueueNow(Append(writes, w), sSession, Floors)
    BY <1>1, <2>1, NowAdd, ZenonT(30)
  <2>3. IssuedIn(Append(writes, w), {}) \subseteq IssuedIn(writes, {})
    BY <1>1, <2>1, IssuedAppend, ZenonT(30)
  <2>4. QED
    BY <1>4, <2>2, <2>3, ZenonT(30)
<1>5. QED
  BY <1>2, <1>3, <1>4, ZenonT(30)

\* The sender's steps leave what only handshakes and faults change.
LEMMA OnceFrame ==
    ASSUME OnceInv, UNCHANGED <<nextSid, offer, budget>>
    PROVE  /\ budget'["sendDrop"] = 0
           /\ \A p \in Peers :
                 offer'[p].to = "sender" => nextSid'[p] = offer'[p].sid + 1
           /\ \A p \in Peers : \A k \in Sids : SendFresh(p, k)' => SendFresh(p, k)
BY ZenonT(30) DEF OnceInv, OneSession, SendFresh

\* A turn of the retry loop names at most the next number.
LEMMA TimeoutOnce ==
    ASSUME TypeInv, TypeInv', SendInv, OnceInv, NEW m \in Msgs, HandleTimeout(m),
           UNCHANGED <<sSession, sendFloor, inserting, flush, sendRow, queueRow,
                       net, nextSid, offer, budget>>
    PROVE  OnceInv'
<1> DEFINE k == sSession[To[m]]
           timedOut(st) == [queue[m] EXCEPT !.retries = queue[m].retries + 1,
                                            !.status = st]
<1>1. /\ \A n \in Msgs : inserting'[n] \in {0, sSession[To[n]]}
      /\ \A p \in Peers : \A j \in Sids :
            flush'[p][j].stage = "flushing" => flush'[p][j].sid = sSession[p]
      /\ \A n \in Msgs : queueRow'[n].seq \in {0, queueRow[n].seq}
      /\ DataSent' = DataSent
  BY ZenonT(30) DEF OnceInv, OneSession, DataSent
<1>2. ASSUME NEW st, queue' = [queue EXCEPT ![m] = timedOut(st)]
      PROVE  \A n \in Msgs : queue'[n].seq \in {0, queue[n].seq}
  BY <1>2 DEF TypeInv, TypeOK, SenderTypeOK, Entries
<1>3. ASSUME NEW st, queue' = [queue EXCEPT ![m] = timedOut(st)],
             UNCHANGED sendSeq,
             \/ UNCHANGED writes
             \/ \E w \in Writes : /\ w.op \in {"insert", "status"}
                                  /\ writes' = Append(writes, w)
      PROVE  OnceInv'
  <2>1. \A n \in Msgs : queue'[n].seq \in {0, queue[n].seq}
    BY <1>2, <1>3, ZenonT(30)
  <2>2. /\ QueueNow(writes', sSession, Floors)
        /\ IssuedIn(writes', {}) \subseteq IssuedIn(writes, {})
    BY <1>3, QuietQueue, ZenonT(30)
  <2>3. QED
    BY <1>1, <1>3, <2>1, <2>2, OnceFrame, OnceQuiet, ZenonT(30)
<1>4. CASE /\ queue' = [queue EXCEPT ![m] = timedOut("failed")]
           /\ writes' = Append(writes, StatusWrite(m, "failed"))
           /\ UNCHANGED sendSeq
  <2>1. StatusWrite(m, "failed") \in Writes /\ StatusWrite(m, "failed").op = "status"
    BY ZenonT(30) DEF StatusWrite, Writes
  <2>2. QED
    BY <1>3, <1>4, <2>1, ZenonT(30)
<1>5. CASE /\ queue' = [queue EXCEPT ![m] = timedOut("queued")]
           /\ UNCHANGED <<sendSeq, writes>>
  BY <1>3, <1>5, ZenonT(30)
<1>6. CASE /\ k # 0
           /\ BuildAndPersist(m, timedOut("queued"), k, "retry", 0, writes)
  <2>1. PICK e : e = timedOut("queued")
    BY ZenonT(30)
  <2>2. e \in Entries
    <3>1. PICK old \in Entries : old = queue[m]
      BY ZenonT(30) DEF TypeInv, TypeOK, SenderTypeOK
    <3>2. PICK r \in Nat : r = old.retries + 1
      BY Successor, Ordered, ZenonT(30) DEF Entries
    <3>3. [old EXCEPT !.retries = r, !.status = "queued"] \in Entries
      BY ZenonT(30) DEF Entries, Statuses
    <3>4. QED
      BY <2>1, <3>1, <3>2, <3>3, ZenonT(30)
  <2>3. k \in Sids /\ writes \in Seq(Writes) /\ QueueNow(writes, sSession, Floors)
    BY <1>6, OnceTypes, ZenonT(30) DEF OnceInv, OneSession
  <2>4. BuildAndPersist(m, e, k, "retry", 0, writes)
    BY <1>6, <2>1, ZenonT(30)
  <2>5. QED
    BY <1>1, <2>2, <2>3, <2>4, OnceBuild, ZenonT(30)
<1>7. QED
  BY <1>4, <1>5, <1>6, ZenonT(30) DEF HandleTimeout

\* Every step of the sending node keeps its numbers one message each.
LEMMA SenderOnceStep ==
    ASSUME TypeInv, TypeInv', SendInv, OnceInv,
           SendMessage \/ SenderWorks \/ SenderHears,
           UNCHANGED <<receiverVars, handshakeVars>>
    PROVE  OnceInv'
<1>0. UNCHANGED <<nextSid, offer, budget>>
  BY ZenonT(30) DEF handshakeVars
<1>a. /\ \A n \in Msgs : inserting[n] \in {0, sSession[To[n]]}
      /\ \A p \in Peers : \A j \in Sids :
            flush[p][j].stage = "flushing" => flush[p][j].sid = sSession[p]
      /\ queue \in [Msgs -> Entries] /\ queueRow \in [Msgs -> Rows]
      /\ flush \in [Peers -> [Sids -> Flushes]]
      /\ inserting \in [Msgs -> 0..MaxSid]
      /\ QueueNow(writes, sSession, Floors)
  BY ZenonT(30) DEF OnceInv, OneSession, TypeInv, TypeOK, SenderTypeOK
<1>b. ASSUME UNCHANGED <<sSession, sendSeq, sendFloor, sendRow>>,
             IssuedIn(writes', {}) \subseteq IssuedIn(writes, {}),
             QueueNow(writes', sSession, Floors),
             \A n \in Msgs : inserting'[n] \in {0, sSession[To[n]]},
             \A p \in Peers : \A k \in Sids :
                 flush'[p][k].stage = "flushing" => flush'[p][k].sid = sSession[p],
             \A d \in DataSent' : d \in DataSent \/
                 /\ d.sid = sSession[d.peer] /\ d.peer = To[d.msg]
                 /\ Named(d.peer, d.seq, d.msg),
             \A n \in Msgs : queue'[n].seq \in {0, queue[n].seq},
             \A n \in Msgs : \/ queueRow'[n].seq \in {0, queueRow[n].seq}
                             \/ /\ queueRow'[n].seq < Floors[To[n]]
                                /\ Named(To[n], queueRow'[n].seq, n)
      PROVE  OnceInv'
  BY <1>0, <1>b, OnceFrame, OnceQuiet, ZenonT(30)
<1>c. ASSUME writes # <<>>
      PROVE  /\ Head(writes) \in Writes /\ Tail(writes) \in Seq(Writes)
             /\ QueueNow(Tail(writes), sSession, Floors)
             /\ IssuedIn(Tail(writes), {}) \subseteq IssuedIn(writes, {})
  BY <1>a, <1>c, OnceTypes, NowDrop, IssuedTail, HeadAndTail, ZenonT(30)
<1>d. ASSUME writes # <<>>, Carries(Head(writes))
      PROVE  LET d == Head(writes).pkt
             IN  /\ d \in IssuedIn(writes, {}) /\ d \in DataPackets
                 /\ d.peer \in Peers /\ d.sid \in Sids /\ d.seq \in Nat
                 /\ d.msg \in Msgs
                 /\ d.sid = sSession[d.peer] /\ d.peer = To[d.msg]
                 /\ Named(d.peer, d.seq, d.msg)
  <2> DEFINE d == Head(writes).pkt
  <2>1. d \in IssuedIn(writes, {})
    BY <1>d, OnceTypes, HeadCarried, ZenonT(30)
  <2>2. d \in DataPackets /\ d.sid = sSession[d.peer] /\ d.peer = To[d.msg]
    BY <1>a, <2>1, OnceTypes, WaitingNow, ZenonT(30)
  <2> HIDE DEF d
  <2>3. d.peer \in Peers /\ d.sid \in Sids /\ d.seq \in Nat /\ d.msg \in Msgs
    BY <2>2, ZenonT(30) DEF DataPackets
  <2>4. Named(d.peer, d.seq, d.msg)
    BY <2>1, ZenonT(30) DEF Named
  <2>5. QED
    BY <2>1, <2>2, <2>3, <2>4, ZenonT(30) DEF d
<1>e. ASSUME writes # <<>>, NEW p \in Peers, NEW k \in Sids,
             Sets(Head(writes), p, k), NEW v \in Nat, v = Head(writes).val,
             sendRow' = [sendRow EXCEPT ![p][k] = v],
             UNCHANGED <<queue, sSession, sendSeq, sendFloor, inserting, queueRow,
                         net>>,
             \A q \in Peers : \A j \in Sids :
                 flush'[q][j].stage = "flushing" => flush'[q][j].sid = sSession[q],
             \/ writes' = Tail(writes)
             \/ /\ Carries(Head(writes))
                /\ writes' = Append(Tail(writes), MsgSeqWrite(Head(writes).pkt))
      PROVE  OnceInv'
  <2>1. UNCHANGED <<queue, sSession, sendSeq, sendFloor, inserting, queueRow,
                    net, nextSid, offer, budget>>
    BY <1>0, <1>e, ZenonT(30)
  <2>2. QED
    BY <1>e, <2>1, OnceExecute, ZenonT(30)
<1>1. CASE SendMessage
  <2> DEFINE m == sent + 1
  <2>1. /\ m \in Msgs
        /\ queue' = [queue EXCEPT ![m] = [Absent EXCEPT !.status = "queued"]]
        /\ inserting' = [inserting EXCEPT ![m] = sSession[To[m]]]
        /\ writes' = Append(writes, InsertWrite(m))
        /\ UNCHANGED <<sSession, sendSeq, sendFloor, flush, sendRow, queueRow, net>>
    BY <1>1, ZenonT(30) DEF SendMessage
  <2>2. InsertWrite(m) \in Writes /\ InsertWrite(m).op = "insert"
    BY <2>1, ZenonT(30) DEF InsertWrite, Writes
  <2> HIDE DEF m
  <2>3. /\ QueueNow(writes', sSession, Floors)
        /\ IssuedIn(writes', {}) \subseteq IssuedIn(writes, {})
    BY <2>1, <2>2, QuietQueue, ZenonT(30)
  <2>4. \A n \in Msgs : queue'[n].seq \in {0, queue[n].seq}
    BY <1>a, <2>1, ZenonT(30) DEF Absent
  <2>5. \A n \in Msgs : inserting'[n] \in {0, sSession[To[n]]}
    BY <1>a, <2>1, ZenonT(30)
  <2>6. DataSent' = DataSent
    BY <2>1, ZenonT(30) DEF DataSent
  <2>7. QED
    BY <1>a, <1>b, <2>1, <2>3, <2>4, <2>5, <2>6, ZenonT(30)
<1>2. CASE MessageInserted
  <2> DEFINE m == Head(writes).msg
             k == inserting[m]
  <2>1. m \in Msgs /\ writes # <<>>
    BY <1>2, <1>c, WriteParts, ZenonT(30) DEF MessageInserted
  <2>2. /\ queueRow' = [queueRow EXCEPT ![m] = [status |-> "queued", seq |-> 0]]
        /\ inserting' = [inserting EXCEPT ![m] = 0]
        /\ UNCHANGED <<sSession, sendFloor, flush, sendRow, net>>
    BY <1>2, ZenonT(30) DEF MessageInserted
  <2>3. /\ \A n \in Msgs : queueRow'[n].seq \in {0, queueRow[n].seq}
        /\ \A n \in Msgs : inserting'[n] \in {0, sSession[To[n]]}
        /\ DataSent' = DataSent
    BY <1>a, <2>1, <2>2, ZenonT(30) DEF DataSent
  <2>4. CASE /\ k # 0
             /\ BuildAndPersist(m, queue[m], k, "send", 0, Tail(writes))
    <3>1. k = sSession[To[m]] /\ k \in Sids /\ queue[m] \in Entries
      BY <1>a, <2>1, <2>4, OnceTypes, ZenonT(30)
    <3>2. PICK n \in Msgs, e \in Entries, j \in Sids :
              n = m /\ e = queue[m] /\ j = k /\ j = sSession[To[n]]
      BY <2>1, <3>1, ZenonT(30)
    <3>3. BuildAndPersist(n, e, j, "send", 0, Tail(writes))
      BY <2>4, <3>2, ZenonT(30)
    <3>4. UNCHANGED <<sSession, sendFloor, sendRow, net, nextSid, offer, budget>>
      BY <1>0, <2>2, ZenonT(30)
    <3>5. \A p \in Peers : \A l \in Sids :
              flush'[p][l].stage = "flushing" => flush'[p][l].sid = sSession[p]
      BY <1>a, <2>2, ZenonT(30)
    <3> HIDE DEF m, k
    <3>6. QED
      BY <1>c, <2>1, <2>3, <3>2, <3>3, <3>4, <3>5, OnceBuild, ZenonT(30)
  <2>5. CASE writes' = Tail(writes) /\ UNCHANGED <<queue, sendSeq>>
    BY <1>a, <1>b, <1>c, <2>1, <2>2, <2>3, <2>5, ZenonT(30)
  <2>6. QED
    BY <1>2, <2>4, <2>5, ZenonT(30) DEF MessageInserted
<1>3. CASE SendSeqSaved
  <2> DEFINE w == Head(writes)
             d == w.pkt
  <2>1. /\ writes # <<>> /\ w.op = "send"
        /\ sendRow' = [sendRow EXCEPT ![d.peer][d.sid] = w.val]
        /\ writes' = Append(Tail(writes), MsgSeqWrite(d))
        /\ UNCHANGED <<queue, sSession, sendSeq, sendFloor, inserting, flush,
                       queueRow, net>>
    BY <1>3, ZenonT(30) DEF SendSeqSaved, senderMem
  <2>2. Carries(w) /\ Sets(w, d.peer, d.sid)
    BY <2>1, ZenonT(30) DEF Carries, Sets
  <2>3. d.peer \in Peers /\ d.sid \in Sids /\ w.val \in Nat
    BY <1>c, <1>d, <2>1, <2>2, WriteParts, ZenonT(30)
  <2>4. PICK p \in Peers, k \in Sids, v \in Nat : p = d.peer /\ k = d.sid /\ v = w.val
    BY <2>3, ZenonT(30)
  <2>5. /\ Sets(Head(writes), p, k) /\ v = Head(writes).val
        /\ sendRow' = [sendRow EXCEPT ![p][k] = v]
    BY <2>1, <2>2, <2>4, ZenonT(30)
  <2>6. Carries(Head(writes)) /\ writes' = Append(Tail(writes), MsgSeqWrite(Head(writes).pkt))
    BY <2>1, <2>2, ZenonT(30)
  <2>7. \A q \in Peers : \A j \in Sids :
            flush'[q][j].stage = "flushing" => flush'[q][j].sid = sSession[q]
    BY <1>a, <2>1, ZenonT(30)
  <2> HIDE DEF w, d
  <2>8. /\ writes # <<>>
        /\ UNCHANGED <<queue, sSession, sendSeq, sendFloor, inserting, queueRow,
                       net>>
    BY <2>1, ZenonT(30)
  <2>9. QED
    BY <1>e, <2>5, <2>6, <2>7, <2>8, Zenon
<1>4. CASE MsgSeqSaved
  <2> DEFINE d == Head(writes).pkt
             x == PendingWrite(d)
  <2>1. /\ writes # <<>> /\ Head(writes).op = "mseq"
        /\ queueRow' = [queueRow EXCEPT ![d.msg].seq = d.seq]
        /\ writes' = Append(Tail(writes), x)
        /\ UNCHANGED <<queue, sSession, sendSeq, sendFloor, inserting, flush,
                       sendRow, net>>
    BY <1>4, ZenonT(30) DEF MsgSeqSaved, senderMem
  <2>2. Carries(Head(writes)) /\ Head(writes).op \in {"mseq", "pending"}
    BY <2>1, ZenonT(30) DEF Carries
  <2>3. /\ d \in IssuedIn(writes, {}) /\ d.msg \in Msgs /\ d.peer \in Peers
        /\ d.sid \in Sids /\ d.seq \in Nat
        /\ d.sid = sSession[d.peer] /\ d.peer = To[d.msg]
        /\ Named(d.peer, d.seq, d.msg)
    BY <1>d, <2>1, <2>2, ZenonT(30)
  <2>4. d.seq < sendRow[d.peer][d.sid]
    BY <2>1, <2>2, HeadSaved, OnceTypes, ZenonT(30) DEF SendInv, NumbersOK
  <2>5. x.pkt = d /\ Carries(x) /\ \A q \in Peers, j \in Sids : ~Sets(x, q, j)
    BY ZenonT(30) DEF PendingWrite, Carries, Sets
  <2> HIDE DEF d, x
  <2>6. d.seq < Floors[d.peer]
    <3>1. sSession[d.peer] # 0 /\ sendRow[d.peer][sSession[d.peer]] # 0
      <4>1. sSession[d.peer] # 0 /\ sendRow[d.peer][d.sid] \in Nat
        BY <2>3, OnceTypes, CounterTyped, ZenonT(30)
      <4>2. QED
        BY <2>3, <2>4, <4>1, AboveZero, ZenonT(30)
    <3>2. Floors[d.peer] = sendRow[d.peer][d.sid]
      BY <2>3, <3>1, FloorOfSession, ZenonT(30) DEF OnceInv
    <3>3. QED
      BY <2>4, <3>2, ZenonT(30)
  <2>7. QueueNow(writes', sSession, Floors)
    BY <1>c, <2>1, <2>3, <2>5, NowAdd, ZenonT(30)
  <2>8. IssuedIn(writes', {}) \subseteq IssuedIn(writes, {})
    <3>1. IssuedIn(writes', {}) \subseteq IssuedIn(Tail(writes), {}) \cup {d}
      BY <1>c, <2>1, <2>5, IssuedAppend, ZenonT(30)
    <3>2. QED
      BY <1>c, <2>1, <2>3, <3>1, ZenonT(30)
  <2>9. ASSUME NEW n \in Msgs
        PROVE  \/ queueRow'[n].seq \in {0, queueRow[n].seq}
               \/ /\ queueRow'[n].seq < Floors[To[n]]
                  /\ Named(To[n], queueRow'[n].seq, n)
    <3>1. CASE n = d.msg
      <4>1. queueRow'[n] = [queueRow[n] EXCEPT !.seq = d.seq]
        BY <1>a, <2>1, <2>3, <3>1, ZenonT(30)
      <4>2. queueRow'[n].seq = d.seq
        <5>1. queueRow[n] \in Rows
          BY <1>a, ZenonT(30)
        <5>2. QED
          BY <4>1, <5>1, ZenonT(30) DEF Rows
      <4>3. QED
        BY <2>3, <2>6, <3>1, <4>2, ZenonT(30)
    <3>2. CASE n # d.msg
      BY <1>a, <2>1, <3>2, ZenonT(30)
    <3>3. QED
      BY <3>1, <3>2, ZenonT(30)
  <2>10. DataSent' = DataSent /\ \A n \in Msgs : queue'[n].seq \in {0, queue[n].seq}
    BY <2>1, ZenonT(30) DEF DataSent
  <2>11. QED
    BY <1>a, <1>b, <2>1, <2>7, <2>8, <2>9, <2>10, ZenonT(30)
<1>5. CASE PendingSavedAndSent
  <2> DEFINE d == Head(writes).pkt
  <2>1. /\ writes # <<>> /\ Head(writes).op = "pending"
        /\ queueRow' = [queueRow EXCEPT ![d.msg].status = "pending"]
        /\ net' = net \cup {d} /\ writes' = Tail(writes)
        /\ UNCHANGED <<queue, sSession, sendSeq, sendFloor, inserting, flush, sendRow>>
    BY <1>5, ZenonT(30) DEF PendingSavedAndSent, Send
  <2>2. Carries(Head(writes))
    BY <2>1, ZenonT(30) DEF Carries
  <2>3. /\ d.msg \in Msgs /\ d.sid = sSession[d.peer] /\ d.peer = To[d.msg]
        /\ Named(d.peer, d.seq, d.msg)
    BY <1>d, <2>1, <2>2, ZenonT(30)
  <2> HIDE DEF d
  <2>4. \A e \in DataSent' : e \in DataSent \/ e = d
    BY <2>1, ZenonT(30) DEF DataSent
  <2>5. \A n \in Msgs : queueRow'[n].seq \in {0, queueRow[n].seq}
    BY <1>a, <2>1, <2>3, ZenonT(30) DEF Rows
  <2>6. QED
    BY <1>a, <1>b, <1>c, <2>1, <2>3, <2>4, <2>5, ZenonT(30)
<1>6. CASE StatusSaved
  <2> DEFINE w == Head(writes)
  <2>1. /\ writes # <<>> /\ w.op = "status"
        /\ queueRow' = [queueRow EXCEPT ![w.msg].status = w.status]
        /\ writes' = Tail(writes)
        /\ UNCHANGED <<queue, sSession, sendSeq, sendFloor, inserting, flush,
                       sendRow, net>>
    BY <1>6, ZenonT(30) DEF StatusSaved, senderMem
  <2>2. w.msg \in Msgs
    BY <1>c, <2>1, WriteParts, ZenonT(30)
  <2> HIDE DEF w
  <2>3. \A n \in Msgs : queueRow'[n].seq \in {0, queueRow[n].seq}
    BY <1>a, <2>1, <2>2, ZenonT(90) DEF Rows
  <2>4. DataSent' = DataSent
    BY <2>1, ZenonT(30) DEF DataSent
  <2>5. QED
    BY <1>a, <1>b, <1>c, <2>1, <2>3, <2>4, ZenonT(30)
<1>7. CASE SendRowSaved
  <2> DEFINE w == Head(writes)
  <2>1. /\ writes # <<>> /\ w.op = "row"
        /\ sendRow' = [sendRow EXCEPT ![w.peer][w.sid] = w.val]
        /\ flush' = [flush EXCEPT ![w.peer][w.sid].stage = "saved"]
        /\ writes' = Tail(writes)
        /\ UNCHANGED <<queue, sSession, sendSeq, sendFloor, inserting, queueRow, net>>
    BY <1>7, ZenonT(30) DEF SendRowSaved
  <2>2. /\ w.peer \in Peers /\ w.sid \in Sids /\ w.val \in Nat
        /\ Sets(w, w.peer, w.sid)
    BY <1>c, <2>1, WriteParts, ZenonT(30) DEF Sets
  <2>3. PICK p \in Peers, k \in Sids, v \in Nat : p = w.peer /\ k = w.sid /\ v = w.val
    BY <2>2, ZenonT(30)
  <2>4. /\ Sets(Head(writes), p, k) /\ v = Head(writes).val
        /\ sendRow' = [sendRow EXCEPT ![p][k] = v]
        /\ flush' = [flush EXCEPT ![p][k].stage = "saved"]
    BY <2>1, <2>2, <2>3, ZenonT(30)
  <2> HIDE DEF w
  <2>5. ASSUME NEW q \in Peers, NEW j \in Sids, flush'[q][j].stage = "flushing"
        PROVE  flush'[q][j].sid = sSession[q]
    <3>1. flush'[p][k].stage = "saved"
      <4>1. flush'[p][k] = [flush[p][k] EXCEPT !.stage = "saved"]
        BY <1>a, <2>4, ZenonT(30)
      <4>2. flush[p][k] \in Flushes
        BY <1>a, ZenonT(30)
      <4>3. QED
        BY <4>1, <4>2, ZenonT(30) DEF Flushes
    <3>2. q # p \/ j # k
      BY <2>5, <3>1, ZenonT(30)
    <3>3. flush'[q][j] = flush[q][j]
      BY <1>a, <2>4, <3>2, ZenonT(30)
    <3>4. QED
      BY <1>a, <2>5, <3>3, ZenonT(30)
  <2>6. /\ writes # <<>> /\ writes' = Tail(writes)
        /\ UNCHANGED <<queue, sSession, sendSeq, sendFloor, inserting, queueRow,
                       net>>
    BY <2>1, ZenonT(30)
  <2>7. QED
    BY <1>e, <2>4, <2>5, <2>6, ZenonT(30)
<1>8. ASSUME NEW p \in Peers, NEW k \in Sids, FlushStart(p, k)
      PROVE  OnceInv'
  <2>1. /\ flush' = [flush EXCEPT ![p][k] =
                         IF sSession[p] = 0 THEN NoFlush
                         ELSE [stage |-> "flushing", sid |-> sSession[p],
                               todo |-> QueuedFor(p)]]
        /\ UNCHANGED <<queue, sSession, sendSeq, sendFloor, inserting, writes,
                       sendRow, queueRow, net>>
    BY <1>8, ZenonT(30) DEF FlushStart
  <2>2. \A q \in Peers : \A j \in Sids :
            flush'[q][j].stage = "flushing" => flush'[q][j].sid = sSession[q]
    BY <1>a, <2>1, ZenonT(30) DEF NoFlush
  <2>3. DataSent' = DataSent
    BY <2>1, ZenonT(30) DEF DataSent
  <2>4. QED
    BY <1>a, <1>b, <2>1, <2>2, <2>3, ZenonT(30)
<1>9. ASSUME NEW p \in Peers, NEW k \in Sids, FlushStep(p, k)
      PROVE  OnceInv'
  <2> DEFINE f == flush[p][k]
             left == f.todo \cap QueuedFor(p)
             m == First(left)
  <2>1. f.stage = "flushing" /\ f.sid = sSession[p] /\ f \in Flushes /\ f.sid # 0
    BY <1>9, <1>a, ZenonT(90) DEF FlushStep, SessionsNamed, TypeInv
  <2>2. UNCHANGED <<sSession, sendFloor, inserting, sendRow, queueRow, net>>
    BY <1>9, ZenonT(30) DEF FlushStep
  <2>3. DataSent' = DataSent
    BY <2>2, ZenonT(30) DEF DataSent
  <2>4. CASE /\ left # {}
             /\ BuildAndPersist(m, queue[m], f.sid, "flush", k, writes)
             /\ flush' = [flush EXCEPT ![p][k].todo = {x \in f.todo : x > m}]
    <3>1. m \in Msgs /\ To[m] = p
      <4>1. left \subseteq Nat
        BY <2>1 DEF Flushes, Msgs
      <4>2. m \in left
        BY <2>4, <4>1, FirstIn, Zenon
      <4>3. QED
        BY <2>1, <4>2, ZenonT(30) DEF QueuedFor
    <3>2. \A q \in Peers : \A j \in Sids : /\ flush'[q][j].stage = flush[q][j].stage
                                           /\ flush'[q][j].sid = flush[q][j].sid
      BY <1>a, <2>4, FlushTodo, ZenonT(30)
    <3>3. \A q \in Peers : \A j \in Sids :
              flush'[q][j].stage = "flushing" => flush'[q][j].sid = sSession[q]
      <4>1. SUFFICES ASSUME NEW q \in Peers, NEW j \in Sids,
                            flush'[q][j].stage = "flushing"
                     PROVE  flush'[q][j].sid = sSession[q]
        BY ZenonT(30)
      <4>2. /\ flush'[q][j].stage = flush[q][j].stage
            /\ flush'[q][j].sid = flush[q][j].sid
        BY <3>2, ZenonT(30)
      <4>3. QED
        BY <1>a, <4>1, <4>2, ZenonT(30)
    <3>4. f.sid \in Sids /\ f.sid = sSession[To[m]] /\ queue[m] \in Entries
      BY <1>a, <2>1, <3>1, OnceTypes, ZenonT(30)
    <3>5. BuildAndPersist(m, queue[m], f.sid, "flush", k, writes)
      BY <2>4, ZenonT(30)
    <3> HIDE DEF f, m, left
    <3>6. QED
      BY <1>0, <1>a, <2>2, <3>1, <3>3, <3>4, <3>5, OnceBuild, OnceTypes,
         ZenonT(30)
  <2>5. CASE /\ flush' = [flush EXCEPT ![p][k] = NoFlush]
             /\ UNCHANGED <<queue, sendSeq, writes>>
    <3>1. \A q \in Peers : \A j \in Sids :
              flush'[q][j].stage = "flushing" => flush'[q][j].sid = sSession[q]
      BY <1>a, <2>5, ZenonT(30) DEF NoFlush
    <3>2. QED
      BY <1>a, <1>b, <2>2, <2>3, <2>5, <3>1, ZenonT(30)
  <2>6. QED
    BY <1>9, <2>4, <2>5, ZenonT(30) DEF FlushStep
<1>10. CASE RetryScan
  <2>1. PICK T \in SUBSET {m \in Msgs : MayTimeOut(m)} :
             T # {} /\ HandleTimeout(First(T))
    BY <1>10, ZenonT(30) DEF RetryScan
  <2>2. First(T) \in Msgs
    <3>1. T \subseteq Nat
      BY DEF Msgs
    <3>2. First(T) \in T
      BY <3>1, <2>1, FirstIn, Zenon
    <3>3. QED
      BY <3>2, ZenonT(30)
  <2>3. UNCHANGED <<sSession, sendFloor, inserting, flush, sendRow, queueRow, net>>
    BY <1>10, ZenonT(30) DEF RetryScan
  <2>4. QED
    BY <1>0, <2>1, <2>2, <2>3, TimeoutOnce, ZenonT(30)
<1>11. CASE RetryNext
  <2>1. First(retry) \in Msgs
    <3>1. retry \subseteq Nat /\ retry # {}
      BY <1>11 DEF Msgs, RetryNext, TypeInv, TypeOK, SenderTypeOK
    <3>2. First(retry) \in retry
      BY <3>1, FirstIn, Zenon
    <3>3. QED
      BY <3>2, ZenonT(30) DEF TypeInv, TypeOK, SenderTypeOK
  <2>2. /\ HandleTimeout(First(retry))
        /\ UNCHANGED <<sSession, sendFloor, inserting, flush, sendRow, queueRow, net>>
    BY <1>11, ZenonT(30) DEF RetryNext
  <2>3. QED
    BY <1>0, <2>1, <2>2, TimeoutOnce, ZenonT(30)
<1>12. ASSUME NEW a, HandleAck(a) \/ HandleAppAck(a) PROVE OnceInv'
  <2>1. PICK S \in SUBSET Msgs, st \in {"delivered", "acknowledged"} :
             /\ S # {} /\ writes' = Append(writes, StatusWrite(First(S), st))
             /\ queue' = [queue EXCEPT ![First(S)].status = st]
             /\ UNCHANGED <<sSession, sendSeq, sendFloor, inserting, flush,
                            sendRow, queueRow, net>>
    BY <1>12, ZenonT(30) DEF HandleAck, HandleAppAck
  <2>2. First(S) \in Msgs
    <3>1. S \subseteq Nat
      BY DEF Msgs
    <3>2. First(S) \in S
      BY <2>1, <3>1, FirstIn, Zenon
    <3>3. QED
      BY <3>2, ZenonT(30)
  <2>3. /\ StatusWrite(First(S), st) \in Writes
        /\ StatusWrite(First(S), st).op = "status"
    BY <2>2, ZenonT(30) DEF StatusWrite, Writes
  <2>4. /\ QueueNow(writes', sSession, Floors)
        /\ IssuedIn(writes', {}) \subseteq IssuedIn(writes, {})
    BY <2>1, <2>3, QuietQueue, ZenonT(30)
  <2>5. \A n \in Msgs : queue'[n].seq \in {0, queue[n].seq}
    BY <1>a, <2>1, <2>2 DEF Entries
  <2>6. DataSent' = DataSent
    BY <2>1, ZenonT(30) DEF DataSent
  <2>7. QED
    BY <1>a, <1>b, <2>1, <2>4, <2>5, <2>6, ZenonT(30)
<1>13. ASSUME NEW y \in SyncsSent, HandleSync(y) PROVE OnceInv'
  <2> DEFINE missed == {n \in Msgs : /\ To[n] = y.peer
                                     /\ queue[n].status # "absent"
                                     /\ queue[n].seq > y.seq}
             resent == {DataPacket(y.peer, y.sid, queue[n].seq, n, "sync") :
                            n \in missed}
  <2>1. /\ sSession[y.peer] = y.sid
        /\ net' = net \cup resent
        /\ queue' = [n \in Msgs |-> IF n \in missed
                                    THEN [queue[n] EXCEPT !.timed = TRUE]
                                    ELSE queue[n]]
        /\ UNCHANGED <<sSession, sendSeq, sendFloor, inserting, flush, writes,
                       sendRow, queueRow>>
    BY <1>13, ZenonT(30) DEF HandleSync, Send
  <2>2. y.seq \in Nat /\ y.peer \in Peers
    BY ZenonT(30) DEF SyncsSent, Packets, DataPackets, TypeInv, TypeOK
  <2>3. ASSUME NEW d \in DataSent', d \notin DataSent
        PROVE  /\ d.sid = sSession[d.peer] /\ d.peer = To[d.msg]
               /\ Named(d.peer, d.seq, d.msg)
    <3>1. PICK n \in missed : d = DataPacket(y.peer, y.sid, queue[n].seq, n, "sync")
      BY <2>1, <2>3, ZenonT(30) DEF DataSent
    <3>2. d.peer = y.peer /\ d.sid = y.sid /\ d.seq = queue[n].seq /\ d.msg = n
      BY <3>1, ZenonT(30) DEF DataPacket
    <3>3. n \in Msgs /\ To[n] = y.peer /\ queue[n].seq > y.seq /\ queue[n].seq \in Nat
      BY OnceTypes, ZenonT(30)
    <3>4. queue[n].seq # 0
      BY <2>2, <3>3
    <3> HIDE DEF missed, resent
    <3>5. QED
      BY <2>1, <3>2, <3>3, <3>4, ZenonT(30) DEF Named
  <2>4. \A n \in Msgs : queue'[n].seq \in {0, queue[n].seq}
    BY <1>a, <2>1, ZenonT(30) DEF Entries
  <2> HIDE DEF missed, resent
  <2>5. QED
    BY <1>a, <1>b, <2>1, <2>3, <2>4, ZenonT(30)
<1>14. QED
  BY <1>1, <1>2, <1>3, <1>4, <1>5, <1>6, <1>7, <1>8, <1>9, <1>10, <1>11, <1>12,
     <1>13
  DEF SenderWorks, SenderHears

\* So does every other step: only a lost session could set numbers apart.
LEMMA OnceStep ==
    TypeInv /\ SendInv /\ OnceInv /\ [Next]_vars => OnceInv'
<1> SUFFICES ASSUME TypeInv, SendInv, OnceInv, [Next]_vars PROVE OnceInv'
  BY ZenonT(30)
<1>0. TypeInv' /\ SendInv'
  BY TypeStep, SendStep, ZenonT(30)
<1>a. /\ \A n \in Msgs : inserting[n] \in {0, sSession[To[n]]}
      /\ \A p \in Peers : \A j \in Sids :
            flush[p][j].stage = "flushing" => flush[p][j].sid = sSession[p]
      /\ \A p \in Peers : offer[p].to = "sender" => nextSid[p] = offer[p].sid + 1
      /\ budget["sendDrop"] = 0 /\ budget \in [Faults -> Nat]
  BY ZenonT(30) DEF OnceInv, OneSession, TypeInv, TypeOK
<1>b. ASSUME UNCHANGED senderVars, budget'["sendDrop"] = 0,
             \A d \in net' \ net : d.type # "DATA",
             \A p \in Peers :
                 offer'[p].to = "sender" => nextSid'[p] = offer'[p].sid + 1,
             \A p \in Peers : \A k \in Sids : SendFresh(p, k)' => SendFresh(p, k)
      PROVE  OnceInv'
  <2>1. UNCHANGED <<queue, sSession, sendSeq, sendFloor, inserting, flush, writes,
                    sendRow, queueRow>>
    BY <1>b, ZenonT(30) DEF senderVars
  <2>2. /\ QueueNow(writes', sSession, Floors)
        /\ IssuedIn(writes', {}) \subseteq IssuedIn(writes, {})
    BY <2>1, QuietQueue, ZenonT(30)
  <2>3. \A d \in DataSent' : d \in DataSent
    BY <1>b, ZenonT(30) DEF DataSent
  <2>4. QED
    BY <1>0, <1>a, <1>b, <2>1, <2>2, <2>3, OnceQuiet, ZenonT(30)
<1>c. \A p \in Peers, k \in Sids : k \in 0..MaxSid
  BY WireAssumption DEF Sids
<1>1. CASE UNCHANGED vars
  <2>1. UNCHANGED <<senderVars, net, nextSid, offer, budget>>
    BY <1>1, ZenonT(30) DEF vars
  <2>2. QED
    BY <1>b, <2>1, OnceFrame, ZenonT(30)
<1>2. CASE /\ SendMessage \/ SenderWorks \/ SenderHears
           /\ UNCHANGED <<receiverVars, handshakeVars>>
  BY <1>0, <1>2, SenderOnceStep, ZenonT(30)
<1>3. CASE /\ (\E d \in DataSent : HandleData(d)) \/ ReceiverWorks
           /\ UNCHANGED <<senderVars, handshakeVars>>
  <2>1. UNCHANGED <<nextSid, offer, budget>>
    BY <1>3, ZenonT(30) DEF handshakeVars
  <2>2. \A d \in net' \ net : d.type # "DATA"
    BY <1>3, ReceiversSendNoData, ZenonT(30)
  <2>3. QED
    BY <1>3, <1>b, <2>1, <2>2, OnceFrame, ZenonT(30)
<1>4. CASE Handshakes
  <2>1. HandshakeTakes
    BY <1>4, HandshakeStep, ZenonT(30)
  <2>2. /\ \A p \in Peers : \A k \in Sids : SendFresh(p, k)' => SendFresh(p, k)
        /\ \A p \in Peers :
              offer'[p].to = "sender" => nextSid'[p] = offer'[p].sid + 1
        /\ UNCHANGED budget
    BY <1>a, <1>c, <2>1, ZenonT(30) DEF HandshakeTakes
  <2>3. CASE UNCHANGED <<senderVars, net>>
    BY <1>a, <1>b, <2>2, <2>3, ZenonT(30)
  <2>4. ASSUME NEW p \in Peers, NEW k \in Sids, Registers(p, k) PROVE OnceInv'
    <3>1. nextSid[p] =< k + 1
      <4>1. nextSid[p] = k \/ nextSid[p] = k + 1
        BY <1>a, <2>4, ZenonT(30) DEF Registers
      <4>2. k \in Nat
        BY OnceTypes, ZenonT(30)
      <4>3. k =< k + 1 /\ k + 1 =< k + 1
        BY <4>2, Successor, ZenonT(30)
      <4>4. QED
        BY <4>1, <4>3, ZenonT(30)
    <3>2. RegisterSend(p, k) /\ sSession[p] = 0 /\ SendFresh(p, k)
      BY <2>4, ZenonT(30) DEF Registers
    <3>3. QED
      BY <1>0, <2>2, <3>1, <3>2, OnceRegister, ZenonT(30)
  <2>5. QED
    BY <2>1, <2>3, <2>4, ZenonT(30) DEF HandshakeTakes
<1>5. CASE FaultsHappen
  <2>1. ASSUME NEW p \in Peers, SenderLosesPeer(p) PROVE FALSE
    BY <1>a, <2>1, AboveZero, ZenonT(30) DEF SenderLosesPeer, Spend, OnceInv
  <2>2. ASSUME NEW p \in Peers, ReceiverLosesPeer(p) PROVE OnceInv'
    <3>1. /\ UNCHANGED <<senderVars, net, nextSid, offer>>
          /\ budget' = [budget EXCEPT !["recvDrop"] = @ - 1]
      BY <2>2, ZenonT(30) DEF ReceiverLosesPeer, DropRecvSession, Spend
    <3>2. budget'["sendDrop"] = 0
      BY <1>a, <3>1, ZenonT(30) DEF Faults
    <3>3. \A q \in Peers : \A k \in Sids : SendFresh(q, k)' => SendFresh(q, k)
      BY <3>1, ZenonT(30) DEF SendFresh
    <3>4. QED
      BY <1>a, <1>b, <3>1, <3>2, <3>3, ZenonT(30)
  <2>3. ASSUME NEW p \in Peers, ReceiverCrashes(p) PROVE OnceInv'
    <3>1. /\ UNCHANGED <<senderVars, net, nextSid>>
          /\ budget' = [budget EXCEPT !["recvCrash"] = @ - 1]
          /\ offer' = [offer EXCEPT ![p] = Forget(@, "receiver")]
      BY <2>3, ZenonT(30) DEF ReceiverCrashes, RestartReceiver, Spend
    <3>2. budget'["sendDrop"] = 0
      BY <1>a, <3>1, ZenonT(30) DEF Faults
    <3>3. \A q \in Peers : offer'[q] \in {offer[q], NoOffer}
      BY <3>1, ZenonT(30) DEF TypeInv, TypeOK, Forget
    <3>4. NoOffer.to = "none"
      BY ZenonT(30) DEF NoOffer
    <3>5. \A q \in Peers : \A k \in Sids : SendFresh(q, k)' => SendFresh(q, k)
      BY <3>1, <3>3, <3>4, ZenonT(30) DEF SendFresh
    <3>6. \A q \in Peers :
              offer'[q].to = "sender" => nextSid'[q] = offer'[q].sid + 1
      BY <1>a, <3>1, <3>3, <3>4, ZenonT(30)
    <3>7. QED
      BY <1>b, <3>1, <3>2, <3>5, <3>6, ZenonT(30)
  <2>4. CASE SenderCrashes
    BY <1>0, <2>4, OnceRestart, ZenonT(30)
  <2>5. QED
    BY <1>5, <2>1, <2>2, <2>3, <2>4, ZenonT(30) DEF FaultsHappen
<1>6. QED
  BY <1>1, <1>2, <1>3, <1>4, <1>5, ZenonT(30) DEF Next

\* At the start nothing is named and every floor is 0.
LEMMA OnceInit ==
    ASSUME Budget["sendDrop"] = 0, Init
    PROVE  OnceInv
<1>1. /\ queue = [m \in Msgs |-> Absent]
      /\ sSession = [p \in Peers |-> 0]
      /\ sendFloor = [p \in Peers |-> 0]
      /\ inserting = [m \in Msgs |-> 0]
      /\ flush = [p \in Peers |-> [k \in Sids |-> NoFlush]]
      /\ writes = <<>> /\ net = {}
      /\ sendRow = [p \in Peers |-> [k \in Sids |-> 0]]
      /\ queueRow = [m \in Msgs |-> [status |-> "absent", seq |-> 0]]
      /\ offer = [p \in Peers |-> NoOffer]
      /\ budget = Budget
  BY ZenonT(30) DEF Init, SenderInit
<1>2. DataSent = {} /\ IssuedIn(writes, {}) = {}
  <2>1. IssuedIn(<<>>, {}) = {}
    BY DEF IssuedIn
  <2>2. QED
    BY <1>1, <2>1, ZenonT(30) DEF DataSent
<1>3. \A p \in Peers : Floors[p] = 0 /\ Counter(p) = 1
  BY <1>1 DEF Floors, SavedSend, Counter, Larger
<1>4. QueueNow(<<>>, sSession, Floors)
  BY DEF QueueNow
<1>5. OneSession
  BY <1>1, <1>2, <1>4, ZenonT(30) DEF OneSession, NoFlush, NoOffer
<1>6. FloorsHold
  BY <1>1, <1>3 DEF FloorsHold
<1>7. ASSUME NEW p \in Peers, NEW n \in Nat, NEW m \in Msgs PROVE ~Named(p, n, m)
  BY <1>1, <1>2, ZenonT(30) DEF Named, Absent
<1>8. QED
  BY <1>1, <1>2, <1>5, <1>6, <1>7, ZenonT(30)
  DEF OnceInv, NamesHold, NumbersOnce

\* project_requirements.md, "sequence_number MUST NEVER repeat within a
\* session", SYNC included: it holds through restarts of either node as long
\* as the sending node does not lose a session while it runs.
THEOREM NumbersNeverRepeat ==
    ASSUME Budget["sendDrop"] = 0
    PROVE  Spec => []NumbersOnce
<1>1. Init => TypeInv /\ SendInv /\ OnceInv
  BY TypeInit, SendInit, OnceInit, ZenonT(30)
<1>2. TypeInv /\ SendInv /\ OnceInv /\ [Next]_vars => (TypeInv /\ SendInv /\ OnceInv)'
  BY TypeStep, SendStep, OnceStep, ZenonT(30)
<1>3. OnceInv => NumbersOnce
  BY ZenonT(30) DEF OnceInv
<1>4. QED
  BY <1>1, <1>2, <1>3, PTL DEF Spec
-----------------------------------------------------------------------------
(***************************************************************************)
(* What the receivers hold and what they have said.                        *)
(***************************************************************************)

\* A step in which no receiver takes, saves or logs a number.
ReceiversRest ==
    /\ UNCHANGED <<recvSeq, recvFloor, rWrites, logging, log>>
    /\ net \subseteq net'
    /\ \A d \in net' \ net : d.type \in {"DATA", "SYNC"}

\* The steps in which one does.
LEMMA ReceiverMoves ==
    ASSUME TypeInv, [Next]_vars
    PROVE  \/ ReceiversRest
           \/ \E d \in DataSent : HandleData(d)
           \/ \E p \in Peers : \/ RecvRowSaved(p)
                               \/ RecvSeqSavedAndAcked(p)
                               \/ LogAndShow(p)
                               \/ \E k \in Sids : RegisterRecv(p, k)
                               \/ ReceiverCrashes(p)
<1>0. UNCHANGED receiverVars => UNCHANGED <<recvSeq, recvFloor, rWrites, logging, log>>
  BY ZenonT(30) DEF receiverVars
<1>1. CASE UNCHANGED vars
  BY <1>0, <1>1, ZenonT(30) DEF vars, ReceiversRest
<1>2. CASE /\ SendMessage \/ SenderWorks \/ SenderHears
           /\ UNCHANGED <<receiverVars, handshakeVars>>
  BY <1>0, <1>2, SenderSendsData, ZenonT(30) DEF ReceiversRest
<1>3. CASE ReceiverWorks
  <2>1. ASSUME NEW p \in Peers, NEW k \in Sids, SendSync(p, k)
        PROVE  ReceiversRest
    BY <2>1, SMTT(30) DEF SendSync, Send, SyncPacket, ReceiversRest
  <2>2. QED
    BY <1>3, <2>1, ZenonT(30) DEF ReceiverWorks
<1>4. CASE Handshakes
  <2>1. ASSUME NEW p \in Peers, SenderAnswersHello(p) \/ SenderTakesHelloAck(p)
        PROVE  ReceiversRest
    BY <1>0, <2>1, ZenonT(30)
    DEF SenderAnswersHello, SenderTakesHelloAck, RegisterSend, ReceiversRest
  <2>2. ASSUME NEW p \in Peers, ReceiverAnswersHello(p) \/ ReceiverTakesHelloAck(p)
        PROVE  \E k \in Sids : RegisterRecv(p, k)
    <3>1. CASE ReceiverAnswersHello(p)
      BY <3>1, Zenon DEF ReceiverAnswersHello
    <3>2. CASE ReceiverTakesHelloAck(p)
      <4>1. offer[p].to = "receiver" /\ RegisterRecv(p, offer[p].sid)
        BY <3>2, Zenon DEF ReceiverTakesHelloAck
      <4>2. offer[p].sid \in Sids
        BY <4>1, WireAssumption, SidsPositive, ZenonT(30)
        DEF TypeInv, TypeOK, SessionsNamed, Offers, Sids
      <4>3. QED
        BY <4>1, <4>2, Zenon
    <3>3. QED
      BY <2>2, <3>1, <3>2, Zenon
  <2>3. QED
    BY <1>4, <2>1, <2>2, ZenonT(30) DEF Handshakes
<1>5. CASE FaultsHappen
  <2>1. ASSUME NEW p \in Peers, SenderLosesPeer(p) PROVE ReceiversRest
    BY <1>0, <2>1, ZenonT(30)
    DEF SenderLosesPeer, DropSendSession, ReceiversRest
  <2>2. ASSUME NEW p \in Peers, ReceiverLosesPeer(p) PROVE ReceiversRest
    BY <2>2, ZenonT(30) DEF ReceiverLosesPeer, DropRecvSession, ReceiversRest
  <2>3. CASE SenderCrashes
    BY <1>0, <2>3, ZenonT(30) DEF SenderCrashes, RestartSender, ReceiversRest
  <2>4. QED
    BY <1>5, <2>1, <2>2, <2>3, ZenonT(30) DEF FaultsHappen
<1>6. QED
  BY <1>1, <1>2, <1>3, <1>4, <1>5, ZenonT(30) DEF Next

\* Entry r of receiver p arrived in one of the DATA packets ds.
FromData(ds, p, r) ==
    /\ r.seq > 0
    /\ \E d \in ds : /\ d.peer = p /\ d.sid = r.sid
                           /\ d.seq = r.seq /\ d.msg = r.msg

\* Everything a receiver logs, has logged, or is about to save, was sent to
\* it, and what it confirmed with APP_ACK is in its log.
SourceInv ==
    /\ \A p \in Peers :
          /\ \A i \in 1..Len(log[p]) : FromData(DataSent, p, log[p][i])
          /\ \A i \in 1..Len(logging[p]) : FromData(DataSent, p, logging[p][i])
          /\ \A i \in 1..Len(rWrites[p]) :
                rWrites[p][i].op = "recv" => FromData(DataSent, p, rWrites[p][i])
    /\ \A a \in AppAcksSent : \E i \in 1..Len(log[a.peer]) :
          log[a.peer][i].sid = a.sid /\ log[a.peer][i].seq = a.seq

\* A step that adds nothing but what was sent keeps that.
LEMMA SourceKept ==
    ASSUME SourceInv, net \subseteq net',
           \A p \in Peers :
              /\ \A i \in 1..Len(log'[p]) :
                    (i \in 1..Len(log[p]) /\ log'[p][i] = log[p][i])
                        \/ FromData(DataSent, p, log'[p][i])
              /\ \A i \in 1..Len(log[p]) :
                    i \in 1..Len(log'[p]) /\ log'[p][i] = log[p][i]
              /\ logging'[p] = logging[p]
                    \/ \A i \in 1..Len(logging'[p]) : FromData(DataSent, p, logging'[p][i])
              /\ \A i \in 1..Len(rWrites'[p]) : rWrites'[p][i].op = "recv" =>
                    \/ \E j \in 1..Len(rWrites[p]) : rWrites'[p][i] = rWrites[p][j]
                    \/ FromData(DataSent, p, rWrites'[p][i]),
           \A a \in AppAcksSent' : \/ a \in AppAcksSent /\ a.peer \in Peers
                                   \/ \E i \in 1..Len(log'[a.peer]) :
                                         /\ log'[a.peer][i].sid = a.sid
                                         /\ log'[a.peer][i].seq = a.seq
    PROVE  SourceInv'
<1>1. ASSUME NEW p, NEW r, FromData(DataSent, p, r)
      PROVE  FromData(DataSent', p, r)
  BY <1>1, ZenonT(30) DEF FromData, DataSent
<1>2. ASSUME NEW p \in Peers
      PROVE  /\ \A i \in 1..Len(log'[p]) : FromData(DataSent', p, log'[p][i])
             /\ \A i \in 1..Len(logging'[p]) : FromData(DataSent', p, logging'[p][i])
             /\ \A i \in 1..Len(rWrites'[p]) :
                   rWrites'[p][i].op = "recv" => FromData(DataSent', p, rWrites'[p][i])
  <2>1. \A i \in 1..Len(log'[p]) : FromData(DataSent, p, log'[p][i])
    BY ZenonT(30) DEF SourceInv
  <2>2. \A i \in 1..Len(logging'[p]) : FromData(DataSent, p, logging'[p][i])
    BY ZenonT(30) DEF SourceInv
  <2>3. \A i \in 1..Len(rWrites'[p]) :
            rWrites'[p][i].op = "recv" => FromData(DataSent, p, rWrites'[p][i])
    <3>1. SUFFICES ASSUME NEW i \in 1..Len(rWrites'[p]), rWrites'[p][i].op = "recv"
                   PROVE  FromData(DataSent, p, rWrites'[p][i])
      BY ZenonT(30)
    <3>2. \/ \E j \in 1..Len(rWrites[p]) : rWrites'[p][i] = rWrites[p][j]
          \/ FromData(DataSent, p, rWrites'[p][i])
      BY <3>1, ZenonT(30)
    <3>3. \A j \in 1..Len(rWrites[p]) :
              rWrites[p][j].op = "recv" => FromData(DataSent, p, rWrites[p][j])
      BY ZenonT(30) DEF SourceInv
    <3>4. QED
      BY <3>1, <3>2, <3>3, ZenonT(90)
  <2>4. QED
    BY <1>1, <2>1, <2>2, <2>3, ZenonT(30)
<1>3. ASSUME NEW a \in AppAcksSent'
      PROVE  \E i \in 1..Len(log'[a.peer]) :
                 log'[a.peer][i].sid = a.sid /\ log'[a.peer][i].seq = a.seq
  <2>1. CASE a \in AppAcksSent /\ a.peer \in Peers
    <3>1. PICK i \in 1..Len(log[a.peer]) :
              log[a.peer][i].sid = a.sid /\ log[a.peer][i].seq = a.seq
      BY <2>1, ZenonT(30) DEF SourceInv
    <3>2. i \in 1..Len(log'[a.peer]) /\ log'[a.peer][i] = log[a.peer][i]
      BY <2>1, ZenonT(30)
    <3>3. QED
      BY <3>1, <3>2, ZenonT(30)
  <2>2. QED
    BY <1>3, <2>1, ZenonT(30)
<1>4. QED
  BY <1>2, <1>3, ZenonT(30) DEF SourceInv

\* Every step of the system does.
LEMMA SourceStep == TypeInv /\ SourceInv /\ [Next]_vars => SourceInv'
<1> SUFFICES ASSUME TypeInv, SourceInv, [Next]_vars PROVE SourceInv'
  BY ZenonT(30)
<1>0. /\ \A p \in Peers : /\ log[p] \in Seq(Received) /\ logging[p] \in Seq(Received)
                          /\ rWrites[p] \in Seq(RWrites)
                          /\ \A k \in Sids : recvSeq[p][k] \in Nat
      /\ log \in [Peers -> Seq(Received)] /\ logging \in [Peers -> Seq(Received)]
      /\ rWrites \in [Peers -> Seq(RWrites)]
  BY ZenonT(30) DEF TypeInv, TypeOK, ReceiverTypeOK
<1>1. /\ \A d \in DataSent : d \in DataPackets
      /\ \A a \in AppAcksSent : a.peer \in Peers
  BY ZenonT(30)
  DEF TypeInv, TypeOK, DataSent, AppAcksSent, Packets, DataPackets
<1>2. CASE ReceiversRest
  <2>1. /\ log' = log /\ logging' = logging /\ rWrites' = rWrites
        /\ net \subseteq net' /\ AppAcksSent' \subseteq AppAcksSent
    BY <1>2, ZenonT(30) DEF ReceiversRest, AppAcksSent
  <2>2. QED
    BY <1>1, <2>1, SourceKept, ZenonT(30)
<1>3. ASSUME NEW d \in DataSent, HandleData(d) PROVE SourceInv'
  <2> DEFINE p == d.peer
             w == RecvSeqWrite(d.sid, d.seq, d.msg)
  <2>1. /\ rWrites' = [rWrites EXCEPT ![p] = Append(@, w)]
        /\ d.seq > recvSeq[p][d.sid]
        /\ log' = log /\ logging' = logging /\ net' = net
    BY <1>3, ZenonT(30) DEF HandleData, CheckRecvSequence
  <2>2. p \in Peers /\ d.sid \in Sids /\ d.seq \in Nat
    BY <1>1, ZenonT(30) DEF DataPackets
  <2>3. d.seq > 0
    BY <1>0, <2>1, <2>2, SMTT(30)
  <2>4. FromData(DataSent, p, w)
    BY <2>3, ZenonT(30) DEF FromData, RecvSeqWrite
  <2> HIDE DEF p, w
  <2>5. ASSUME NEW q \in Peers, NEW i \in 1..Len(rWrites'[q])
        PROVE  \/ \E j \in 1..Len(rWrites[q]) : rWrites'[q][i] = rWrites[q][j]
               \/ FromData(DataSent, q, rWrites'[q][i])
    <3>1. CASE q = p
      <4>1. rWrites'[q] = Append(rWrites[q], w) /\ rWrites[q] \in Seq(RWrites)
        BY <1>0, <2>1, <3>1, ZenonT(30)
      <4>2. \/ i \in 1..Len(rWrites[q]) /\ rWrites'[q][i] = rWrites[q][i]
            \/ rWrites'[q][i] = w
        BY <4>1, SMTT(30)
      <4>3. QED
        BY <2>4, <3>1, <4>2, ZenonT(30)
    <3>2. CASE q # p
      BY <1>0, <2>1, <3>2, ZenonT(30)
    <3>3. QED
      BY <3>1, <3>2, Zenon
  <2>6. AppAcksSent' = AppAcksSent
    BY <2>1, Zenon DEF AppAcksSent
  <2>7. QED
    BY <1>1, <2>1, <2>5, <2>6, SourceKept, ZenonT(30)
<1>4. ASSUME NEW p \in Peers, RecvRowSaved(p) PROVE SourceInv'
  <2>1. /\ rWrites[p] # <<>> /\ rWrites' = [rWrites EXCEPT ![p] = Tail(@)]
        /\ log' = log /\ logging' = logging /\ net' = net
    BY <1>4, ZenonT(30) DEF RecvRowSaved
  <2>2. \A q \in Peers : \A i \in 1..Len(rWrites'[q]) :
            \E j \in 1..Len(rWrites[q]) : rWrites'[q][i] = rWrites[q][j]
    <3>1. \A i \in 1..Len(Tail(rWrites[p])) :
              i + 1 \in 1..Len(rWrites[p]) /\ Tail(rWrites[p])[i] = rWrites[p][i + 1]
      BY <1>0, <2>1, SMTT(30)
    <3>2. /\ rWrites'[p] = Tail(rWrites[p])
          /\ \A q \in Peers : q # p => rWrites'[q] = rWrites[q]
      BY <1>0, <2>1, ZenonT(30)
    <3>3. QED
      BY <3>1, <3>2, ZenonT(30)
  <2>3. AppAcksSent' = AppAcksSent
    BY <2>1, Zenon DEF AppAcksSent
  <2>4. QED
    BY <1>1, <2>1, <2>2, <2>3, SourceKept, ZenonT(30)
<1>5. ASSUME NEW p \in Peers, RecvSeqSavedAndAcked(p) PROVE SourceInv'
  <2> DEFINE w == Head(rWrites[p])
             r == [sid |-> w.sid, seq |-> w.seq, msg |-> w.msg]
  <2>1. /\ rWrites[p] # <<>> /\ rWrites' = [rWrites EXCEPT ![p] = Tail(@)]
        /\ w.op = "recv" /\ log' = log
        /\ logging' = [logging EXCEPT ![p] = <<r>>]
        /\ net' = net \cup {AckPacket(p, w.sid, w.seq)}
    BY <1>5, ZenonT(30) DEF RecvSeqSavedAndAcked, Send
  <2>2. \A q \in Peers : \A i \in 1..Len(rWrites'[q]) :
            \E j \in 1..Len(rWrites[q]) : rWrites'[q][i] = rWrites[q][j]
    <3>1. \A i \in 1..Len(Tail(rWrites[p])) :
              i + 1 \in 1..Len(rWrites[p]) /\ Tail(rWrites[p])[i] = rWrites[p][i + 1]
      BY <1>0, <2>1, SMTT(30)
    <3>2. /\ rWrites'[p] = Tail(rWrites[p])
          /\ \A q \in Peers : q # p => rWrites'[q] = rWrites[q]
      BY <1>0, <2>1, ZenonT(30)
    <3>3. QED
      BY <3>1, <3>2, ZenonT(30)
  <2>3. FromData(DataSent, p, r)
    <3>1. w = rWrites[p][1] /\ 1 \in 1..Len(rWrites[p])
      BY <1>0, <2>1, SMTT(30)
    <3>2. FromData(DataSent, p, w)
      BY <2>1, <3>1, ZenonT(30) DEF SourceInv
    <3>3. QED
      BY <3>2, ZenonT(30) DEF FromData
  <2>4. AppAcksSent' \subseteq AppAcksSent /\ net \subseteq net'
    BY <2>1, SMTT(30) DEF AppAcksSent, AckPacket
  <2> HIDE DEF w, r
  <2>5. \A q \in Peers : \/ logging'[q] = logging[q]
                         \/ \A i \in 1..Len(logging'[q]) :
                               FromData(DataSent, q, logging'[q][i])
    <3>1. logging'[p] = <<r>> /\ \A q \in Peers : q # p => logging'[q] = logging[q]
      BY <1>0, <2>1, ZenonT(30)
    <3>2. \A i \in 1..Len(<<r>>) : <<r>>[i] = r
      BY SMTT(30)
    <3>3. QED
      BY <2>3, <3>1, <3>2, ZenonT(30)
  <2>6. QED
    BY <1>1, <2>1, <2>2, <2>4, <2>5, SourceKept, ZenonT(30)
<1>6. ASSUME NEW p \in Peers, LogAndShow(p) PROVE SourceInv'
  <2> DEFINE r == Head(logging[p])
             ack == AppAckPacket(p, r.sid, r.seq)
  <2>1. /\ logging[p] # <<>> /\ log' = [log EXCEPT ![p] = Append(@, r)]
        /\ logging' = [logging EXCEPT ![p] = <<>>] /\ rWrites' = rWrites
        /\ net' = net \cup {ack}
    BY <1>6, ZenonT(30) DEF LogAndShow, Send
  <2>2. FromData(DataSent, p, r)
    <3>1. r = logging[p][1] /\ 1 \in 1..Len(logging[p])
      BY <1>0, <2>1, SMTT(30)
    <3>2. QED
      BY <3>1, ZenonT(30) DEF SourceInv
  <2>3. /\ ack.peer = p /\ ack.sid = r.sid /\ ack.seq = r.seq
    BY ZenonT(30) DEF AppAckPacket
  <2> HIDE DEF r, ack
  <2>4. /\ log'[p] = Append(log[p], r) /\ logging'[p] = <<>>
        /\ \A q \in Peers : q # p => log'[q] = log[q] /\ logging'[q] = logging[q]
    BY <1>0, <2>1, ZenonT(30)
  <2>5. /\ \A i \in 1..Len(log'[p]) :
              (i \in 1..Len(log[p]) /\ log'[p][i] = log[p][i]) \/ log'[p][i] = r
        /\ \A i \in 1..Len(log[p]) : i \in 1..Len(log'[p]) /\ log'[p][i] = log[p][i]
        /\ Len(log'[p]) \in 1..Len(log'[p]) /\ log'[p][Len(log'[p])] = r
        /\ \A i \in 1..Len(logging'[p]) : FALSE
    BY <1>0, <2>4, SMTT(30)
  <2>6. ASSUME NEW q \in Peers
        PROVE  /\ \A i \in 1..Len(log'[q]) :
                     (i \in 1..Len(log[q]) /\ log'[q][i] = log[q][i])
                         \/ FromData(DataSent, q, log'[q][i])
               /\ \A i \in 1..Len(log[q]) :
                     i \in 1..Len(log'[q]) /\ log'[q][i] = log[q][i]
               /\ logging'[q] = logging[q]
                     \/ \A i \in 1..Len(logging'[q]) :
                           FromData(DataSent, q, logging'[q][i])
    <3>1. CASE q = p
      BY <2>2, <2>5, <3>1, ZenonT(30)
    <3>2. CASE q # p
      BY <2>4, <3>2, ZenonT(30)
    <3>3. QED
      BY <3>1, <3>2, Zenon
  <2>7. ASSUME NEW a \in AppAcksSent'
        PROVE  \/ a \in AppAcksSent /\ a.peer \in Peers
               \/ \E i \in 1..Len(log'[a.peer]) :
                     log'[a.peer][i].sid = a.sid /\ log'[a.peer][i].seq = a.seq
    <3>1. a \in AppAcksSent \/ a = ack
      BY <2>1, ZenonT(30) DEF AppAcksSent
    <3>2. QED
      BY <1>1, <2>3, <2>5, <3>1, ZenonT(30)
  <2>8. net \subseteq net'
    BY <2>1, Zenon
  <2>9. QED
    BY <2>1, <2>6, <2>7, <2>8, SourceKept, ZenonT(30)
<1>7. ASSUME NEW p \in Peers, NEW k \in Sids, RegisterRecv(p, k) PROVE SourceInv'
  <2> DEFINE w == RecvRowWrite(k, recvFloor[p])
  <2>1. /\ rWrites' = [rWrites EXCEPT ![p] = Append(@, w)]
        /\ log' = log /\ logging' = logging /\ net' = net
    BY <1>7, ZenonT(30) DEF RegisterRecv
  <2>2. w.op # "recv"
    BY ZenonT(30) DEF RecvRowWrite
  <2> HIDE DEF w
  <2>3. ASSUME NEW q \in Peers, NEW i \in 1..Len(rWrites'[q]),
               rWrites'[q][i].op = "recv"
        PROVE  \E j \in 1..Len(rWrites[q]) : rWrites'[q][i] = rWrites[q][j]
    <3>1. CASE q = p
      <4>1. rWrites'[q] = Append(rWrites[q], w) /\ rWrites[q] \in Seq(RWrites)
        BY <1>0, <2>1, <3>1, ZenonT(30)
      <4>2. \/ i \in 1..Len(rWrites[q]) /\ rWrites'[q][i] = rWrites[q][i]
            \/ rWrites'[q][i] = w
        BY <4>1, SMTT(30)
      <4>3. QED
        BY <2>2, <2>3, <4>2, ZenonT(30)
    <3>2. CASE q # p
      BY <1>0, <2>1, <3>2, ZenonT(30)
    <3>3. QED
      BY <3>1, <3>2, Zenon
  <2>4. AppAcksSent' = AppAcksSent
    BY <2>1, Zenon DEF AppAcksSent
  <2>5. QED
    BY <1>1, <2>1, <2>3, <2>4, SourceKept, ZenonT(30)
<1>8. ASSUME NEW p \in Peers, ReceiverCrashes(p) PROVE SourceInv'
  <2>1. /\ rWrites' = [rWrites EXCEPT ![p] = <<>>]
        /\ logging' = [logging EXCEPT ![p] = <<>>]
        /\ log' = log /\ net' = net
    BY <1>8, ZenonT(30) DEF ReceiverCrashes, RestartReceiver
  <2>2. \A q \in Peers : /\ rWrites'[q] = rWrites[q] \/ rWrites'[q] = <<>>
                         /\ logging'[q] = logging[q] \/ logging'[q] = <<>>
    BY <1>0, <2>1, ZenonT(30)
  <2>3. \A i \in 1..Len(<<>>) : FALSE
    BY SMTT(30)
  <2>4. /\ \A q \in Peers : \A i \in 1..Len(rWrites'[q]) :
              \E j \in 1..Len(rWrites[q]) : rWrites'[q][i] = rWrites[q][j]
        /\ \A q \in Peers : \/ logging'[q] = logging[q]
                            \/ \A i \in 1..Len(logging'[q]) :
                                  FromData(DataSent, q, logging'[q][i])
    BY <2>2, <2>3, ZenonT(30)
  <2>5. AppAcksSent' = AppAcksSent
    BY <2>1, Zenon DEF AppAcksSent
  <2>6. QED
    BY <1>1, <2>1, <2>4, <2>5, SourceKept, ZenonT(30)
<1>9. QED
  BY <1>2, <1>3, <1>4, <1>5, <1>6, <1>7, <1>8, ReceiverMoves, ZenonT(30)

-----------------------------------------------------------------------------
(***************************************************************************)
(* What the sender shows of a message, and what the table and the writes   *)
(* on their way to it say.                                                 *)
(***************************************************************************)

\* The writes ws hold that m was acknowledged.
SaysAck(w, m) == w.op = "status" /\ w.msg = m /\ w.status = "acknowledged"
Acknowledges(ws, m) == \E i \in 1..Len(ws) : SaysAck(ws[i], m)

\* A queue says what it said, and what a write that joins it says.
LEMMA AcknowledgesIn ==
    ASSUME NEW ws \in Seq(Writes), NEW m
    PROVE  /\ ~Acknowledges(<<>>, m)
           /\ ws # <<>> /\ Acknowledges(Tail(ws), m) => Acknowledges(ws, m)
           /\ \A w : Acknowledges(Append(ws, w), m) =>
                 Acknowledges(ws, m) \/ SaysAck(w, m)
           /\ ws # <<>> /\ SaysAck(Head(ws), m) => Acknowledges(ws, m)
<1>1. ~Acknowledges(<<>>, m)
  BY SMTT(30) DEF Acknowledges
<1>2. ASSUME ws # <<>>
      PROVE  /\ Acknowledges(Tail(ws), m) => Acknowledges(ws, m)
             /\ SaysAck(Head(ws), m) => Acknowledges(ws, m)
  <2>1. /\ \A i \in 1..Len(Tail(ws)) :
              i + 1 \in 1..Len(ws) /\ Tail(ws)[i] = ws[i + 1]
        /\ 1 \in 1..Len(ws) /\ Head(ws) = ws[1]
    BY <1>2, SMTT(30)
  <2>2. QED
    BY <2>1, ZenonT(30) DEF Acknowledges
<1>3. ASSUME NEW w, Acknowledges(Append(ws, w), m)
      PROVE  Acknowledges(ws, m) \/ SaysAck(w, m)
  <2> DEFINE vs == Append(ws, w)
  <2>1. \A i \in 1..Len(vs) : (i \in 1..Len(ws) /\ vs[i] = ws[i]) \/ vs[i] = w
    BY AppendIn, ZenonT(30)
  <2>2. Acknowledges(vs, m)
    BY <1>3, ZenonT(30)
  <2> HIDE DEF vs
  <2>3. QED
    BY <2>1, <2>2, ZenonT(30) DEF Acknowledges
<1>4. QED
  BY <1>1, <1>2, <1>3, ZenonT(30)

\* build_data_packet marks its message pending.
LEMMA BuildStatus ==
    ASSUME TypeInv, NEW m \in Msgs, NEW e \in Entries, NEW k, NEW task, NEW flow,
           NEW ws \in Seq(Writes), BuildAndPersist(m, e, k, task, flow, ws)
    PROVE  /\ queue'[m].status = "pending"
           /\ \A n \in Msgs : n # m => queue'[n] = queue[n]
           /\ \A n \in Msgs : Acknowledges(writes', n) => Acknowledges(ws, n)
<1> DEFINE x == sendSeq[To[m]][k]
           b == [e EXCEPT !.status = "pending", !.seq = x, !.timed = TRUE]
           w == SendSeqWrite(DataPacket(To[m], k, x, m, "queue"),
                             NextSequence(To[m], k))
<1>1. queue' = [queue EXCEPT ![m] = b] /\ writes' = Append(ws, w)
  BY ZenonT(30) DEF BuildAndPersist
<1>2. b.status = "pending"
  BY ZenonT(30) DEF Entries
<1>3. w.op = "send"
  BY ZenonT(30) DEF SendSeqWrite
<1> HIDE DEF x, b, w
<1>4. queue'[m] = b /\ \A n \in Msgs : n # m => queue'[n] = queue[n]
  BY <1>1, ZenonT(30) DEF TypeInv, TypeOK, SenderTypeOK
<1>5. ASSUME NEW n \in Msgs, Acknowledges(writes', n) PROVE Acknowledges(ws, n)
  <2>1. ~SaysAck(w, n)
    BY <1>3, ZenonT(30) DEF SaysAck
  <2>2. QED
    BY <1>1, <1>5, <2>1, AcknowledgesIn, ZenonT(30)
<1>6. QED
  BY <1>2, <1>4, <1>5, ZenonT(30)

\* handle_timeout takes a message back, whatever its status.
LEMMA TimeoutStatus ==
    ASSUME TypeInv, NEW m \in Msgs, HandleTimeout(m)
    PROVE  /\ queue'[m].status \in {"queued", "pending", "failed"}
           /\ \A n \in Msgs : n # m => queue'[n] = queue[n]
           /\ \A n \in Msgs : Acknowledges(writes', n) => Acknowledges(writes, n)
<1> DEFINE i == queue[m].retries + 1
           k == sSession[To[m]]
           timedOut(st) == [queue[m] EXCEPT !.retries = i, !.status = st]
<1>0. /\ queue \in [Msgs -> Entries] /\ queue[m] \in Entries
      /\ writes \in Seq(Writes) /\ i \in Nat
  BY Successor, Ordered, ZenonT(30) DEF TypeInv, TypeOK, SenderTypeOK, Entries
<1>1. ASSUME NEW st \in Statuses
      PROVE  timedOut(st) \in Entries /\ timedOut(st).status = st
  <2>1. \A e \in Entries, j \in Nat :
            [e EXCEPT !.retries = j, !.status = st] \in Entries
    BY Zenon DEF Entries
  <2>2. \A e \in Entries, j \in Nat :
            [e EXCEPT !.retries = j, !.status = st].status = st
    BY ZenonT(30) DEF Entries
  <2>3. QED
    BY <1>0, <2>1, <2>2, ZenonT(30)
<1>2. CASE /\ queue' = [queue EXCEPT ![m] = timedOut("failed")]
           /\ writes' = Append(writes, StatusWrite(m, "failed"))
  <2>1. "failed" \in Statuses /\ StatusWrite(m, "failed").status = "failed"
    BY ZenonT(30) DEF Statuses, StatusWrite
  <2>2. queue'[m] = timedOut("failed") /\ \A n \in Msgs : n # m => queue'[n] = queue[n]
    BY <1>0, <1>2, ZenonT(30)
  <2>3. ASSUME NEW n \in Msgs, Acknowledges(writes', n) PROVE Acknowledges(writes, n)
    <3>1. ~SaysAck(StatusWrite(m, "failed"), n)
      BY <2>1, ZenonT(30) DEF SaysAck
    <3>2. QED
      BY <1>0, <1>2, <2>3, <3>1, AcknowledgesIn, ZenonT(30)
  <2>4. QED
    BY <1>1, <2>1, <2>2, <2>3, ZenonT(30)
<1>3. CASE /\ queue' = [queue EXCEPT ![m] = timedOut("queued")]
           /\ UNCHANGED writes
  <2>1. "queued" \in Statuses
    BY ZenonT(30) DEF Statuses
  <2>2. queue'[m] = timedOut("queued") /\ \A n \in Msgs : n # m => queue'[n] = queue[n]
    BY <1>0, <1>3, ZenonT(30)
  <2>3. QED
    BY <1>1, <1>3, <2>1, <2>2, ZenonT(30)
<1>4. CASE BuildAndPersist(m, timedOut("queued"), k, "retry", 0, writes)
  <2>1. timedOut("queued") \in Entries
    BY <1>1, ZenonT(30) DEF Statuses
  <2>2. PICK e \in Entries : e = timedOut("queued")
    BY <2>1, ZenonT(30)
  <2>3. BuildAndPersist(m, e, k, "retry", 0, writes)
    BY <1>4, <2>2, ZenonT(30)
  <2> HIDE DEF k, timedOut
  <2>4. QED
    BY <1>0, <2>3, BuildStatus, ZenonT(30)
<1>5. QED
  BY <1>2, <1>3, <1>4, ZenonT(30) DEF HandleTimeout

\* A step in which the sender reports nothing and takes nothing back.
ReportsRest ==
    /\ UNCHANGED sent
    /\ \A n \in Msgs :
          /\ \/ queue'[n].status = queue[n].status
             \/ queue[n].status = "queued" /\ queue'[n].status = "pending"
          /\ queueRow'[n].status = "acknowledged" =>
                queueRow[n].status = "acknowledged" \/ Acknowledges(writes, n)
          /\ Acknowledges(writes', n) => Acknowledges(writes, n)

\* The steps in which it does.
LEMMA SenderMoves ==
    ASSUME TypeInv, [Next]_vars
    PROVE  \/ ReportsRest
           \/ SendMessage
           \/ \E a \in AcksSent : HandleAck(a)
           \/ \E a \in AppAcksSent : HandleAppAck(a)
           \/ \E m \in Msgs : HandleTimeout(m) /\ UNCHANGED <<sent, queueRow>>
           \/ SenderCrashes
<1>0. /\ queue \in [Msgs -> Entries] /\ writes \in Seq(Writes)
      /\ queueRow \in [Msgs -> Rows] /\ Msgs \subseteq Nat
      /\ \A m \in Msgs : queue[m] \in Entries /\ queueRow[m] \in Rows
  <2>1. /\ queue \in [Msgs -> Entries] /\ writes \in Seq(Writes)
        /\ queueRow \in [Msgs -> Rows]
    BY Zenon DEF TypeInv, TypeOK, SenderTypeOK
  <2>2. Msgs \subseteq Nat
    BY WireAssumption DEF Msgs
  <2>3. QED
    BY <2>1, <2>2, ZenonT(30)
<1>a. ASSUME UNCHANGED <<sent, queue, queueRow, writes>> PROVE ReportsRest
  BY <1>a, ZenonT(30) DEF ReportsRest
<1>b. ASSUME writes # <<>>
      PROVE  /\ Head(writes) \in Writes /\ Tail(writes) \in Seq(Writes)
             /\ \A n : Acknowledges(Tail(writes), n) => Acknowledges(writes, n)
             /\ \A n : SaysAck(Head(writes), n) => Acknowledges(writes, n)
  BY <1>0, <1>b, HeadAndTail, AcknowledgesIn, ZenonT(30)
<1>c. ASSUME writes # <<>>, NEW w, ~\E n : SaysAck(w, n),
             writes' = Append(Tail(writes), w), NEW n
      PROVE  Acknowledges(writes', n) => Acknowledges(writes, n)
  BY <1>b, <1>c, AcknowledgesIn, ZenonT(30)
<1>1. CASE MessageInserted
  <2> DEFINE m == Head(writes).msg
             k == inserting[m]
  <2>1. writes # <<>> /\ Head(writes).op = "insert" /\ UNCHANGED sent
    BY <1>1, Zenon DEF MessageInserted
  <2>2. m \in Msgs
    BY <1>b, <2>1, WriteParts, ZenonT(30)
  <2>3. \A n \in Msgs : queueRow'[n].status = "acknowledged" =>
                            queueRow[n].status = "acknowledged"
    <3>1. queueRow' = [queueRow EXCEPT ![m] = [status |-> "queued", seq |-> 0]]
      BY <1>1, Zenon DEF MessageInserted
    <3> HIDE DEF m
    <3>2. QED
      BY <1>0, <2>2, <3>1, ZenonT(30)
  <2>4. CASE /\ queue[m].status = "queued"
             /\ BuildAndPersist(m, queue[m], k, "send", 0, Tail(writes))
    <3>1. PICK i \in Msgs : i = m
      BY <2>2, ZenonT(30)
    <3>2. queue[i].status = "queued" /\ BuildAndPersist(i, queue[i], k, "send", 0, Tail(writes))
      BY <2>4, <3>1, ZenonT(30)
    <3> HIDE DEF m, k
    <3>3. /\ queue'[i].status = "pending"
          /\ \A n \in Msgs : n # i => queue'[n] = queue[n]
          /\ \A n \in Msgs : Acknowledges(writes', n) => Acknowledges(Tail(writes), n)
      BY <1>0, <1>b, <2>1, <3>2, BuildStatus, ZenonT(30)
    <3>4. QED
      BY <1>b, <2>1, <2>3, <3>2, <3>3, ZenonT(30) DEF ReportsRest
  <2>5. CASE writes' = Tail(writes) /\ UNCHANGED queue
    BY <1>b, <2>1, <2>3, <2>5, ZenonT(30) DEF ReportsRest
  <2>6. \/ /\ queue[m].status = "queued"
           /\ BuildAndPersist(m, queue[m], k, "send", 0, Tail(writes))
        \/ writes' = Tail(writes) /\ UNCHANGED queue
    BY <1>1, ZenonT(30) DEF MessageInserted
  <2>7. QED
    BY <2>4, <2>5, <2>6, Zenon
<1>2. CASE SendSeqSaved
  <2> DEFINE w == MsgSeqWrite(Head(writes).pkt)
  <2>1. /\ writes # <<>> /\ writes' = Append(Tail(writes), w)
        /\ UNCHANGED <<sent, queue, queueRow>>
    BY <1>2, ZenonT(30) DEF SendSeqSaved, senderMem
  <2>2. ~\E n : SaysAck(w, n)
    BY ZenonT(30) DEF MsgSeqWrite, SaysAck
  <2> HIDE DEF w
  <2>3. QED
    BY <1>c, <2>1, <2>2, ZenonT(30) DEF ReportsRest
<1>3. CASE MsgSeqSaved
  <2> DEFINE d == Head(writes).pkt
             w == PendingWrite(d)
  <2>1. /\ writes # <<>> /\ writes' = Append(Tail(writes), w)
        /\ queueRow' = [queueRow EXCEPT ![d.msg].seq = d.seq]
        /\ UNCHANGED <<sent, queue>>
    BY <1>3, ZenonT(30) DEF MsgSeqSaved, senderMem
  <2>2. ~\E n : SaysAck(w, n)
    BY ZenonT(30) DEF PendingWrite, SaysAck
  <2> HIDE DEF w, d
  <2>3. \A n \in Msgs : queueRow'[n].status = queueRow[n].status
    BY <1>0, <2>1, ZenonT(30) DEF Rows
  <2>4. QED
    BY <1>c, <2>1, <2>2, <2>3, ZenonT(30) DEF ReportsRest
<1>4. CASE PendingSavedAndSent
  <2> DEFINE d == Head(writes).pkt
  <2>1. /\ writes # <<>> /\ writes' = Tail(writes)
        /\ queueRow' = [queueRow EXCEPT ![d.msg].status = "pending"]
        /\ UNCHANGED <<sent, queue>>
    BY <1>4, ZenonT(30) DEF PendingSavedAndSent
  <2> HIDE DEF d
  <2>2. \A n \in Msgs : queueRow'[n].status \in {"pending", queueRow[n].status}
    BY <1>0, <2>1, ZenonT(30) DEF Rows
  <2>3. QED
    BY <1>b, <2>1, <2>2, ZenonT(30) DEF ReportsRest
<1>5. CASE StatusSaved
  <2> DEFINE w == Head(writes)
  <2>1. /\ writes # <<>> /\ writes' = Tail(writes) /\ w.op = "status"
        /\ queueRow' = [queueRow EXCEPT ![w.msg].status = w.status]
        /\ UNCHANGED <<sent, queue>>
    BY <1>5, ZenonT(30) DEF StatusSaved, senderMem
  <2> HIDE DEF w
  <2>2. ASSUME NEW n \in Msgs, queueRow'[n].status = "acknowledged"
        PROVE  queueRow[n].status = "acknowledged" \/ SaysAck(w, n)
    <3>1. CASE n = w.msg
      <4>1. queueRow'[n].status = w.status
        BY <1>0, <2>1, <3>1, ZenonT(30) DEF Rows
      <4>2. QED
        BY <2>1, <2>2, <3>1, <4>1, ZenonT(30) DEF SaysAck
    <3>2. CASE n # w.msg
      BY <1>0, <2>1, <2>2, <3>2, ZenonT(30)
    <3>3. QED
      BY <3>1, <3>2, Zenon
  <2>3. \A n : SaysAck(w, n) => Acknowledges(writes, n)
    BY <1>b, <2>1, ZenonT(30) DEF w
  <2>4. QED
    BY <1>b, <2>1, <2>2, <2>3, ZenonT(30) DEF ReportsRest
<1>6. CASE SendRowSaved
  <2>1. /\ writes # <<>> /\ writes' = Tail(writes)
        /\ UNCHANGED <<sent, queue, queueRow>>
    BY <1>6, ZenonT(30) DEF SendRowSaved
  <2>2. QED
    BY <1>b, <2>1, ZenonT(30) DEF ReportsRest
<1>7. ASSUME NEW p \in Peers, NEW k \in Sids, FlushStart(p, k) PROVE ReportsRest
  BY <1>7, <1>a, ZenonT(30) DEF FlushStart
<1>8. ASSUME NEW p \in Peers, NEW k \in Sids, FlushStep(p, k) PROVE ReportsRest
  <2> DEFINE f == flush[p][k]
             left == f.todo \cap QueuedFor(p)
             m == First(left)
  <2>1. UNCHANGED <<sent, queueRow>>
    BY <1>8, ZenonT(30) DEF FlushStep
  <2>2. CASE left # {} /\ BuildAndPersist(m, queue[m], f.sid, "flush", k, writes)
    <3>1. left \subseteq Nat
      BY <1>0, ZenonT(30) DEF QueuedFor
    <3>2. m \in left
      BY <2>2, <3>1, FirstIn, Zenon
    <3>3. m \in Msgs /\ queue[m].status = "queued"
      BY <3>2, ZenonT(30) DEF QueuedFor
    <3>4. PICK i \in Msgs : i = m
      BY <3>3, ZenonT(30)
    <3>5. /\ queue[i].status = "queued"
          /\ BuildAndPersist(i, queue[i], f.sid, "flush", k, writes)
      BY <2>2, <3>3, <3>4, ZenonT(30)
    <3> HIDE DEF m, left, f
    <3>6. /\ queue'[i].status = "pending"
          /\ \A n \in Msgs : n # i => queue'[n] = queue[n]
          /\ \A n \in Msgs : Acknowledges(writes', n) => Acknowledges(writes, n)
      BY <1>0, <3>5, BuildStatus, ZenonT(30)
    <3>7. QED
      BY <2>1, <3>5, <3>6, ZenonT(30) DEF ReportsRest
  <2>3. CASE UNCHANGED <<queue, writes>>
    BY <1>a, <2>1, <2>3, Zenon
  <2>4. QED
    BY <1>8, <2>2, <2>3, ZenonT(30) DEF FlushStep
<1>9. ASSUME RetryScan
      PROVE  \E m \in Msgs : HandleTimeout(m) /\ UNCHANGED <<sent, queueRow>>
  <2>1. PICK T \in SUBSET {m \in Msgs : MayTimeOut(m)} :
             T # {} /\ HandleTimeout(First(T))
    BY <1>9, ZenonT(30) DEF RetryScan
  <2>2. T \subseteq Nat
    BY <1>0, Zenon
  <2>3. First(T) \in T
    BY <2>1, <2>2, FirstIn, Zenon
  <2>4. First(T) \in Msgs
    BY <2>3, Zenon
  <2>5. UNCHANGED <<sent, queueRow>>
    BY <1>9, ZenonT(30) DEF RetryScan
  <2>6. QED
    BY <2>1, <2>4, <2>5, Zenon
<1>10. ASSUME RetryNext
       PROVE  \E m \in Msgs : HandleTimeout(m) /\ UNCHANGED <<sent, queueRow>>
  <2>1. /\ retry # {} /\ HandleTimeout(First(retry)) /\ UNCHANGED <<sent, queueRow>>
    BY <1>10, ZenonT(30) DEF RetryNext
  <2>2. retry \subseteq Msgs
    BY Zenon DEF TypeInv, TypeOK, SenderTypeOK
  <2>3. First(retry) \in retry
    BY <1>0, <2>1, <2>2, FirstIn, Zenon
  <2>4. QED
    BY <2>1, <2>2, <2>3, Zenon
<1>11. ASSUME NEW y, HandleSync(y) PROVE ReportsRest
  <2>1. PICK S : queue' = [n \in Msgs |-> IF n \in S
                                          THEN [queue[n] EXCEPT !.timed = TRUE]
                                          ELSE queue[n]]
    BY <1>11, ZenonT(30) DEF HandleSync
  <2>2. UNCHANGED <<sent, writes, queueRow>>
    BY <1>11, ZenonT(30) DEF HandleSync
  <2>3. \A n \in Msgs : queue'[n].status = queue[n].status
    BY <1>0, <2>1, ZenonT(30) DEF Entries
  <2>4. QED
    BY <2>2, <2>3, ZenonT(30) DEF ReportsRest
<1>12. CASE UNCHANGED senderVars
  BY <1>12, <1>a, Zenon DEF senderVars
<1>13. ASSUME NEW p \in Peers, NEW k, RegisterSend(p, k) PROVE ReportsRest
  <2> DEFINE w == RowWrite(p, k, Larger(1, sendFloor[p]))
  <2>1. writes' = Append(writes, w) /\ UNCHANGED <<sent, queue, queueRow>>
    BY <1>13, ZenonT(30) DEF RegisterSend
  <2>2. ~\E n : SaysAck(w, n)
    BY ZenonT(30) DEF RowWrite, SaysAck
  <2> HIDE DEF w
  <2>3. QED
    BY <1>0, <2>1, <2>2, AcknowledgesIn, ZenonT(30) DEF ReportsRest
<1>14. ASSUME NEW p \in Peers, DropSendSession(p) PROVE ReportsRest
  BY <1>14, <1>a, ZenonT(30) DEF DropSendSession
<1>15. CASE /\ SendMessage \/ SenderWorks \/ SenderHears
            /\ UNCHANGED <<receiverVars, handshakeVars>>
  BY <1>15, <1>1, <1>2, <1>3, <1>4, <1>5, <1>6, <1>7, <1>8, <1>9, <1>10, <1>11,
     ZenonT(30)
  DEF SenderWorks, SenderHears
<1>16. CASE Handshakes
  BY <1>16, <1>12, <1>13, ZenonT(30)
  DEF Handshakes, SenderAnswersHello, ReceiverAnswersHello, SenderTakesHelloAck,
      ReceiverTakesHelloAck
<1>17. CASE FaultsHappen
  BY <1>17, <1>12, <1>14, ZenonT(30)
  DEF FaultsHappen, SenderLosesPeer, ReceiverLosesPeer, ReceiverCrashes
<1>18. CASE UNCHANGED vars
  BY <1>18, <1>12, Zenon DEF vars
<1>19. QED
  BY <1>12, <1>15, <1>16, <1>17, <1>18, ZenonT(30) DEF Next

-----------------------------------------------------------------------------
(***************************************************************************)
(* Acknowledged messages.  The status goes through the database thread and *)
(* comes back with a restart, so all three places where it lives count.    *)
(***************************************************************************)
MarkedAcknowledged(m) ==
    \/ queue[m].status = "acknowledged"
    \/ queueRow[m].status = "acknowledged"
    \/ Acknowledges(writes, m)

AckLogged == \A m \in Msgs : MarkedAcknowledged(m) => m \in Entered(To[m])

\* Nothing that is in a log is taken out of it.
LEMMA LogGrows ==
    ASSUME TypeInv, [Next]_vars, NEW p \in Peers
    PROVE  Entered(p) \subseteq Entered(p)'
<1>0. log \in [Peers -> Seq(Received)] /\ log[p] \in Seq(Received)
  BY Zenon DEF TypeInv, TypeOK, ReceiverTypeOK
<1>1. CASE UNCHANGED log
  BY <1>1, Zenon DEF Entered
<1>2. ASSUME NEW q \in Peers, LogAndShow(q) PROVE Entered(p) \subseteq Entered(p)'
  <2> DEFINE r == Head(logging[q])
  <2>1. log' = [log EXCEPT ![q] = Append(log[q], r)]
    BY <1>2, Zenon DEF LogAndShow
  <2> HIDE DEF r
  <2>2. log'[p] = log[p] \/ log'[p] = Append(log[p], r)
    BY <1>0, <2>1, ZenonT(30)
  <2>3. \A i \in 1..Len(log[p]) : i \in 1..Len(log'[p]) /\ log'[p][i] = log[p][i]
    BY <1>0, <2>2
  <2>4. QED
    BY <2>3, Zenon DEF Entered
<1>3. ASSUME \/ ReceiversRest
             \/ \E d \in DataSent : HandleData(d)
             \/ \E q \in Peers : \/ RecvRowSaved(q)
                                 \/ RecvSeqSavedAndAcked(q)
                                 \/ \E k \in Sids : RegisterRecv(q, k)
                                 \/ ReceiverCrashes(q)
      PROVE  UNCHANGED log
  BY <1>3, ZenonT(30)
  DEF ReceiversRest, HandleData, RecvRowSaved, RecvSeqSavedAndAcked,
      RegisterRecv, ReceiverCrashes, RestartReceiver
<1>4. QED
  BY <1>1, <1>2, <1>3, ReceiverMoves, ZenonT(30)

\* The entry an APP_ACK of the present session names is the message logged
\* under its number.
LEMMA AppAckNames ==
    ASSUME TypeInv, SourceInv, NamesHold, NEW a \in AppAcksSent,
           sSession[a.peer] = a.sid, NEW m \in Msgs, AppAckMatches(m, a)
    PROVE  m \in Entered(a.peer)
<1>1. a.peer \in Peers /\ a.seq \in Nat
  BY ZenonT(30) DEF AppAcksSent, TypeInv, TypeOK, Packets, DataPackets
<1>2. PICK i \in 1..Len(log[a.peer]) :
           log[a.peer][i].sid = a.sid /\ log[a.peer][i].seq = a.seq
  BY Zenon DEF SourceInv
<1> DEFINE r == log[a.peer][i]
<1>3. FromData(DataSent, a.peer, r)
  BY <1>1, Zenon DEF SourceInv
<1>4. r \in Received
  BY <1>1, <1>2, ElementTyped, ZenonT(30) DEF TypeInv, TypeOK, ReceiverTypeOK
<1>5. r.msg \in Msgs /\ a.seq # 0
  BY <1>1, <1>2, <1>3, <1>4, Successor, Ordered, ZenonT(30)
  DEF Received, FromData
<1> HIDE DEF r
<1>6. r.sid = a.sid /\ r.seq = a.seq
  BY <1>2, Zenon DEF r
<1>7. Named(a.peer, a.seq, r.msg)
  BY <1>3, <1>6, ZenonT(30) DEF FromData, Named
<1>8. Named(a.peer, a.seq, m)
  BY <1>5, ZenonT(30) DEF AppAckMatches, Named
<1>9. m = r.msg
  BY <1>1, <1>5, <1>7, <1>8, ZenonT(30) DEF NamesHold
<1>10. QED
  BY <1>9, Zenon DEF Entered, r

\* Every step keeps what is marked acknowledged in the logs.
LEMMA AckLoggedStep ==
    TypeInv /\ SourceInv /\ NamesHold /\ AckLogged /\ [Next]_vars => AckLogged'
<1> SUFFICES ASSUME TypeInv, SourceInv, NamesHold, AckLogged, [Next]_vars,
                    NEW m \in Msgs, MarkedAcknowledged(m)',
                    ~MarkedAcknowledged(m)
             PROVE  m \in Entered(To[m])
  <2>1. \A n \in Msgs : To[n] \in Peers
    BY WireAssumption, Zenon
  <2>2. QED
    BY <2>1, LogGrows, ZenonT(30) DEF AckLogged
<1>0. /\ queue \in [Msgs -> Entries] /\ queueRow \in [Msgs -> Rows]
      /\ writes \in Seq(Writes) /\ queue[m] \in Entries
  BY Zenon DEF TypeInv, TypeOK, SenderTypeOK
<1>1. CASE ReportsRest
  BY <1>1, ZenonT(30) DEF ReportsRest, MarkedAcknowledged
<1>2. CASE SendMessage
  <2> DEFINE n == sent + 1
             w == InsertWrite(n)
             e == [Absent EXCEPT !.status = "queued"]
  <2>1. /\ queue' = [queue EXCEPT ![n] = e] /\ writes' = Append(writes, w)
        /\ UNCHANGED queueRow
    BY <1>2, Zenon DEF SendMessage
  <2>2. e.status = "queued" /\ ~SaysAck(w, m)
    BY ZenonT(30) DEF Absent, InsertWrite, SaysAck
  <2> HIDE DEF n, w, e
  <2>3. queue'[m] = queue[m] \/ queue'[m] = e
    BY <1>0, <2>1, ZenonT(30)
  <2>4. Acknowledges(writes', m) => Acknowledges(writes, m)
    BY <1>0, <2>1, <2>2, AcknowledgesIn, ZenonT(30)
  <2>5. QED
    BY <2>1, <2>2, <2>3, <2>4, ZenonT(30) DEF MarkedAcknowledged
<1>3. ASSUME NEW n, NEW st, queue' = [queue EXCEPT ![n].status = st],
             writes' = Append(writes, StatusWrite(n, st)), UNCHANGED queueRow
      PROVE  m = n /\ st = "acknowledged"
  <2>1. SaysAck(StatusWrite(n, st), m) => m = n /\ st = "acknowledged"
    BY ZenonT(30) DEF SaysAck, StatusWrite
  <2>2. Acknowledges(writes', m) =>
            Acknowledges(writes, m) \/ SaysAck(StatusWrite(n, st), m)
    BY <1>0, <1>3, AcknowledgesIn, ZenonT(30)
  <2>3. queue'[m].status = queue[m].status \/ (m = n /\ queue'[m].status = st)
    BY <1>0, <1>3, ZenonT(30) DEF Entries
  <2>4. QED
    BY <1>3, <2>1, <2>2, <2>3, ZenonT(30) DEF MarkedAcknowledged
<1>4. ASSUME NEW a, HandleAck(a) PROVE FALSE
  <2>1. PICK n : /\ queue' = [queue EXCEPT ![n].status = "delivered"]
                 /\ writes' = Append(writes, StatusWrite(n, "delivered"))
                 /\ UNCHANGED queueRow
    BY <1>4, ZenonT(30) DEF HandleAck
  <2>2. PICK st : st = "delivered"
    BY ZenonT(30)
  <2>3. /\ queue' = [queue EXCEPT ![n].status = st]
        /\ writes' = Append(writes, StatusWrite(n, st)) /\ UNCHANGED queueRow
    BY <2>1, <2>2, Zenon
  <2>4. st = "acknowledged"
    BY <1>3, <2>3, Zenon
  <2>5. QED
    BY <2>2, <2>4, ZenonT(30)
<1>5. ASSUME NEW a \in AppAcksSent, HandleAppAck(a) PROVE m \in Entered(To[m])
  <2> DEFINE match == {x \in Msgs : AppAckMatches(x, a)}
             n == First(match)
  <2>1. /\ queue' = [queue EXCEPT ![n].status = "acknowledged"]
        /\ writes' = Append(writes, StatusWrite(n, "acknowledged"))
        /\ UNCHANGED queueRow
        /\ sSession[a.peer] = a.sid /\ match # {}
    BY <1>5, ZenonT(30) DEF HandleAppAck
  <2>2. match \subseteq Nat
    BY WireAssumption, SMTT(30) DEF Msgs
  <2>3. n \in match
    BY <2>1, <2>2, FirstIn, Zenon
  <2> HIDE DEF n
  <2>4. m = n
    BY <1>3, <2>1, Zenon
  <2>5. AppAckMatches(m, a)
    BY <2>3, <2>4, Zenon
  <2>6. m \in Entered(a.peer)
    BY <2>1, <2>5, AppAckNames, Zenon
  <2>7. QED
    BY <2>5, <2>6, Zenon DEF AppAckMatches
<1>6. ASSUME NEW n \in Msgs, HandleTimeout(n), UNCHANGED queueRow PROVE FALSE
  <2>1. /\ queue'[n].status \in {"queued", "pending", "failed"}
        /\ \A l \in Msgs : l # n => queue'[l] = queue[l]
        /\ Acknowledges(writes', m) => Acknowledges(writes, m)
    BY <1>6, TimeoutStatus, ZenonT(30)
  <2>2. QED
    BY <1>6, <2>1, ZenonT(30) DEF MarkedAcknowledged
<1>7. CASE SenderCrashes
  <2>1. /\ queue' = [n \in Msgs |-> Restored(queueRow[n])]
        /\ writes' = <<>> /\ UNCHANGED queueRow
    BY <1>7, Zenon DEF SenderCrashes, RestartSender
  <2>2. ~Acknowledges(writes', m)
    BY <1>0, <2>1, AcknowledgesIn, Zenon
  <2>3. queue'[m].status = "acknowledged" => queueRow[m].status = "acknowledged"
    BY <2>1, ZenonT(30) DEF Restored, Absent
  <2>4. QED
    BY <2>1, <2>2, <2>3, ZenonT(30) DEF MarkedAcknowledged
<1>8. QED
  BY <1>1, <1>2, <1>4, <1>5, <1>6, <1>7, SenderMoves, ZenonT(30)

\* At the start nothing is logged, said or acknowledged.
LEMMA AckInit == Init => SourceInv /\ AckLogged
<1> SUFFICES ASSUME Init PROVE SourceInv /\ AckLogged
  BY Zenon
<1>1. /\ queue = [m \in Msgs |-> Absent] /\ writes = <<>> /\ net = {}
      /\ queueRow = [m \in Msgs |-> [status |-> "absent", seq |-> 0]]
      /\ rWrites = [p \in Peers |-> <<>>] /\ logging = [p \in Peers |-> <<>>]
      /\ log = [p \in Peers |-> <<>>]
  BY ZenonT(30) DEF Init, SenderInit, ReceiverInit
<1>2. \A p \in Peers : log[p] = <<>> /\ logging[p] = <<>> /\ rWrites[p] = <<>>
  BY <1>1, ZenonT(30)
<1>3. SourceInv
  BY <1>1, <1>2, EmptyQueue, ZenonT(30) DEF SourceInv, AppAcksSent
<1>4. \A m \in Msgs : queue[m].status # "acknowledged"
                       /\ queueRow[m].status # "acknowledged"
  BY <1>1, ZenonT(30) DEF Absent
<1>5. \A m \in Msgs : ~Acknowledges(writes, m)
  BY <1>1, EmptyQueue, ZenonT(30) DEF Acknowledges
<1>6. QED
  BY <1>3, <1>4, <1>5, ZenonT(30) DEF AckLogged, MarkedAcknowledged

\* A message that _handle_app_ack has marked acknowledged is in the log of the
\* peer it is for, through restarts of either node, as long as the sending
\* node does not lose a session while it runs.
THEOREM AcknowledgedWereLogged ==
    ASSUME Budget["sendDrop"] = 0
    PROVE  Spec => []AcknowledgedIsLogged
<1> DEFINE Inv == /\ TypeInv /\ SendInv /\ OnceInv
                  /\ SourceInv /\ AckLogged
<1>1. Init => Inv
  BY TypeInit, SendInit, OnceInit, AckInit, ZenonT(30)
<1>2. Inv /\ [Next]_vars => Inv'
  <2>1. OnceInv => NamesHold
    BY ZenonT(30) DEF OnceInv
  <2>2. QED
    BY <2>1, TypeStep, SendStep, OnceStep, SourceStep, AckLoggedStep, ZenonT(30)
<1>3. Inv => AcknowledgedIsLogged
  BY ZenonT(30) DEF AckLogged, MarkedAcknowledged, AcknowledgedIsLogged
<1>4. QED
  BY <1>1, <1>2, <1>3, PTL DEF Spec
=============================================================================
