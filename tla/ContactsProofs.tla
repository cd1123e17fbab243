--------------------------- MODULE ContactsProofs ---------------------------
(***************************************************************************)
(* For any number of contacts, sessions and overlapping handlers: no       *)
(* session is left with a contact that was removed, without a heartbeat or *)
(* without its row, and the node keeps its session registry consistent and *)
(* within its limit.                                                       *)
(***************************************************************************)
EXTENDS Contacts, SessionRegistryProofs

Suspended == [op : Ops, by : Handlers, peer : Peers, sid : Sids \cup {NoSid}]

\* What the typing of the handlers needs.
TasksOK == table \subseteq Peers /\ tasks \in Seq(Suspended)

(***************************************************************************)
(* The inductive invariant.  A session is dropped through the dictionary   *)
(* by peer and kept in the one by id, so that the agreement of the two     *)
(* (RegistryInv) is what makes remove_peer drop the session of the contact *)
(* it takes out.                                                           *)
(***************************************************************************)
ContactInv ==
    /\ RegistryInv /\ TasksOK
    /\ SessionIsOfContact /\ SessionWatched /\ SessionHasRow

\* The handler at the head of the queue, and what the others become.
LEMMA HeadOfTasks ==
    ASSUME TasksOK, tasks # <<>>
    PROVE  /\ Head(tasks) \in Suspended
           /\ Tail(tasks) \in Seq(Suspended)
           /\ Peer \in Peers
           /\ Head(tasks).sid \in Sids \cup {NoSid}
<1>1. Head(tasks) \in Suspended /\ Tail(tasks) \in Seq(Suspended)
    BY DEF TasksOK
<1> QED
    BY <1>1, Zenon DEF Suspended, Peer

\* Every step leaves well-formed handlers behind.
LEMMA StatementTyped == TasksOK /\ Statement => TasksOK'
<1> SUFFICES ASSUME TasksOK, Statement
             PROVE  TasksOK'
    BY Zenon
<1>1. tasks # <<>>
    BY Zenon
    DEF Statement, At, InsertPeer, Pass, PeerSelected, Remembered, SaveSession,
        SessionSaved, Enqueue, Enqueued, Delete, Deleted
<1>2. /\ Head(tasks) \in Suspended
      /\ Tail(tasks) \in Seq(Suspended)
      /\ Peer \in Peers
    BY <1>1, HeadOfTasks, Zenon
<1>3. table' \subseteq Peers
    BY <1>2, Zenon
    DEF TasksOK, Statement, InsertPeer, Pass, PeerSelected, Remembered,
        SaveSession, SessionSaved, Enqueue, Enqueued, Delete, Deleted,
        AddEntry, memory
<1>4. ASSUME NEW op \in Ops, Then(op)
      PROVE  tasks' \in Seq(Suspended)
    <2>1. [Head(tasks) EXCEPT !.op = op] \in Suspended
        BY <1>2, Zenon DEF Suspended
    <2> QED
        BY <1>2, <1>4, <2>1 DEF Then
<1>5. ASSUME Done
      PROVE  tasks' \in Seq(Suspended)
    BY <1>2, <1>5, Zenon DEF Done
<1>6. ASSUME Connect(Peer)
      PROVE  tasks' \in Seq(Suspended)
    <2>1. Task("remember", "connect", Peer, NoSid) \in Suspended
        BY <1>2, Zenon DEF Task, Suspended, Ops, Handlers
    <2> QED
        BY <1>2, <1>5, <1>6, <2>1 DEF Connect
<1>7. ASSUME Remembered
      PROVE  tasks' \in Seq(Suspended)
    <2>1. ASSUME NEW s \in Sids,
                 tasks' = Append(Tail(tasks), Task("save", "hello", Peer, s))
          PROVE  tasks' \in Seq(Suspended)
        <3>1. Task("save", "hello", Peer, s) \in Suspended
            BY <1>2, Zenon DEF Task, Suspended, Ops, Handlers
        <3> QED
            BY <1>2, <2>1, <3>1
    <2> QED
        BY <1>5, <1>7, <2>1, Zenon DEF Remembered
<1>8. ASSUME PeerSelected \/ Enqueued
      PROVE  tasks' \in Seq(Suspended)
    BY <1>4, <1>5, <1>6, <1>8, Zenon DEF PeerSelected, Enqueued, Ops
<1>9. ASSUME \/ InsertPeer \/ Pass \/ SaveSession \/ SessionSaved \/ Enqueue
             \/ Delete \/ Deleted
      PROVE  tasks' \in Seq(Suspended)
    BY <1>4, <1>5, <1>9, Zenon
    DEF InsertPeer, Pass, SaveSession, SessionSaved, Enqueue, Delete, Deleted,
        Ops
<1> QED
    BY <1>3, <1>7, <1>8, <1>9, Zenon DEF TasksOK, Statement

\* A new call, event or timer starts a well-formed handler.
LEMMA EventTyped ==
    ASSUME TypeOK, TasksOK, NEW p \in Peers,
           \/ Invite(p) \/ SendMessage(p) \/ RemovePeer(p)
           \/ HandleHello(p) \/ HandleHelloAck(p)
           \/ GiveUp(p) \/ PingsMissed(p) \/ Reconnect(p)
    PROVE  TasksOK'
<1>1. table' \subseteq Peers
    BY Zenon
    DEF TasksOK, Invite, SendMessage, RemovePeer, HandleHello, HandleHelloAck,
        GiveUp, PingsMissed, Reconnect, memory
<1>2. ASSUME NEW op \in Ops, NEW by \in Handlers, NEW s \in Sids \cup {NoSid},
             Await(op, by, p, s)
      PROVE  tasks' \in Seq(Suspended)
    <2>1. Task(op, by, p, s) \in Suspended
        BY Zenon DEF Task, Suspended
    <2> QED
        BY <1>2, <2>1 DEF Await, TasksOK
<1>3. byPeer[p] \in Sids \cup {NoSid}
    BY Zenon DEF TypeOK
<1>4. tasks' = tasks => tasks' \in Seq(Suspended)
    BY Zenon DEF TasksOK
<1>5. tasks' \in Seq(Suspended)
    <2>1. CASE Invite(p) \/ SendMessage(p) \/ RemovePeer(p) \/ Reconnect(p)
        BY <1>2, <1>3, <2>1, Zenon
        DEF Invite, SendMessage, RemovePeer, Reconnect, Ops, Handlers
    <2>2. CASE HandleHello(p)
        BY <1>2, <1>4, <2>2, Zenon DEF HandleHello, Ops, Handlers
    <2>3. CASE HandleHelloAck(p)
        BY <1>2, <1>4, <2>3, Zenon DEF HandleHelloAck, Ops, Handlers
    <2>4. CASE GiveUp(p) \/ PingsMissed(p)
        BY <1>4, <2>4, Zenon DEF GiveUp, PingsMissed
    <2> QED
        BY <2>1, <2>2, <2>3, <2>4, Zenon
<1> QED
    BY <1>1, <1>5, Zenon DEF TasksOK

\* A dropped session is one the registry removes.
LEMMA DropMoves ==
    ASSUME TypeOK, NEW p \in Peers, DropSession(p)
    PROVE  [Next]_vars
    BY Zenon DEF TypeOK, DropSession, HasSession, Next, registry, vars

(***************************************************************************)
(* Every step of a handler is a step of the registry, or leaves it alone.  *)
(***************************************************************************)
LEMMA RegistryMoves ==
    ASSUME TypeOK, TasksOK, [ContactNext]_contactVars
    PROVE  [Next]_vars
<1>1. CASE UNCHANGED contactVars
    BY <1>1, Zenon DEF contactVars, registry, vars
<1>2. CASE Remembered \/ Deleted
    <2>1. Peer \in Peers
        BY <1>2, HeadOfTasks, Zenon DEF Remembered, Deleted, At
    <2>2. CASE Remembered
        BY <2>1, <2>2, Zenon DEF Remembered, Next, registry, vars
    <2>3. CASE Deleted
        BY <2>1, <2>3, DropMoves, Zenon DEF Deleted
    <2> QED
        BY <1>2, <2>2, <2>3, Zenon
<1>3. CASE Statement /\ ~(Remembered \/ Deleted)
    BY <1>3, Zenon
    DEF Statement, InsertPeer, Pass, PeerSelected, SaveSession, SessionSaved,
        Enqueue, Enqueued, Delete, registry, vars
<1>4. ASSUME NEW p \in Peers, HandleHelloAck(p)
      PROVE  [Next]_vars
    BY <1>4, Zenon DEF HandleHelloAck, Next, registry, vars
<1>5. ASSUME NEW p \in Peers, PingsMissed(p)
      PROVE  [Next]_vars
    BY <1>5, DropMoves, Zenon DEF PingsMissed
<1>6. ASSUME NEW p \in Peers,
             \/ Invite(p) \/ SendMessage(p) \/ RemovePeer(p)
             \/ HandleHello(p) \/ GiveUp(p) \/ Reconnect(p)
      PROVE  [Next]_vars
    BY <1>6, Zenon
    DEF Invite, SendMessage, RemovePeer, HandleHello, GiveUp, Reconnect,
        registry, vars
<1> QED
    BY <1>1, <1>2, <1>3, <1>4, <1>5, <1>6, Zenon DEF ContactNext

(***************************************************************************)
(* A session is registered for a contact of the table, and the contact     *)
(* leaves the table together with its session.                             *)
(***************************************************************************)
LEMMA ContactKept ==
    ASSUME RegistryInv, TasksOK, SessionIsOfContact, [ContactNext]_contactVars
    PROVE  SessionIsOfContact'
<1>1. ASSUME table \subseteq table',
             \A s \in Sids : bySession'[s] \in {bySession[s], NoPeer}
      PROVE  SessionIsOfContact'
    BY <1>1, Zenon DEF SessionIsOfContact
<1>2. ASSUME NEW s \in Sids, NEW p \in table, Register(s, p), table' = table
      PROVE  SessionIsOfContact'
    <2>1. \A t \in Sids : bySession'[t] \in {bySession[t], NoPeer, p}
        BY <1>2, Zenon DEF Register, Filed
    <2> QED
        BY <1>2, <2>1, Zenon DEF SessionIsOfContact
<1>3. ASSUME NEW p \in Peers, DropSession(p)
      PROVE  \A s \in Sids : /\ bySession'[s] \in {bySession[s], NoPeer}
                             /\ bySession'[s] # p
    BY <1>3, RegistryAssumption
       DEF DropSession, HasSession, Remove, RegistryInv, TypeOK, Consistent,
           registry
<1>4. CASE UNCHANGED contactVars
    BY <1>4, Zenon DEF contactVars, registry, memory, SessionIsOfContact
<1>5. CASE Remembered
    <2>1. CASE UNCHANGED <<registry, table>>
        BY <1>1, <2>1, Zenon DEF registry
    <2>2. CASE /\ StillKnown(Peer) /\ table' = table
               /\ \E s \in Sids : Register(s, Peer)
        BY <1>2, <2>2, Zenon DEF StillKnown
    <2> QED
        BY <1>5, <2>1, <2>2, Zenon DEF Remembered
<1>6. CASE Deleted
    <2>1. Peer \in Peers
        BY <1>6, HeadOfTasks, Zenon DEF Deleted, At
    <2>2. DropSession(Peer) /\ table' = table \ {Peer}
        BY <1>6, Zenon DEF Deleted
    <2> QED
        BY <1>3, <2>1, <2>2, Zenon DEF SessionIsOfContact
<1>7. CASE Statement /\ ~(Remembered \/ Deleted)
    BY <1>1, <1>7, Zenon
    DEF Statement, InsertPeer, Pass, PeerSelected, SaveSession, SessionSaved,
        Enqueue, Enqueued, Delete, AddEntry, registry, memory
<1>8. ASSUME NEW p \in Peers, HandleHelloAck(p)
      PROVE  SessionIsOfContact'
    <2>1. CASE UNCHANGED <<registry, table>>
        BY <1>1, <2>1, Zenon DEF registry
    <2>2. CASE p \in table /\ table' = table /\ \E s \in Sids : Register(s, p)
        BY <1>2, <2>2, Zenon
    <2> QED
        BY <1>8, <2>1, <2>2, Zenon DEF HandleHelloAck
<1>9. ASSUME NEW p \in Peers, PingsMissed(p)
      PROVE  SessionIsOfContact'
    BY <1>1, <1>3, <1>9, Zenon DEF PingsMissed
<1>10. ASSUME NEW p \in Peers,
              \/ Invite(p) \/ SendMessage(p) \/ RemovePeer(p)
              \/ HandleHello(p) \/ GiveUp(p) \/ Reconnect(p)
       PROVE  SessionIsOfContact'
    BY <1>1, <1>10, Zenon
    DEF Invite, SendMessage, RemovePeer, HandleHello, GiveUp, Reconnect,
        registry, memory
<1> QED
    BY <1>4, <1>5, <1>6, <1>7, <1>8, <1>9, <1>10, Zenon DEF ContactNext

\* A handler that is not served stays suspended.
LEMMA OthersStay ==
    ASSUME TasksOK, NEW i \in DOMAIN tasks,
           \/ tasks' = tasks
           \/ \E t : tasks' = Append(tasks, t)
           \/ i # 1 /\ tasks' = Tail(tasks)
           \/ i # 1 /\ \E t : tasks' = Append(Tail(tasks), t)
    PROVE  \E j \in DOMAIN tasks' : tasks'[j] = tasks[i]
<1>1. tasks \in Seq(Suspended) /\ i \in 1 .. Len(tasks)
    BY DEF TasksOK
<1>2. CASE tasks' = tasks
    BY <1>2, Zenon
<1>3. CASE \E t : tasks' = Append(tasks, t)
    BY <1>1, <1>3
<1>4. ASSUME i # 1
      PROVE  /\ i - 1 \in DOMAIN Tail(tasks)
             /\ Tail(tasks)[i - 1] = tasks[i]
    BY <1>1, <1>4
<1>5. CASE i # 1 /\ tasks' = Tail(tasks)
    BY <1>4, <1>5, Zenon
<1>6. CASE i # 1 /\ \E t : tasks' = Append(Tail(tasks), t)
    BY <1>1, <1>4, <1>6
<1> QED
    BY <1>2, <1>3, <1>5, <1>6, Zenon

\* The handler that joins the end of the queue is in it.
LEMMA LastJoins ==
    ASSUME TasksOK, NEW t,
           \/ tasks' = Append(tasks, t)
           \/ tasks # <<>> /\ tasks' = Append(Tail(tasks), t)
    PROVE  \E j \in DOMAIN tasks' : tasks'[j] = t
    BY DEF TasksOK

\* A peer stays watched while no handler of its own is served.
LEMMA WatchedStays ==
    ASSUME TasksOK, NEW p \in Peers, Watched(p), p \in beat => p \in beat',
           \/ tasks' = tasks
           \/ \E t : tasks' = Append(tasks, t)
           \/ /\ tasks # <<>> /\ ~Watches(Head(tasks), p)
              /\ tasks' = Tail(tasks) \/ \E t : tasks' = Append(Tail(tasks), t)
    PROVE  Watched(p)'
<1>1. CASE p \in beat
    BY <1>1, Zenon DEF Watched
<1>2. ASSUME NEW i \in DOMAIN tasks, Watches(tasks[i], p)
      PROVE  Watched(p)'
    <2>1. i = 1 => tasks[i] = Head(tasks)
        BY DEF TasksOK
    <2>2. PICK j \in DOMAIN tasks' : tasks'[j] = tasks[i]
        BY <1>2, <2>1, OthersStay, Zenon
    <2>3. Watches(tasks'[j], p)
        BY <1>2, <2>2, Zenon
    <2> QED
        BY <2>3, Zenon DEF Watched, Watches
<1> QED
    BY <1>1, <1>2, Zenon DEF Watched

\* A handler that goes on to an operation at which it still is to start the
\* heartbeat goes on watching.
LEMMA ThenWatches ==
    ASSUME TasksOK, tasks # <<>>, NEW p \in Peers, NEW op \in Ops, Then(op),
           Watched(p), beat' = beat,
           Watches(Head(tasks), p) =>
              op \in {"save", "saved"}
              \/ (By = "ack" /\ op \in {"remember", "remembered"})
    PROVE  Watched(p)'
<1>1. CASE ~Watches(Head(tasks), p)
    BY <1>1, WatchedStays, Zenon DEF Then
<1>2. CASE Watches(Head(tasks), p)
    <2> DEFINE t == [Head(tasks) EXCEPT !.op = op]
    <2>1. Head(tasks) \in Suspended
        BY HeadOfTasks, Zenon
    <2>2. t.peer = p /\ t.op = op /\ t.by = By
        BY <1>2, <2>1, Zenon DEF Watches, Suspended, By
    <2>3. PICK j \in DOMAIN tasks' : tasks'[j] = t
        BY LastJoins, Zenon DEF Then
    <2>4. Watches(tasks'[j], p)
        BY <1>2, <2>2, <2>3, Zenon DEF Watches
    <2> QED
        BY <2>4, Zenon DEF Watched, Watches
<1> QED
    BY <1>1, <1>2, Zenon

(***************************************************************************)
(* Every step keeps the sessions watched: the handler that registers one   *)
(* is suspended until it starts the heartbeat, and a heartbeat ends        *)
(* together with the session.                                              *)
(***************************************************************************)
LEMMA WatchedKept ==
    ASSUME RegistryInv, TasksOK, SessionWatched, [ContactNext]_contactVars,
           NEW p \in Peers, HasSession(p)'
    PROVE  Watched(p)'
<1>1. HasSession(p) => Watched(p)
    BY Zenon DEF SessionWatched
<1>2. ASSUME byPeer' = byPeer
      PROVE  Watched(p)
    BY <1>1, <1>2, Zenon DEF HasSession
<1>3. CASE UNCHANGED contactVars
    BY <1>2, <1>3, WatchedStays, Zenon DEF contactVars, registry, memory
<1>4. CASE Remembered
    <2>1. /\ tasks # <<>> /\ Head(tasks).op = "remembered"
          /\ Peer \in Peers
        BY <1>4, HeadOfTasks, Zenon DEF Remembered, At
    <2>2. CASE By # "ack" /\ beat' = beat /\ Watched(p) /\
               (Done \/ \E t : tasks' = Append(Tail(tasks), t))
        <3>1. ~Watches(Head(tasks), p)
            BY <2>1, <2>2, Zenon DEF Watches, By
        <3> QED
            BY <2>1, <2>2, <3>1, WatchedStays, Zenon DEF Done
    <2>3. ASSUME NEW s \in Sids, Register(s, Peer), ~Full, ~HasSession(p),
                 tasks' = Append(Tail(tasks), Task("save", "hello", Peer, s))
          PROVE  Watched(p)'
        <3>1. Peer = p
            BY <2>1, <2>3, Zenon
            DEF HasSession, Register, RegistryInv, TypeOK
        <3>2. PICK j \in DOMAIN tasks' : tasks'[j] = Task("save", "hello", p, s)
            BY <2>1, <2>3, <3>1, LastJoins, Zenon
        <3>3. Watches(tasks'[j], p)
            BY <3>2 DEF Watches, Task
        <3> QED
            BY <3>3, Zenon DEF Watched, Watches
    <2>4. CASE By = "hello" /\ StillKnown(Peer)
        <3>1. PICK s \in Sids :
                  /\ Register(s, Peer)
                  /\ \/ Full /\ Done
                     \/ /\ ~Full
                        /\ tasks' = Append(Tail(tasks),
                                           Task("save", "hello", Peer, s))
            BY <1>4, <2>4, Zenon DEF Remembered
        <3>2. beat' = beat
            BY <1>4, <2>4, Zenon DEF Remembered
        <3>3. CASE Full /\ Done
            BY <1>2, <2>2, <2>4, <3>1, <3>2, <3>3, Zenon DEF Register
        <3>4. CASE ~Full /\ tasks' = Append(Tail(tasks),
                                            Task("save", "hello", Peer, s))
            BY <1>1, <2>2, <2>3, <2>4, <3>1, <3>2, <3>4, Zenon
        <3> QED
            BY <3>1, <3>3, <3>4, Zenon
    <2>5. CASE By = "ack"
        <3>1. StartHeartbeat(Peer) /\ Done /\ byPeer' = byPeer
            BY <1>4, <2>5, Zenon DEF Remembered, registry
        <3>2. CASE Peer = p
            BY <3>1, <3>2, Zenon DEF StartHeartbeat, Watched
        <3>3. CASE Peer # p
            BY <1>2, <2>1, <3>1, <3>3, WatchedStays, Zenon
            DEF StartHeartbeat, Done, Watches, Peer
        <3> QED
            BY <3>2, <3>3, Zenon
    <2>6. CASE By = "connect" \/ (By = "hello" /\ ~StillKnown(Peer))
        <3>1. Done /\ byPeer' = byPeer /\ beat' = beat
            BY <1>4, <2>6, Zenon DEF Remembered, registry
        <3> QED
            BY <1>2, <2>2, <2>6, <3>1, Zenon
    <2>7. By = "hello" \/ By = "ack" \/ By = "connect"
        BY <1>4, Zenon DEF Remembered
    <2> QED
        BY <2>4, <2>5, <2>6, <2>7, Zenon
<1>5. ASSUME NEW q \in Peers, DropSession(q)
      PROVE  Watched(p) /\ p # q
    BY <1>1, <1>5, RegistryAssumption
       DEF DropSession, HasSession, Remove, RegistryInv, TypeOK, Consistent,
           registry
<1>6. CASE Deleted
    <2>1. /\ tasks # <<>> /\ Head(tasks).op = "deleted"
          /\ Peer \in Peers
        BY <1>6, HeadOfTasks, Zenon DEF Deleted, At
    <2>2. ~Watches(Head(tasks), p)
        BY <2>1, Zenon DEF Watches
    <2> QED
        BY <1>5, <1>6, <2>1, <2>2, WatchedStays, Zenon DEF Deleted, Done
<1>7. CASE SaveSession
    BY <1>2, <1>7, ThenWatches, Zenon
    DEF SaveSession, At, Ops, registry, memory
<1>8. CASE SessionSaved
    <2>1. Watched(p) /\ tasks # <<>>
        BY <1>2, <1>8, Zenon DEF SessionSaved, At, registry
    <2>2. CASE By = "ack"
        BY <1>8, <2>1, <2>2, ThenWatches, Zenon DEF SessionSaved, Ops
    <2>3. CASE By = "hello" /\ Peer = p
        BY <1>8, <2>3, Zenon DEF SessionSaved, StartHeartbeat, Watched
    <2>4. CASE By = "hello" /\ Peer # p
        <3>1. ~Watches(Head(tasks), p)
            BY <2>4, Zenon DEF Watches, Peer
        <3> QED
            BY <1>8, <2>1, <2>4, <3>1, WatchedStays, Zenon
            DEF SessionSaved, StartHeartbeat, Done
    <2> QED
        BY <1>8, <2>2, <2>3, <2>4, Zenon DEF SessionSaved
<1>9. CASE Pass
    <2>1. Watched(p) /\ tasks # <<>> /\ beat' = beat
        BY <1>2, <1>9, Zenon DEF Pass, At, registry, memory
    <2>2. CASE At("inserted") /\ Then("select")
        BY <2>1, <2>2, ThenWatches, Zenon DEF At, Watches, Ops
    <2>3. CASE At("select") /\ Then("fetch")
        BY <2>1, <2>3, ThenWatches, Zenon DEF At, Watches, Ops
    <2>4. CASE At("fetch") /\ Then("close")
        BY <2>1, <2>4, ThenWatches, Zenon DEF At, Watches, Ops
    <2>5. CASE At("remember") /\ Then("remembered")
        BY <2>1, <2>5, ThenWatches, Zenon DEF At, Watches, By, Ops
    <2> QED
        BY <1>9, <2>2, <2>3, <2>4, <2>5, Zenon DEF Pass
<1>10. CASE InsertPeer \/ PeerSelected \/ Enqueue \/ Enqueued \/ Delete
    <2>1. Watched(p) /\ beat' = beat
        BY <1>2, <1>10, Zenon
        DEF InsertPeer, PeerSelected, Enqueue, Enqueued, Delete, registry,
            memory
    <2>2. tasks # <<>> /\ ~Watches(Head(tasks), p)
        BY <1>10, Zenon
        DEF InsertPeer, PeerSelected, Enqueue, Enqueued, Delete, At, Watches
    <2>3. tasks' = Tail(tasks) \/ \E t : tasks' = Append(Tail(tasks), t)
        BY <1>10, Zenon
        DEF InsertPeer, PeerSelected, Enqueue, Enqueued, Delete, Then, Connect,
            Done
    <2> QED
        BY <2>1, <2>2, <2>3, WatchedStays, Zenon
<1>11. ASSUME NEW q \in Peers, HandleHelloAck(q)
       PROVE  Watched(p)'
    <2>1. beat' = beat
        BY <1>11, Zenon DEF HandleHelloAck
    <2>2. CASE UNCHANGED <<registry, tasks>>
        BY <1>2, <2>1, <2>2, WatchedStays, Zenon DEF registry
    <2>3. ASSUME NEW s \in Sids, Register(s, q),
                 \/ Full /\ UNCHANGED tasks
                 \/ ~Full /\ Await("save", "ack", q, s)
          PROVE  Watched(p)'
        <3>1. CASE Full /\ UNCHANGED tasks
            BY <1>2, <2>1, <2>3, <3>1, WatchedStays, Zenon DEF Register
        <3>2. CASE ~Full /\ Await("save", "ack", q, s) /\ Watched(p)
            BY <2>1, <3>2, WatchedStays, Zenon DEF Await
        <3>3. CASE ~Full /\ Await("save", "ack", q, s) /\ ~Watched(p)
            <4>1. q = p
                BY <1>1, <2>3, <3>3, Zenon
                DEF HasSession, Register, RegistryInv, TypeOK
            <4>2. PICK j \in DOMAIN tasks' : tasks'[j] = Task("save", "ack", p, s)
                BY <3>3, <4>1, LastJoins, Zenon DEF Await
            <4>3. Watches(tasks'[j], p)
                BY <4>2 DEF Watches, Task
            <4> QED
                BY <4>3, Zenon DEF Watched, Watches
        <3> QED
            BY <2>3, <3>1, <3>2, <3>3, Zenon
    <2>4. CASE ~HasSession(q) /\ q \in table
        <3>1. \E s \in Sids :
                /\ Register(s, q)
                /\ \/ Full /\ UNCHANGED tasks
                   \/ ~Full /\ Await("save", "ack", q, s)
            BY <1>11, <2>4, Zenon DEF HandleHelloAck
        <3> QED
            BY <2>3, <3>1, Zenon
    <2>5. CASE HasSession(q) \/ q \notin table
        BY <1>11, <2>2, <2>5, Zenon DEF HandleHelloAck
    <2> QED
        BY <2>4, <2>5, Zenon
<1>12. ASSUME NEW q \in Peers, PingsMissed(q)
       PROVE  Watched(p)'
    BY <1>5, <1>12, WatchedStays, Zenon DEF PingsMissed
<1>13. ASSUME NEW q \in Peers,
              \/ Invite(q) \/ SendMessage(q) \/ RemovePeer(q)
              \/ HandleHello(q) \/ GiveUp(q) \/ Reconnect(q)
       PROVE  Watched(p)'
    <2>1. Watched(p) /\ beat' = beat
        BY <1>2, <1>13, Zenon
        DEF Invite, SendMessage, RemovePeer, HandleHello, GiveUp, Reconnect,
            registry, memory
    <2>2. tasks' = tasks \/ \E t : tasks' = Append(tasks, t)
        BY <1>13, Zenon
        DEF Invite, SendMessage, RemovePeer, HandleHello, GiveUp, Reconnect,
            Await
    <2> QED
        BY <2>1, <2>2, WatchedStays, Zenon
<1> QED
    BY <1>3, <1>4, <1>6, <1>7, <1>8, <1>9, <1>10, <1>11, <1>12, <1>13,
       Zenon DEF ContactNext, Statement

\* What is true of the row of p's session stays true while the session is
\* the same and no handler that is to write the row or drop the session is
\* served.
LEMMA RowStays ==
    ASSUME TasksOK, NEW p \in Peers, HasRow(p), byPeer'[p] = byPeer[p],
           <<byPeer[p], p>> \in sessionRows => <<byPeer[p], p>> \in sessionRows',
           \/ tasks' = tasks
           \/ \E t : tasks' = Append(tasks, t)
           \/ /\ tasks # <<>>
              /\ ~Saves(Head(tasks), p) /\ ~Drops(Head(tasks), p)
              /\ tasks' = Tail(tasks) \/ \E t : tasks' = Append(Tail(tasks), t)
    PROVE  HasRow(p)'
<1>1. CASE <<byPeer[p], p>> \in sessionRows
    BY <1>1, Zenon DEF HasRow
<1>2. ASSUME NEW i \in DOMAIN tasks, Saves(tasks[i], p) \/ Drops(tasks[i], p)
      PROVE  HasRow(p)'
    <2>1. i = 1 => tasks[i] = Head(tasks)
        BY DEF TasksOK
    <2>2. PICK j \in DOMAIN tasks' : tasks'[j] = tasks[i]
        BY <1>2, <2>1, OthersStay, Zenon
    <2> QED
        BY <1>2, <2>2, Zenon DEF HasRow, Saves, Drops
<1> QED
    BY <1>1, <1>2, Zenon DEF HasRow

\* A handler that joins the queue with the session of p to save, or with the
\* rest of its removal to do, accounts for the row.
LEMMA JoinsForRow ==
    ASSUME TasksOK, NEW p \in Peers, NEW t,
           \/ tasks' = Append(tasks, t)
           \/ tasks # <<>> /\ tasks' = Append(Tail(tasks), t),
           t.peer = p,
           \/ t.op = "save" /\ t.sid = byPeer'[p]
           \/ t.op \in {"deleteQueue", "deletePeer", "deleted"}
    PROVE  HasRow(p)'
<1>1. PICK j \in DOMAIN tasks' : tasks'[j] = t
    BY LastJoins, Zenon
<1> QED
    BY <1>1, Zenon DEF HasRow, Saves, Drops

(***************************************************************************)
(* Every step keeps the rows of the sessions: the handler that registers   *)
(* one is suspended until it has written the row, and remove_peer, which   *)
(* deletes the rows first, ends by dropping whatever session there is.     *)
(***************************************************************************)
LEMMA RowKept ==
    ASSUME RegistryInv, TasksOK, SessionHasRow, [ContactNext]_contactVars,
           NEW p \in Peers, HasSession(p)'
    PROVE  HasRow(p)'
<1>1. HasSession(p) => HasRow(p)
    BY Zenon DEF SessionHasRow
<1>2. ASSUME byPeer'[p] = byPeer[p]
      PROVE  HasRow(p)
    BY <1>1, <1>2, Zenon DEF HasSession
<1>3. ASSUME NEW q \in Peers, DropSession(q)
      PROVE  p # q /\ byPeer'[p] = byPeer[p]
    BY <1>3, RegistryAssumption
       DEF DropSession, HasSession, Remove, RegistryInv, TypeOK, Consistent,
           registry
<1>4. ASSUME NEW s \in Sids, NEW q \in Peers, Register(s, q)
      PROVE  /\ Full \/ p # q => byPeer'[p] = byPeer[p]
             /\ ~Full /\ p = q => byPeer'[p] = s
    BY <1>4, Zenon DEF Register, RegistryInv, TypeOK
<1>5. CASE UNCHANGED contactVars
    <2>1. byPeer' = byPeer /\ sessionRows' = sessionRows /\ tasks' = tasks
        BY <1>5, Zenon DEF contactVars, registry, disk
    <2> QED
        BY <1>2, <2>1, RowStays, Zenon
<1>6. CASE Remembered
    <2>1. /\ tasks # <<>> /\ Peer \in Peers
          /\ ~Saves(Head(tasks), p) /\ ~Drops(Head(tasks), p)
        BY <1>6, HeadOfTasks, Zenon DEF Remembered, At, Saves, Drops
    <2>2. sessionRows' = sessionRows
        BY <1>6, Zenon DEF Remembered, disk
    <2>3. CASE byPeer'[p] = byPeer[p]
        <3>1. tasks' = Tail(tasks) \/ \E t : tasks' = Append(Tail(tasks), t)
            BY <1>6, Zenon DEF Remembered, Done
        <3> QED
            BY <1>2, <2>1, <2>2, <2>3, <3>1, RowStays, Zenon
    <2>4. CASE byPeer'[p] # byPeer[p]
        <3>1. PICK s \in Sids :
                  /\ Register(s, Peer)
                  /\ \/ Full /\ Done
                     \/ /\ ~Full
                        /\ tasks' = Append(Tail(tasks),
                                           Task("save", "hello", Peer, s))
            BY <1>6, <2>4, Zenon DEF Remembered, registry
        <3>2. ~Full /\ p = Peer /\ byPeer'[p] = s
            BY <1>4, <2>1, <2>4, <3>1, Zenon
        <3> DEFINE t == Task("save", "hello", p, s)
        <3>3. t.op = "save" /\ t.peer = p /\ t.sid = s
            BY Zenon DEF Task
        <3>4. tasks' = Append(Tail(tasks), t)
            BY <3>1, <3>2, Zenon
        <3> HIDE DEF t
        <3> QED
            BY <2>1, <3>2, <3>3, <3>4, JoinsForRow, Zenon
    <2> QED
        BY <2>3, <2>4, Zenon
<1>7. CASE Deleted
    <2>1. /\ tasks # <<>> /\ Peer \in Peers /\ Head(tasks).op = "deleted"
          /\ DropSession(Peer) /\ Done /\ sessionRows' = sessionRows
        BY <1>7, HeadOfTasks, Zenon DEF Deleted, At, disk
    <2>2. p # Peer /\ byPeer'[p] = byPeer[p]
        BY <1>3, <2>1, Zenon
    <2>3. ~Saves(Head(tasks), p) /\ ~Drops(Head(tasks), p)
        BY <2>1, <2>2, Zenon DEF Saves, Drops, Peer
    <2> QED
        BY <1>2, <2>1, <2>2, <2>3, RowStays, Zenon DEF Done
<1>8. CASE SaveSession
    <2>1. /\ tasks # <<>> /\ Head(tasks).op = "save" /\ Then("saved")
          /\ sessionRows' = sessionRows \cup {<<Head(tasks).sid, Peer>>}
          /\ byPeer' = byPeer
        BY <1>8, Zenon DEF SaveSession, At, registry
    <2>2. CASE Saves(Head(tasks), p)
        BY <2>1, <2>2, Zenon DEF Saves, HasRow, Peer
    <2>3. CASE ~Saves(Head(tasks), p)
        <3>1. ~Drops(Head(tasks), p)
            BY <2>1, Zenon DEF Drops
        <3> QED
            BY <1>2, <2>1, <2>3, <3>1, RowStays, Zenon DEF Then
    <2> QED
        BY <2>2, <2>3, Zenon
<1>9. CASE Delete
    <2>1. /\ tasks # <<>> /\ Head(tasks) \in Suspended
          /\ Head(tasks).op \in {"deleteSessions", "deleteQueue", "deletePeer"}
          /\ byPeer' = byPeer
        BY <1>9, HeadOfTasks, Zenon DEF Delete, At, registry
    <2>2. PICK op \in {"deleteQueue", "deletePeer", "deleted"} : Then(op)
        BY <1>9, Zenon DEF Delete
    <2>3. CASE Peer = p
        <3> DEFINE t == [Head(tasks) EXCEPT !.op = op]
        <3>1. t.peer = p /\ t.op = op
            BY <2>1, <2>3, Zenon DEF Suspended, Peer
        <3>2. tasks' = Append(Tail(tasks), t)
            BY <2>2, Zenon DEF Then
        <3> HIDE DEF t
        <3> QED
            BY <2>1, <2>2, <3>1, <3>2, JoinsForRow, Zenon
    <2>4. CASE Peer # p
        <3>1. ~Saves(Head(tasks), p) /\ ~Drops(Head(tasks), p)
            BY <2>4, Zenon DEF Saves, Drops, Peer
        <3>2. <<byPeer[p], p>> \in sessionRows => <<byPeer[p], p>> \in sessionRows'
            BY <1>9, <2>4, Zenon DEF Delete
        <3> QED
            BY <1>2, <2>1, <2>2, <3>1, <3>2, RowStays, Zenon DEF Then
    <2> QED
        BY <2>3, <2>4, Zenon
<1>10. CASE InsertPeer \/ Pass \/ PeerSelected \/ SessionSaved \/ Enqueue
            \/ Enqueued
    <2>1. byPeer' = byPeer /\ sessionRows' = sessionRows
        BY <1>10, Zenon
        DEF InsertPeer, Pass, PeerSelected, SessionSaved, Enqueue, Enqueued,
            registry, disk
    <2>2. tasks # <<>> /\ ~Saves(Head(tasks), p) /\ ~Drops(Head(tasks), p)
        BY <1>10, Zenon
        DEF InsertPeer, Pass, PeerSelected, SessionSaved, Enqueue, Enqueued,
            At, Saves, Drops
    <2>3. tasks' = Tail(tasks) \/ \E t : tasks' = Append(Tail(tasks), t)
        BY <1>10, Zenon
        DEF InsertPeer, Pass, PeerSelected, SessionSaved, Enqueue, Enqueued,
            Then, Connect, Done
    <2> QED
        BY <1>2, <2>1, <2>2, <2>3, RowStays, Zenon
<1>11. ASSUME NEW q \in Peers, HandleHelloAck(q)
       PROVE  HasRow(p)'
    <2>1. sessionRows' = sessionRows
        BY <1>11, Zenon DEF HandleHelloAck, disk
    <2>2. CASE byPeer'[p] = byPeer[p]
        <3>1. tasks' = tasks \/ \E t : tasks' = Append(tasks, t)
            BY <1>11, Zenon DEF HandleHelloAck, Await
        <3> QED
            BY <1>2, <2>1, <2>2, <3>1, RowStays, Zenon
    <2>3. CASE byPeer'[p] # byPeer[p]
        <3>1. PICK s \in Sids :
                  /\ Register(s, q)
                  /\ \/ Full /\ UNCHANGED tasks
                     \/ ~Full /\ Await("save", "ack", q, s)
            BY <1>11, <2>3, Zenon DEF HandleHelloAck, registry
        <3>2. ~Full /\ p = q /\ byPeer'[p] = s
            BY <1>4, <2>3, <3>1, Zenon
        <3> DEFINE t == Task("save", "ack", p, s)
        <3>3. t.op = "save" /\ t.peer = p /\ t.sid = s
            BY Zenon DEF Task
        <3>4. tasks' = Append(tasks, t)
            BY <3>1, <3>2, Zenon DEF Await
        <3> HIDE DEF t
        <3> QED
            BY <3>2, <3>3, <3>4, JoinsForRow, Zenon
    <2> QED
        BY <2>2, <2>3, Zenon
<1>12. ASSUME NEW q \in Peers, PingsMissed(q)
       PROVE  HasRow(p)'
    <2>1. DropSession(q) /\ sessionRows' = sessionRows /\ tasks' = tasks
        BY <1>12, Zenon DEF PingsMissed, disk
    <2> QED
        BY <1>2, <1>3, <2>1, RowStays, Zenon
<1>13. ASSUME NEW q \in Peers,
              \/ Invite(q) \/ SendMessage(q) \/ RemovePeer(q)
              \/ HandleHello(q) \/ GiveUp(q) \/ Reconnect(q)
       PROVE  HasRow(p)'
    <2>1. byPeer' = byPeer /\ sessionRows' = sessionRows
        BY <1>13, Zenon
        DEF Invite, SendMessage, RemovePeer, HandleHello, GiveUp, Reconnect,
            registry, disk
    <2>2. tasks' = tasks \/ \E t : tasks' = Append(tasks, t)
        BY <1>13, Zenon
        DEF Invite, SendMessage, RemovePeer, HandleHello, GiveUp, Reconnect,
            Await
    <2> QED
        BY <1>2, <2>1, <2>2, RowStays, Zenon
<1> QED
    BY <1>5, <1>6, <1>7, <1>8, <1>9, <1>10, <1>11, <1>12, <1>13, Zenon
    DEF ContactNext, Statement

\* The invariant holds at the start ...
LEMMA ContactInvInit == ContactInit => ContactInv
    BY RegistryInit
       DEF ContactInit, ContactInv, TasksOK, SessionIsOfContact, SessionWatched,
           SessionHasRow, HasSession, Init

\* ... and every step keeps it.
LEMMA ContactInvStep == ContactInv /\ [ContactNext]_contactVars => ContactInv'
<1> SUFFICES ASSUME ContactInv, [ContactNext]_contactVars
             PROVE  ContactInv'
    BY Zenon
<1>1. TypeOK
    BY Zenon DEF ContactInv, RegistryInv
<1>2. RegistryInv'
    BY <1>1, RegistryMoves, RegistryStep, Zenon DEF ContactInv
<1>3. TasksOK'
    <2>1. CASE UNCHANGED contactVars
        BY <2>1, Zenon DEF contactVars, memory, ContactInv, TasksOK
    <2> QED
        BY <1>1, <2>1, StatementTyped, EventTyped, Zenon
        DEF ContactInv, ContactNext
<1>4. SessionIsOfContact'
    BY ContactKept, Zenon DEF ContactInv
<1>5. SessionWatched'
    BY WatchedKept, Zenon DEF ContactInv, SessionWatched
<1>6. SessionHasRow'
    BY RowKept, Zenon DEF ContactInv, SessionHasRow
<1> QED
    BY <1>2, <1>3, <1>4, <1>5, <1>6, Zenon DEF ContactInv

(***************************************************************************)
(* No handler registers a session for a contact remove_peer has taken out. *)
(***************************************************************************)
THEOREM SessionsOfContacts == ContactSpec => []SessionIsOfContact
    BY ContactInvInit, ContactInvStep, PTL DEF ContactSpec, ContactInv

(***************************************************************************)
(* No session is without a heartbeat once its handler is over.             *)
(***************************************************************************)
THEOREM SessionsWatched == ContactSpec => []SessionWatched
    BY ContactInvInit, ContactInvStep, PTL DEF ContactSpec, ContactInv

(***************************************************************************)
(* No session is used whose counters the database has no row for.          *)
(***************************************************************************)
THEOREM SessionsHaveRows == ContactSpec => []SessionHasRow
    BY ContactInvInit, ContactInvStep, PTL DEF ContactSpec, ContactInv

(***************************************************************************)
(* The node keeps the two dictionaries of the registry in agreement, and   *)
(* its limit: its handlers change the registry by register and remove      *)
(* alone, so that the registry's theorems carry over.                      *)
(***************************************************************************)
THEOREM NodeRegistry == ContactSpec => [](Consistent /\ Bounded)
<1>1. ContactInit => Init
    BY Zenon DEF ContactInit
<1>2. ContactInv /\ [ContactNext]_contactVars => [Next]_vars
    BY RegistryMoves, Zenon DEF ContactInv, RegistryInv
<1>3. ContactSpec => Spec
    BY <1>1, <1>2, ContactInvInit, ContactInvStep, PTL DEF ContactSpec, Spec
<1> QED
    BY <1>3, RegistryConsistent, RegistryBounded, PTL
=============================================================================
