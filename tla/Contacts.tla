------------------------------ MODULE Contacts ------------------------------
(***************************************************************************)
(* The contacts of a node (node.py): added from an invite or by the HELLO  *)
(* of somebody unknown, connected, and removed, while the handlers that do *)
(* so overlap.  A contact lives in several places: its row in the peers    *)
(* table, its entry in the peer table in memory, its session, the rows of  *)
(* its sessions and queued messages.                                       *)
(*                                                                         *)
(* A handler that awaits storage waits in tasks.  One database thread      *)
(* serves them first come, first served, one statement or commit a turn;   *)
(* the handler then runs on to its next await and joins the end again.     *)
(*                                                                         *)
(* What the messages contain, the peer states and how a lost handshake is  *)
(* repeated are in the modules Delivery, Reconnect and Connection.         *)
(***************************************************************************)
EXTENDS SessionRegistry, Sequences

CONSTANTS
    YieldsTo,   \* the peers with a lower peer_id than this node
    Calls,      \* bound: how often each of Events happens
    Overlap     \* bound: handlers under way at a time

Events == {"hello", "ack", "user", "timer"}

ASSUME ContactsAssumption ==
    /\ YieldsTo \subseteq Peers
    /\ Calls \in [Events -> Nat]
    /\ Overlap \in Nat

VARIABLES
    rows,           \* the peers that have a row in the peers table
    sessionRows,    \* the rows of the sessions table: session_id and peer
    queueRows,      \* the peers that messages in message_queue are for
    table,          \* PeerTable: the direct peers
    pending,        \* _pending_hello_by_peer
    beat,           \* HeartbeatManager._tasks: peers that are pinged
    entry,          \* ReconnectManager._state: peers to reconnect to
    tasks,          \* handlers awaiting storage, in order
    calls           \* events left

memory == <<table, pending, beat, entry>>
disk == <<rows, sessionRows, queueRows>>
registry == <<bySession, byPeer, drawn>>
contactVars == <<registry, disk, memory, tasks, calls>>

Ops == {"insert", "inserted", "select", "fetch", "close", "remember",
        "remembered", "save", "saved", "enqueue", "enqueued",
        "deleteSessions", "deleteQueue", "deletePeer", "deleted"}

Handlers == {"hello", "ack", "invite", "connect", "send", "remove"}

ContactTypeOK ==
    /\ TypeOK
    /\ rows \subseteq Peers
    /\ sessionRows \subseteq Sids \X Peers
    /\ queueRows \subseteq Peers
    /\ table \subseteq Peers
    /\ pending \subseteq Peers
    /\ beat \subseteq Peers
    /\ entry \subseteq Peers
    /\ tasks \in Seq([op : Ops, by : Handlers, peer : Peers,
                      sid : Sids \cup {NoSid}])
    /\ calls \in [Events -> Nat]

ContactInit ==
    /\ Init
    /\ rows = {} /\ sessionRows = {} /\ queueRows = {}
    /\ table = {} /\ pending = {} /\ beat = {} /\ entry = {}
    /\ tasks = <<>>
    /\ calls = Calls

Call(e) ==
    /\ calls[e] > 0
    /\ calls' = [calls EXCEPT ![e] = @ - 1]

HasSession(p) == byPeer[p] # NoSid

Task(op, by, p, s) == [op |-> op, by |-> by, peer |-> p, sid |-> s]

\* A handler begins to await storage.
Await(op, by, p, s) ==
    /\ Len(tasks) < Overlap
    /\ tasks' = Append(tasks, Task(op, by, p, s))

\* The head of the queue is served and awaits its next statement, or ends.
At(op) == tasks # <<>> /\ Head(tasks).op = op
Peer == Head(tasks).peer
By == Head(tasks).by
Then(op) == tasks' = Append(Tail(tasks), [Head(tasks) EXCEPT !.op = op])
Done == tasks' = Tail(tasks)
-----------------------------------------------------------------------------
\* connect_to_peer goes on only without a session and a pending HELLO.
MayConnect(p) == ~HasSession(p) /\ p \notin pending

(***************************************************************************)
(* add_contact_from_invite, send_message and remove_peer up to their first *)
(* await.  The dialogs and the input line await what they call, so that    *)
(* one of each kind is under way at a time.  The user sends to and removes *)
(* a contact of the list, which shows the rows.                            *)
(***************************************************************************)
UserFree(handlers) == ~\E i \in DOMAIN tasks : tasks[i].by \in handlers

Invite(p) ==
    /\ UserFree({"invite", "remove"})
    /\ Call("user")
    /\ Await("insert", "invite", p, NoSid)
    /\ UNCHANGED <<registry, disk, memory>>

SendMessage(p) ==
    /\ UserFree({"send"})
    /\ p \in rows
    /\ Call("user")
    /\ Await("enqueue", "send", p, byPeer[p])
    /\ UNCHANGED <<registry, disk, memory>>

RemovePeer(p) ==
    /\ UserFree({"invite", "remove"})
    /\ p \in rows
    /\ Call("user")
    /\ Await("deleteSessions", "remove", p, NoSid)
    /\ UNCHANGED <<registry, disk, memory>>

(***************************************************************************)
(* _handle_hello up to its first await: ignored if there is a session, or  *)
(* if this node sent a HELLO too and stays initiator.  A peer that is not  *)
(* in the table becomes a contact.                                         *)
(***************************************************************************)
HandleHello(p) ==
    /\ Call("hello")
    /\ \/ /\ HasSession(p) \/ (p \in pending /\ p \notin YieldsTo)
          /\ UNCHANGED <<pending, tasks>>
       \/ /\ ~HasSession(p)
          /\ p \in pending => p \in YieldsTo
          /\ pending' = pending \ {p}
          /\ Await(IF p \in table THEN "remember" ELSE "insert", "hello", p,
                   NoSid)
    /\ UNCHANGED <<registry, disk, table, beat, entry>>

(***************************************************************************)
(* _handle_hello_ack up to its first await, for the answer to the HELLO    *)
(* that is pending and has left.  The session is registered if the peer is *)
(* still a contact; at the limit register raises.                          *)
(***************************************************************************)
HandleHelloAck(p) ==
    /\ p \in pending
    /\ ~\E i \in DOMAIN tasks : tasks[i].by = "connect" /\ tasks[i].peer = p
    /\ Call("ack")
    /\ pending' = pending \ {p}
    /\ \/ /\ HasSession(p) \/ p \notin table
          /\ UNCHANGED <<registry, tasks>>
       \/ /\ ~HasSession(p) /\ p \in table
          /\ \E s \in Sids :
                /\ Register(s, p)
                /\ \/ Full /\ UNCHANGED tasks
                   \/ ~Full /\ Await("save", "ack", p, s)
    /\ UNCHANGED <<disk, table, beat, entry>>
-----------------------------------------------------------------------------
\* storage.add_peer inserts the row or updates it.
InsertPeer ==
    /\ At("insert")
    /\ rows' = rows \cup {Peer}
    /\ Then("inserted")
    /\ UNCHANGED <<registry, sessionRows, queueRows, memory, calls>>

\* Statements that touch nothing the model holds, and commits that another
\* statement follows.
Pass ==
    /\ \/ At("inserted") /\ Then("select")
       \/ At("select") /\ Then("fetch")
       \/ At("fetch") /\ Then("close")
       \/ At("remember") /\ Then("remembered")
    /\ UNCHANGED <<registry, disk, memory, calls>>

\* Mutant: only who has a pending HELLO is added.
AddEntryPending(p) == table' = table \cup (pending \cap {p})

\* add_direct_peer.
AddEntry(p) == table' = table \cup {p}

\* Mutant: the heartbeat is registered and not started.
HeartbeatNotStarted(p) == UNCHANGED beat

\* register_peer and start_heartbeat.
StartHeartbeat(p) == beat' = beat \cup {p}

\* connect_to_peer, called by the handler at the head, which then ends.
Connect(p) ==
    \/ /\ MayConnect(p)
       /\ pending' = pending \cup {p}
       /\ tasks' = Append(Tail(tasks), Task("remember", "connect", p, NoSid))
    \/ ~MayConnect(p) /\ Done /\ UNCHANGED pending

(***************************************************************************)
(* storage.get_peer has answered and closed its cursor.  _handle_hello     *)
(* adds the contact whatever the answer.  add_contact_from_invite would    *)
(* raise if the row were gone, which the dialogs rule out, and connects if *)
(* the invite holds an endpoint.                                           *)
(***************************************************************************)
PeerSelected ==
    /\ At("close")
    /\ \/ /\ By = "hello"
          /\ Then("remember")
          /\ UNCHANGED pending
       \/ /\ By = "invite"
          /\ Connect(Peer) \/ (Done /\ UNCHANGED pending)
    /\ AddEntry(Peer)
    /\ UNCHANGED <<registry, disk, beat, entry, calls>>

\* Mutant: the contact is looked up before the await.
KnownBefore(p) == TRUE

\* process_hello: known, read after the await, has the peer.
StillKnown(p) == p \in table

(***************************************************************************)
(* remember_endpoint is over.  _handle_hello answers with HELLO_ACK and    *)
(* registers the session, if the peer is still a contact; at the limit     *)
(* register raises after the answer has left.  _handle_hello_ack starts    *)
(* the heartbeat, connect_to_peer sends its HELLO.                         *)
(***************************************************************************)
Remembered ==
    /\ At("remembered")
    /\ \/ /\ By = "hello" /\ StillKnown(Peer)
          /\ \E s \in Sids :
                /\ Register(s, Peer)
                /\ \/ Full /\ Done
                   \/ /\ ~Full
                      /\ tasks' = Append(Tail(tasks),
                                         Task("save", "hello", Peer, s))
          /\ UNCHANGED beat
       \/ /\ By = "hello" /\ ~StillKnown(Peer)
          /\ Done
          /\ UNCHANGED <<registry, beat>>
       \/ /\ By = "ack"
          /\ StartHeartbeat(Peer)
          /\ Done
          /\ UNCHANGED registry
       \/ /\ By = "connect"
          /\ Done
          /\ UNCHANGED <<registry, beat>>
    /\ UNCHANGED <<disk, table, pending, entry, calls>>

\* Mutant: the row is written for the session the peer has by then.
SaveSessionLooked ==
    /\ At("save")
    /\ sessionRows' = sessionRows \cup {<<byPeer[Peer], Peer>>}
    /\ Then("saved")
    /\ UNCHANGED <<registry, rows, queueRows, memory, calls>>

\* Mutant: a peer has one row, and keeps the first.
SaveSessionOnce ==
    /\ At("save")
    /\ sessionRows' = IF \E r \in sessionRows : r[2] = Peer THEN sessionRows
                      ELSE sessionRows \cup {<<Head(tasks).sid, Peer>>}
    /\ Then("saved")
    /\ UNCHANGED <<registry, rows, queueRows, memory, calls>>

\* storage.save_session_state.
SaveSession ==
    /\ At("save")
    /\ sessionRows' = sessionRows \cup {<<Head(tasks).sid, Peer>>}
    /\ Then("saved")
    /\ UNCHANGED <<registry, rows, queueRows, memory, calls>>

(***************************************************************************)
(* save_session_state is over: the peer is marked connected and leaves the *)
(* reconnect manager.  _handle_hello starts the heartbeat and flushes the  *)
(* queue; _handle_hello_ack first remembers the endpoint.                  *)
(***************************************************************************)
SessionSaved ==
    /\ At("saved")
    /\ entry' = entry \ {Peer}
    /\ \/ By = "hello" /\ StartHeartbeat(Peer) /\ Done
       \/ By = "ack" /\ Then("remember") /\ UNCHANGED beat
    /\ UNCHANGED <<registry, disk, table, pending, calls>>

(***************************************************************************)
(* storage.enqueue_message.  Without a session at its start send_message   *)
(* goes on to connect, where an endpoint is known or resolved.             *)
(***************************************************************************)
Enqueue ==
    /\ At("enqueue")
    /\ queueRows' = queueRows \cup {Peer}
    /\ Then("enqueued")
    /\ UNCHANGED <<registry, rows, sessionRows, memory, calls>>

Enqueued ==
    /\ At("enqueued")
    /\ \/ Done /\ UNCHANGED pending
       \/ Head(tasks).sid = NoSid /\ Peer \in table /\ Connect(Peer)
    /\ UNCHANGED <<registry, disk, table, beat, entry, calls>>

\* storage.remove_peer.
Delete ==
    /\ \/ /\ At("deleteSessions")
          /\ sessionRows' = {r \in sessionRows : r[2] # Peer}
          /\ Then("deleteQueue")
          /\ UNCHANGED <<rows, queueRows>>
       \/ /\ At("deleteQueue")
          /\ queueRows' = queueRows \ {Peer}
          /\ Then("deletePeer")
          /\ UNCHANGED <<rows, sessionRows>>
       \/ /\ At("deletePeer")
          /\ rows' = rows \ {Peer}
          /\ Then("deleted")
          /\ UNCHANGED <<sessionRows, queueRows>>
    /\ UNCHANGED <<registry, memory, calls>>

\* The registry's remove, for the session of p if it has one.
DropSession(p) ==
    \/ HasSession(p) /\ Remove(byPeer[p])
    \/ ~HasSession(p) /\ UNCHANGED registry

\* The rest of remove_peer.  Its heartbeat, its pending HELLO and its entry
\* of the reconnect manager stay.
Deleted ==
    /\ At("deleted")
    /\ table' = table \ {Peer}
    /\ DropSession(Peer)
    /\ Done
    /\ UNCHANGED <<disk, pending, beat, entry, calls>>
-----------------------------------------------------------------------------
(***************************************************************************)
(* Timers: the last HELLO went unanswered (_retry_hello), the last ping    *)
(* was missed (_handle_peer_disconnect), the reconnect loop takes up its   *)
(* entry (_reconnect_peer; without an entry in the peer table there is no  *)
(* endpoint).                                                              *)
(***************************************************************************)
GiveUp(p) ==
    /\ p \in pending /\ ~HasSession(p)
    /\ Call("timer")
    /\ pending' = pending \ {p}
    /\ entry' = entry \cup {p}
    /\ UNCHANGED <<registry, disk, table, beat, tasks>>

PingsMissed(p) ==
    /\ p \in beat
    /\ Call("timer")
    /\ beat' = beat \ {p}
    /\ DropSession(p)
    /\ entry' = entry \cup {p}
    /\ UNCHANGED <<disk, table, pending, tasks>>

Reconnect(p) ==
    /\ p \in entry /\ p \in table /\ MayConnect(p)
    /\ pending' = pending \cup {p}
    /\ Await("remember", "connect", p, NoSid)
    /\ UNCHANGED <<registry, disk, table, beat, entry, calls>>

Statement ==
    \/ InsertPeer \/ Pass \/ PeerSelected \/ Remembered \/ SaveSession
    \/ SessionSaved \/ Enqueue \/ Enqueued \/ Delete \/ Deleted

ContactNext ==
    \/ Statement
    \/ \E p \in Peers :
          \/ Invite(p) \/ SendMessage(p) \/ RemovePeer(p)
          \/ HandleHello(p) \/ HandleHelloAck(p)
          \/ GiveUp(p) \/ PingsMissed(p) \/ Reconnect(p)

ContactSpec == ContactInit /\ [][ContactNext]_contactVars
-----------------------------------------------------------------------------
(***************************************************************************)
(* Every session is with a contact of the peer table.  remove_peer takes a *)
(* contact out while handlers that may register a session for it are       *)
(* suspended, and none of them brings one back (_handle_hello reads known  *)
(* after its last await).                                                  *)
(***************************************************************************)
SessionIsOfContact == \A s \in Sids : bySession[s] # NoPeer => bySession[s] \in table

\* The handler t has registered a session for p and is to start the heartbeat.
Watches(t, p) ==
    /\ t.peer = p
    /\ \/ t.op \in {"save", "saved"}
       \/ t.by = "ack" /\ t.op \in {"remember", "remembered"}

Watched(p) == p \in beat \/ \E i \in DOMAIN tasks : Watches(tasks[i], p)

(***************************************************************************)
(* A session is watched by a heartbeat, or the handler that registered it  *)
(* has yet to start one: also when the contact was removed and added again *)
(* meanwhile, and its old heartbeat is still running.                      *)
(***************************************************************************)
SessionWatched == \A p \in Peers : HasSession(p) => Watched(p)

\* The handler t is to write the row of the session p has.
Saves(t, p) == t.op = "save" /\ t.peer = p /\ t.sid = byPeer[p]

\* remove_peer has deleted the session rows of p and is to drop its session.
Drops(t, p) == t.op \in {"deleteQueue", "deletePeer", "deleted"} /\ t.peer = p

HasRow(p) ==
    \/ <<byPeer[p], p>> \in sessionRows
    \/ \E i \in DOMAIN tasks : Saves(tasks[i], p) \/ Drops(tasks[i], p)

(***************************************************************************)
(* A session that is used has its row in the sessions table, or the        *)
(* handler that registered it is about to write it, or remove_peer to drop *)
(* the session: the counters are saved by "UPDATE sessions SET ... WHERE   *)
(* session_id = ?", which changes nothing, and says nothing, where the row *)
(* is missing (update_send_sequence, remove_peer and the two handshake     *)
(* handlers, which overlap).                                               *)
(***************************************************************************)
SessionHasRow == \A p \in Peers : HasSession(p) => HasRow(p)

(***************************************************************************)
(* With no handler under way every contact the list shows, which is read   *)
(* from the rows, is in the peer table and so known to the handshake: a    *)
(* contact that is removed while a HELLO of its adds it again does not     *)
(* keep its row and lose its entry.  That rests on the turns of the        *)
(* database: remove_peer drops the entry one turn after the row, and a row *)
(* written in between belongs to a handler that adds the entry later.      *)
(***************************************************************************)
ListedIsKnown == tasks = <<>> => rows \subseteq table

(***************************************************************************)
(* What the user and the schema rely on, and the code does not keep.       *)
(***************************************************************************)

(***************************************************************************)
(* With no handler under way the contacts in memory are those in the       *)
(* database: nobody is trusted now and forgotten after a restart           *)
(* (_handle_hello and remove_peer, each several awaits long).              *)
(***************************************************************************)
TableIsRows == tasks = <<>> => table = rows

(***************************************************************************)
(* The rows of sessions and of queued messages belong to a contact         *)
(* (storage.py, "FOREIGN KEY (peer_id) REFERENCES peers(peer_id)").        *)
(***************************************************************************)
NoOrphanRows ==
    tasks = <<>> => /\ queueRows \subseteq rows
                    /\ \A r \in sessionRows : r[2] \in rows
=============================================================================
