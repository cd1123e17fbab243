----------------------------- MODULE Connection -----------------------------
(***************************************************************************)
(* How two contacts come to share a session and keep it: the handshake     *)
(* (handshake.py and its handlers in node.py), connect_to_peer with its    *)
(* retries, the heartbeat (heartbeat.py), the reconnect loop               *)
(* (reconnect.py) and the peer state, at both nodes.                       *)
(*                                                                         *)
(* The nodes are 1 and 2, in the order of their peer_ids; a variable of    *)
(* node n is about the other one.  A HELLO stands for its ephemeral key    *)
(* and nonce, a session for the session_id and the HELLO its key was       *)
(* derived from.  Handlers that await storage wait in tasks[n]: the one    *)
(* database thread resumes them in the order they began to wait, and       *)
(* timers, datagrams and the user come in between.                         *)
(* Archiving after seven days is in module Reconnect.                      *)
(***************************************************************************)
EXTENDS PeerState, Integers, Sequences, SequencesExt

CONSTANTS
    MaxAttempts,    \* HELLOs of one connect_to_peer: 7
    MaxMissed,      \* missed pings until disconnect: 6
    SuspectMissed,  \* missed pings until suspect: 3
    MaxHello,       \* bound: HELLOs in use at one time
    MaxSid,         \* bound: session_ids in use at one time
    Budgets,        \* bounds: how often the user acts and each fault happens
    Prompt          \* datagrams and storage are faster than timers

Events == {"send", "archive", "loseHello", "loseAck", "repeat", "losePing",
           "restart"}

ASSUME ConnectionAssumption ==
    /\ MaxAttempts \in Nat \ {0, 1}
    /\ MaxMissed \in Nat \ {0}
    /\ SuspectMissed \in 1..MaxMissed
    /\ MaxHello \in Nat
    /\ MaxSid \in Nat
    /\ Budgets \subseteq [Events -> Nat]
    /\ Prompt \in BOOLEAN

Nodes == 1..2
Other(n) == 3 - n

VARIABLES
    session,    \* SessionRegistry: the session with the other node
    pending,    \* _pending_hello_by_peer: the HELLO sent, or 0
    tasks,      \* handlers awaiting storage, in order
    retry,      \* _hello_retry_tasks: the HELLO and the attempts left
    state,      \* PeerStateManager
    stored,     \* the archived column of the peers table
    entry,      \* ReconnectManager._state: attempts so far, NoEntry if absent
    loop,       \* the reconnect loop: idle, resolving or connecting
    beat,       \* the heartbeat task: pings missed in a row, Still if none
    net,        \* datagrams in flight
    budget      \* events left

vars == <<session, pending, tasks, retry, state, stored, entry, loop, beat,
          net, budget>>

NoSession == [hello |-> 0, sid |-> 0]
NoRetry == [hello |-> 0, left |-> 0]
NoEntry == -1
Still == -1

SessionKeys == [hello : 1..MaxHello, sid : 1..MaxSid]

Tasks ==
    [op : {"connect"}, hello : 1..MaxHello, by : {"user", "loop"}]
    \cup [op : {"hello"}, hello : 1..MaxHello]
    \cup [op : {"savedResponder", "savedInitiator", "remembered"}]
    \cup [op : {"archive"}, archived : BOOLEAN]

Datagrams ==
    [type : {"HELLO"}, to : Nodes, hello : 1..MaxHello]
    \cup [type : {"HELLO_ACK"}, to : Nodes, keys : SessionKeys]

TypeOK ==
    /\ session \in [Nodes -> SessionKeys \cup {NoSession}]
    /\ pending \in [Nodes -> 0..MaxHello]
    /\ tasks \in [Nodes -> Seq(Tasks)]
    /\ retry \in [Nodes -> [hello : 0..MaxHello, left : 0..MaxAttempts]]
    /\ state \in [Nodes -> States \ {"idle", "suspect", "failed"}]
    /\ stored \in [Nodes -> BOOLEAN]
    /\ entry \in [Nodes -> NoEntry..1]
    /\ loop \in [Nodes -> {"idle", "resolving", "connecting"}]
    /\ beat \in [Nodes -> Still..(MaxMissed - 1)]
    /\ net \subseteq Datagrams
    /\ budget \in [Events -> Nat]

Init ==
    /\ session = [n \in Nodes |-> NoSession]
    /\ pending = [n \in Nodes |-> 0]
    /\ tasks = [n \in Nodes |-> <<>>]
    /\ retry = [n \in Nodes |-> NoRetry]
    /\ state = [n \in Nodes |-> "disconnected"]
    /\ stored = [n \in Nodes |-> FALSE]
    /\ entry = [n \in Nodes |-> NoEntry]
    /\ loop = [n \in Nodes |-> "idle"]
    /\ beat = [n \in Nodes |-> Still]
    /\ net = {}
    /\ budget \in Budgets

Spend(e) ==
    /\ budget[e] > 0
    /\ budget' = [budget EXCEPT ![e] = @ - 1]

HasSession(n) == session[n] # NoSession

\* The keys, nonces and ids that are drawn are fresh: like no other that a
\* variable still holds.
HellosInUse ==
    UNION {{session[n].hello, pending[n], retry[n].hello} : n \in Nodes}
    \cup UNION {{t.hello : t \in {t \in ToSet(tasks[n]) :
                                    t.op \in {"connect", "hello"}}} :
                n \in Nodes}
    \cup {IF d.type = "HELLO" THEN d.hello ELSE d.keys.hello : d \in net}

SidsInUse ==
    {session[n].sid : n \in Nodes}
    \cup {d.keys.sid : d \in {d \in net : d.type = "HELLO_ACK"}}

Fresh(max, used) == Min((1..max) \ used)

\* Timers (the retry of a HELLO, the heartbeat, the reconnect loop) fire at
\* any time; if Prompt, only with nothing in flight or awaited: the behaviours
\* of a fast network and disk, for runs that look for a counterexample in them.
TimerMayFire == Prompt => net = {} /\ \A n \in Nodes : tasks[n] = <<>>

\* The handlers that were begun when there was no session, or that make it.
Handshaking(n) == \E t \in ToSet(tasks[n]) : t.op # "archive"

\* Mutant: the peer is not enqueued for reconnection.
RecordDisconnectNot(n) == UNCHANGED entry

\* record_disconnect, record_connect and record_attempt; that there were
\* attempts is all the code asks later.
RecordDisconnect(n) ==
    entry' = [entry EXCEPT ![n] = IF @ = NoEntry THEN 0 ELSE @]
RecordConnect(n) == entry' = [entry EXCEPT ![n] = NoEntry]
RecordAttempt(n) == entry' = [entry EXCEPT ![n] = 1]
-----------------------------------------------------------------------------
(***************************************************************************)
(* connect_to_peer up to its await: nothing if there is a session or a     *)
(* pending HELLO, otherwise a new HELLO is created and noted.              *)
(***************************************************************************)
MayConnect(n) == ~HasSession(n) /\ pending[n] = 0

StartConnect(n, by) ==
    /\ MayConnect(n)
    /\ (1..MaxHello) \ HellosInUse # {}
    /\ LET h == Fresh(MaxHello, HellosInUse)
       IN  /\ pending' = [pending EXCEPT ![n] = h]
           /\ tasks' = [tasks EXCEPT ![n] =
                            Append(@, [op |-> "connect", hello |-> h,
                                       by |-> by])]

\* send_message without a session, or add_contact_from_invite, at a known
\* endpoint or one the resolver returns.
UserSends(n) ==
    /\ Spend("send")
    /\ StartConnect(n, "user")
    /\ UNCHANGED <<session, retry, state, stored, entry, loop, beat, net>>

(***************************************************************************)
(* The rest of connect_to_peer: the HELLO leaves and its retry task        *)
(* replaces an older one.  Called from the reconnect loop, the loop then   *)
(* counts the attempt.                                                     *)
(***************************************************************************)
SendHello(n) ==
    /\ tasks[n] # <<>>
    /\ Head(tasks[n]).op = "connect"
    /\ LET t == Head(tasks[n])
       IN  /\ net' = net \cup {[type |-> "HELLO", to |-> Other(n),
                                hello |-> t.hello]}
           /\ retry' = [retry EXCEPT ![n] = [hello |-> t.hello,
                                             left |-> MaxAttempts - 1]]
           /\ \/ /\ t.by = "loop"
                 /\ RecordAttempt(n)
                 /\ loop' = [loop EXCEPT ![n] = "idle"]
              \/ /\ t.by = "user"
                 /\ UNCHANGED <<entry, loop>>
    /\ state' = [state EXCEPT ![n] = Try(@, "connecting")]
    /\ tasks' = [tasks EXCEPT ![n] = Tail(@)]
    /\ UNCHANGED <<session, pending, stored, beat, budget>>

(***************************************************************************)
(* _retry_hello, every three seconds.  When the last HELLO has been sent   *)
(* the attempts are used up and the pending HELLO is forgotten, without    *)
(* another wait.                                                           *)
(***************************************************************************)
RetryHello(n) ==
    /\ TimerMayFire
    /\ retry[n] # NoRetry
    /\ \/ /\ HasSession(n) \/ pending[n] = 0
          /\ retry' = [retry EXCEPT ![n] = NoRetry]
          /\ UNCHANGED <<pending, state, entry, net>>
       \/ /\ ~HasSession(n) /\ pending[n] # 0
          /\ net' = net \cup {[type |-> "HELLO", to |-> Other(n),
                               hello |-> retry[n].hello]}
          /\ \/ /\ retry[n].left > 1
                /\ retry' = [retry EXCEPT ![n].left = @ - 1]
                /\ UNCHANGED <<pending, state, entry>>
             \/ /\ retry[n].left = 1
                /\ retry' = [retry EXCEPT ![n] = NoRetry]
                /\ pending' = [pending EXCEPT ![n] = 0]
                /\ state' = [state EXCEPT ![n] = Try(@, "disconnected")]
                /\ RecordDisconnect(n)
    /\ UNCHANGED <<session, tasks, stored, loop, beat, budget>>
-----------------------------------------------------------------------------
\* A datagram leaves the network, or is delivered a second time later.
Deliver(d) ==
    \/ net' = net \ {d} /\ UNCHANGED budget
    \/ net' = net /\ Spend("repeat")

\* The node with the higher peer_id gives up its own HELLO.
Yields(n) == Other(n) < n

(***************************************************************************)
(* _handle_hello up to its await.  It is ignored if there is a session, or *)
(* if this node has sent a HELLO too and stays initiator.  (A new contact  *)
(* is stored first: two more awaits before the same step.)                 *)
(***************************************************************************)
HandleHello(n, d) ==
    /\ Deliver(d)
    /\ \/ /\ ~HasSession(n)
          /\ pending[n] # 0 => Yields(n)
          /\ pending' = [pending EXCEPT ![n] = 0]
                /\ tasks' = [tasks EXCEPT ![n] =
                           Append(@, [op |-> "hello", hello |-> d.hello])]
       \/ /\ HasSession(n) \/ (pending[n] # 0 /\ ~Yields(n))
          /\ UNCHANGED <<pending, tasks>>
    /\ UNCHANGED <<session, retry, state, stored, entry, loop, beat>>

(***************************************************************************)
(* process_hello: a session is drawn, HELLO_ACK leaves, the session is     *)
(* registered, replacing one registered meanwhile, and its row is saved.   *)
(***************************************************************************)
AnswerHello(n) ==
    /\ tasks[n] # <<>>
    /\ Head(tasks[n]).op = "hello"
    /\ (1..MaxSid) \ SidsInUse # {}
    /\ LET keys == [hello |-> Head(tasks[n]).hello,
                    sid |-> Fresh(MaxSid, SidsInUse)]
       IN  /\ net' = net \cup {[type |-> "HELLO_ACK", to |-> Other(n),
                                keys |-> keys]}
           /\ session' = [session EXCEPT ![n] = keys]
    /\ tasks' = [tasks EXCEPT ![n] =
                     Append(Tail(@), [op |-> "savedResponder"])]
    /\ UNCHANGED <<pending, retry, state, stored, entry, loop, beat, budget>>

\* Mutant: the signature is not checked against the HELLO that was sent.
VerifiesAny(n, keys) == TRUE

\* process_hello_ack verifies a signature over this node's own ephemeral key
\* and nonce: only the answer to the HELLO that is pending passes.
Verifies(n, keys) == keys.hello = pending[n]

(***************************************************************************)
(* _handle_hello_ack.  The pending HELLO is taken out first, so an answer  *)
(* that turns out to be for another HELLO uses it up.  The key is derived  *)
(* from the HELLO that was pending.                                        *)
(***************************************************************************)
HandleHelloAck(n, d) ==
    /\ Deliver(d)
    /\ pending' = [pending EXCEPT ![n] = 0]
    /\ \/ /\ pending[n] # 0
          /\ ~HasSession(n)
          /\ Verifies(n, d.keys)
          /\ session' = [session EXCEPT ![n] = [hello |-> pending[n],
                                                sid |-> d.keys.sid]]
          /\ tasks' = [tasks EXCEPT ![n] =
                           Append(@, [op |-> "savedInitiator"])]
       \/ /\ pending[n] = 0 \/ HasSession(n) \/ ~Verifies(n, d.keys)
          /\ UNCHANGED <<session, tasks>>
    /\ UNCHANGED <<retry, state, stored, entry, loop, beat>>

\* Mutant: the heartbeat is registered and not started.
HeartbeatNotStarted(n) == UNCHANGED beat

\* register_peer and start_heartbeat.
StartHeartbeat(n) == beat' = [beat EXCEPT ![n] = 0]

(***************************************************************************)
(* The session row is saved: the peer is marked connected and leaves the   *)
(* reconnect manager.  The responder starts its heartbeat; the initiator   *)
(* first awaits remember_endpoint, and then also ends its retry task.      *)
(***************************************************************************)
SessionSaved(n) ==
    /\ tasks[n] # <<>>
    /\ state' = [state EXCEPT ![n] = MarkConnected(@)]
    /\ RecordConnect(n)
    /\ \/ /\ Head(tasks[n]).op = "savedResponder"
          /\ tasks' = [tasks EXCEPT ![n] = Tail(@)]
          /\ StartHeartbeat(n)
       \/ /\ Head(tasks[n]).op = "savedInitiator"
          /\ tasks' = [tasks EXCEPT ![n] =
                           Append(Tail(@), [op |-> "remembered"])]
          /\ UNCHANGED beat
    /\ UNCHANGED <<session, pending, retry, stored, loop, net, budget>>

EndpointRemembered(n) ==
    /\ tasks[n] # <<>>
    /\ Head(tasks[n]).op = "remembered"
    /\ tasks' = [tasks EXCEPT ![n] = Tail(@)]
    /\ StartHeartbeat(n)
    /\ retry' = [retry EXCEPT ![n] = NoRetry]
    /\ UNCHANGED <<session, pending, state, stored, entry, loop, net, budget>>

-----------------------------------------------------------------------------
\* Mutant: one ping more.
LastMissLate(n) == beat[n] + 1 > MaxMissed

LastMiss(n) == beat[n] + 1 >= MaxMissed


HandlePeerDisconnect(n) ==
    /\ state' = [state EXCEPT ![n] = Try(@, "disconnected")]
    /\ session' = [session EXCEPT ![n] = NoSession]
    /\ RecordDisconnect(n)

(***************************************************************************)
(* The heartbeat loop: a ping that no PONG answers in time.  A running     *)
(* node answers every PING, whether it has the session or not; pings are   *)
(* lost on the way or while the other node is down.  suspect cannot follow *)
(* connected, so the third miss leaves the state alone.  The last one ends *)
(* the loop and starts _handle_peer_disconnect.  Half a minute of pings is *)
(* missed by then, and no storage operation takes that long: the handlers  *)
(* that were under way when the heartbeat began have ended.                *)
(***************************************************************************)
PingMissed(n) ==
    /\ TimerMayFire
    /\ beat[n] # Still
    /\ Spend("losePing")
    /\ \/ /\ ~LastMiss(n)
          /\ beat' = [beat EXCEPT ![n] = @ + 1]
          /\ state' = [state EXCEPT ![n] =
                           IF beat[n] + 1 >= SuspectMissed
                           THEN Try(@, "suspect") ELSE @]
          /\ UNCHANGED <<session, entry>>
       \/ /\ LastMiss(n)
          /\ ~Handshaking(n)
          /\ beat' = [beat EXCEPT ![n] = Still]
          /\ HandlePeerDisconnect(n)
    /\ UNCHANGED <<pending, tasks, retry, stored, loop, net>>

PingAnswered(n) ==
    /\ TimerMayFire
    /\ beat[n] > 0
    /\ beat' = [beat EXCEPT ![n] = 0]
    /\ UNCHANGED <<session, pending, tasks, retry, state, stored, entry, loop,
                   net, budget>>

(***************************************************************************)
(* The reconnect loop takes up its entry for the other node.  With a       *)
(* session, record_connect drops the entry and record_attempt creates it   *)
(* anew.  After a first attempt the endpoint is resolved before the next;  *)
(* an entry exists only after a handshake was tried, so an endpoint is     *)
(* known and the result of the resolution only replaces it.                *)
(***************************************************************************)
LoopConnects(n) ==
    \/ /\ StartConnect(n, "loop")
       /\ loop' = [loop EXCEPT ![n] = "connecting"]
       /\ UNCHANGED entry
    \/ /\ ~MayConnect(n)
       /\ RecordAttempt(n)
       /\ loop' = [loop EXCEPT ![n] = "idle"]
       /\ UNCHANGED <<pending, tasks>>

TakeUpEntry(n) ==
    /\ TimerMayFire
    /\ entry[n] # NoEntry
    /\ loop[n] = "idle"
    /\ \/ /\ HasSession(n) \/ entry[n] = 0
          /\ LoopConnects(n)
          /\ UNCHANGED state
       \/ /\ ~HasSession(n) /\ entry[n] > 0
          /\ state' = [state EXCEPT ![n] = Try(@, "resolving")]
          /\ loop' = [loop EXCEPT ![n] = "resolving"]
          /\ UNCHANGED <<entry, pending, tasks>>
    /\ UNCHANGED <<session, retry, stored, beat, net, budget>>

ResolutionEnds(n) ==
    /\ loop[n] = "resolving"
    /\ LoopConnects(n)
    /\ UNCHANGED <<session, retry, state, stored, beat, net, budget>>
-----------------------------------------------------------------------------
(***************************************************************************)
(* The process ends and starts again.  The reconnect manager starts empty, *)
(* start() does not connect to anyone and puts an archived contact back    *)
(* into that state.                                                        *)
(***************************************************************************)
Ends(n) ==
    /\ Spend("restart")
    /\ session' = [session EXCEPT ![n] = NoSession]
    /\ pending' = [pending EXCEPT ![n] = 0]
    /\ tasks' = [tasks EXCEPT ![n] = <<>>]
    /\ retry' = [retry EXCEPT ![n] = NoRetry]
    /\ state' = [state EXCEPT ![n] =
                     IF stored'[n] THEN "archived" ELSE "disconnected"]
    /\ entry' = [entry EXCEPT ![n] = NoEntry]
    /\ loop' = [loop EXCEPT ![n] = "idle"]
    /\ beat' = [beat EXCEPT ![n] = Still]
    /\ UNCHANGED net

Restart(n) == UNCHANGED stored /\ Ends(n)

\* The manage dialog archives the contact or takes it back, with a session or
\* without: set_peer_archived up to its await.
UserArchives(n) ==
    /\ Spend("archive")
    /\ \E archived \in BOOLEAN :
           tasks' = [tasks EXCEPT ![n] =
                         Append(@, [op |-> "archive", archived |-> archived])]
    /\ UNCHANGED <<session, pending, retry, state, stored, entry, loop, beat, net>>

(***************************************************************************)
(* The rest of set_peer_archived: the state follows the row, the session   *)
(* stays.  The ValueError that it does not catch ends the program.         *)
(***************************************************************************)
ArchiveSaved(n) ==
    /\ tasks[n] # <<>>
    /\ Head(tasks[n]).op = "archive"
    /\ LET archived == Head(tasks[n]).archived
           result == SetArchived(state[n], archived)
       IN  /\ stored' = [stored EXCEPT ![n] = archived]
           /\ \/ /\ ~result.raises
                 /\ state' = [state EXCEPT ![n] = result.state]
                 /\ tasks' = [tasks EXCEPT ![n] = Tail(@)]
                 /\ UNCHANGED <<session, pending, retry, entry, loop, beat, net,
                                budget>>
              \/ result.raises /\ Ends(n)

Lose(d) ==
    /\ Spend(IF d.type = "HELLO" THEN "loseHello" ELSE "loseAck")
    /\ net' = net \ {d}
    /\ UNCHANGED <<session, pending, tasks, retry, state, stored, entry, loop,
                   beat>>

Receive(n, d) ==
    /\ d.to = n
    /\ \/ d.type = "HELLO" /\ HandleHello(n, d)
       \/ d.type = "HELLO_ACK" /\ HandleHelloAck(n, d)

Task(n) ==
    \/ SendHello(n)
    \/ AnswerHello(n)
    \/ SessionSaved(n)
    \/ EndpointRemembered(n)
    \/ ArchiveSaved(n)

NodeStep(n) ==
    \/ UserSends(n)
    \/ UserArchives(n)
    \/ Task(n)
    \/ \E d \in net : Receive(n, d)
    \/ RetryHello(n)
    \/ PingMissed(n)
    \/ PingAnswered(n)
    \/ TakeUpEntry(n)
    \/ ResolutionEnds(n)
    \/ Restart(n)

Next ==
    \/ \E n \in Nodes : NodeStep(n)
    \/ \E d \in net : Lose(d)

Spec == Init /\ [][Next]_vars

(***************************************************************************)
(* The event loop runs every task that is ready, every timer that is due   *)
(* (strongly fair: a datagram in between only delays it) and every         *)
(* datagram the socket holds.  Losses are bounded by the budget; nothing   *)
(* is assumed of the user.                                                 *)
(***************************************************************************)
Fairness ==
    \A n \in Nodes :
        /\ WF_vars(Task(n))
        /\ WF_vars(\E d \in net : Receive(n, d))
        /\ SF_vars(RetryHello(n))
        /\ SF_vars(PingAnswered(n))
        /\ SF_vars(TakeUpEntry(n))
        /\ WF_vars(ResolutionEnds(n))

FairSpec == Spec /\ Fairness
-----------------------------------------------------------------------------
(***************************************************************************)
(* Two nodes that hold the same session_id derived their keys from the     *)
(* same HELLO, however the handshakes of both overlapped (handshake.py:    *)
(* the answer is verified against the HELLO that is pending).              *)
(***************************************************************************)
SameSessionSameKey ==
    session[1].sid = session[2].sid => session[1] = session[2]

(***************************************************************************)
(* A registered session is watched: its heartbeat runs, or the handler     *)
(* that registered it has yet to start it.  Otherwise a dead peer would    *)
(* stay connected for good.                                                *)
(***************************************************************************)
WatchedSession ==
    \A n \in Nodes :
        HasSession(n) => \/ beat[n] # Still
                         \/ \E i \in DOMAIN tasks[n] :
                                tasks[n][i].op \in {"savedResponder",
                                    "savedInitiator", "remembered"}


(***************************************************************************)
(* A contact once connected is not given up: while the node runs there is  *)
(* a session, or an entry of the reconnect loop to get one, whatever       *)
(* overlaps with the loss of the session (_handle_peer_disconnect,         *)
(* record_connect, record_attempt).                                        *)
(***************************************************************************)
Held(n) == HasSession(n) \/ entry[n] # NoEntry

NotGivenUp ==
    [][\A n \in Nodes :
          Held(n) => Held(n)' \/ budget'["restart"] < budget["restart"]]_vars

(***************************************************************************)
(* What the repository says of connecting, and the code does not keep.     *)
(***************************************************************************)

(***************************************************************************)
(* A contact that the reconnect loop tries to reach is reached in the end, *)
(* both nodes running and the losses over (project_requirements.md:        *)
(* "Probabilistic eventual reconnection").                                 *)
(***************************************************************************)
Reconnects == \A n \in Nodes : entry[n] # NoEntry ~> HasSession(n)

(***************************************************************************)
(* A session is not replaced by another ("if we already have a session     *)
(* with this peer, skip", _handle_hello).                                  *)
(***************************************************************************)
KeepsSession ==
    [][\A n \in Nodes :
          HasSession(n) => session'[n] \in {session[n], NoSession}]_vars

(***************************************************************************)
(* When both connect at once one handshake succeeds: with nothing under    *)
(* way the nodes do not hold two different sessions (test_chaos.py: "both  *)
(* peers try -> one succeeds").                                            *)
(***************************************************************************)
Agreed == session[1] = session[2] /\ session[1] # NoSession

OneSucceeds ==
    net = {} /\ (\A n \in Nodes : tasks[n] = <<>>)
        => (\E n \in Nodes : ~HasSession(n)) \/ Agreed

(***************************************************************************)
(* A node that has given up a connection has waited for the answer to each *)
(* of its HELLOs ("no response after 7 attempts", _retry_hello).           *)
(***************************************************************************)
GivesUpUnanswered ==
    \A n \in Nodes :
        ~HasSession(n) /\ pending[n] = 0 /\ tasks[n] = <<>>
            => ~\E d \in net : d.type = "HELLO" /\ d.to = Other(n)

(***************************************************************************)
(* connect_to_peer retries: a pending HELLO without a session has a retry  *)
(* task, or is just about to be sent ("Initiate HELLO to peer endpoint     *)
(* with retry").                                                           *)
(***************************************************************************)
PendingIsRetried ==
    \A n \in Nodes :
        pending[n] # 0 /\ ~HasSession(n) /\ tasks[n] = <<>>
            => retry[n] # NoRetry

(***************************************************************************)
(* A contact shown as connecting is being connected to: there is a pending *)
(* HELLO, a handler under way, or the reconnect loop has it.               *)
(***************************************************************************)
ConnectingIsTried ==
    \A n \in Nodes :
        state[n] = "connecting"
            => Held(n) \/ pending[n] # 0 \/ tasks[n] # <<>>

(***************************************************************************)
(* A contact that missed that many pings is shown as suspect               *)
(* (project_requirements.md: "3 missed pings -> SUSPECT").                 *)
(***************************************************************************)
MissedIsSuspect ==
    \A n \in Nodes : beat[n] >= SuspectMissed => state[n] = "suspect"
=============================================================================
