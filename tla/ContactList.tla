---------------------------- MODULE ContactList ----------------------------
(***************************************************************************)
(* The contact list and the open conversation on the screen (ui/tui.py,    *)
(* ui/components.py), kept up to date by callbacks of the node.            *)
(*                                                                         *)
(* The node calls the application back with call_later: what it reports    *)
(* waits in inbox, in order.  A report that the contacts changed starts a  *)
(* worker that reads the peers table and rebuilds the list; the manage     *)
(* dialog rebuilds it by itself, too.  So the list is changed from three   *)
(* sides, by news that may be older than the list.                         *)
(*                                                                         *)
(* The node is abstract: rows, peer states, and the callbacks of each      *)
(* handler in their order.  Texts, names, order and filter of the list are *)
(* left out.                                                               *)
(***************************************************************************)
EXTENDS PeerState, FiniteSets, Sequences

CONSTANTS
    Peers, NoPeer,
    Calls       \* bound: how often each of Events happens

Events == {"add", "message", "step"}

ASSUME ListAssumption ==
    /\ NoPeer \notin Peers
    /\ Calls \in [Events -> Nat]

VARIABLES
    rows,       \* node: the peers that have a row in the peers table
    state,      \* node: PeerStateManager
    added,      \* node: peers whose row was inserted, not yet reported
    inbox,      \* app: callbacks of the node waiting, in order
    reads,      \* app: rebuilds of the list waiting for the table, in order
    shown,      \* Sidebar._peers
    icon,       \* the state shown of each
    unread,     \* the counter shown of each
    marked,     \* Sidebar._active_peer_id
    clicks,     \* PeerSelected messages on their way to the app
    open,       \* _active_peer_id of the app and of the chat view
    dialog,     \* PeerManageDialog: its peer, archived, and what it waits for
    running,    \* no handler has ended the program
    calls       \* events left

node == <<rows, state, added>>
sidebar == <<shown, icon, unread, marked>>
listVars == <<node, inbox, reads, sidebar, clicks, open, dialog, running, calls>>

NotRead == {NoPeer}     \* a rebuild that has no answer yet
NoDialog == [peer |-> NoPeer, archived |-> FALSE, at |-> "closed"]

Callbacks ==
    [on : {"peers"}] \cup [on : {"message"}, peer : Peers]
    \cup [on : {"state"}, peer : Peers, new : States]

ListTypeOK ==
    /\ rows \subseteq Peers /\ added \subseteq Peers
    /\ state \in [Peers -> States]
    /\ inbox \in Seq(Callbacks)
    /\ reads \in Seq([by : {"worker", "dialog"}, rows : SUBSET Peers \cup {NotRead}])
    /\ shown \subseteq Peers
    /\ icon \in [Peers -> States]
    /\ unread \in [Peers -> Nat]
    /\ marked \in Peers \cup {NoPeer} /\ open \in Peers \cup {NoPeer}
    /\ clicks \in Seq(Peers)
    /\ dialog \in [peer : Peers \cup {NoPeer}, archived : BOOLEAN,
                   at : {"closed", "menu", "removed", "refreshing"}]
    /\ running \in BOOLEAN
    /\ calls \in [Events -> Nat]

Call(e) ==
    /\ running
    /\ calls[e] > 0
    /\ calls' = [calls EXCEPT ![e] = @ - 1]

\* The first of the list, in the order of the table: any of them.
First(set, p) == p \in set \/ (set = {} /\ p = NoPeer)

\* The application is mounted: its list is what the table holds.
ListInit ==
    /\ rows \in SUBSET Peers
    /\ state \in [Peers -> {"disconnected", "connected", "archived"}]
    /\ \A p \in Peers \ rows : state[p] = "disconnected"
    /\ added = {} /\ inbox = <<>> /\ reads = <<>> /\ clicks = <<>>
    /\ shown = rows /\ icon = state
    /\ unread = [p \in Peers |-> 0]
    /\ marked \in Peers \cup {NoPeer} /\ First(rows, marked)
    /\ open = marked
    /\ dialog = NoDialog /\ running = TRUE
    /\ calls = Calls
-----------------------------------------------------------------------------
(***************************************************************************)
(* What the node reports.                                                  *)
(***************************************************************************)
PeersChanged == <<[on |-> "peers"]>>

\* update_state, for each state of a path.
Moves(p, path) ==
    [i \in DOMAIN path |-> [on |-> "state", peer |-> p, new |-> path[i]]]

Report(callbacks) == inbox' = inbox \o callbacks

\* _handle_hello and add_contact_from_invite: storage.add_peer, and what
\* follows when it is over.
AddPeer(p) ==
    /\ Call("add")
    /\ p \notin rows \cup added
    /\ rows' = rows \cup {p}
    /\ added' = added \cup {p}
    /\ UNCHANGED <<state, inbox, reads, sidebar, clicks, open, dialog, running>>

PeerAdded(p) ==
    /\ p \in added
    /\ added' = added \ {p}
    /\ Report(PeersChanged)
    /\ UNCHANGED <<rows, state, reads, sidebar, clicks, open, dialog, running, calls>>

(***************************************************************************)
(* One transition and no report of the contacts: connect_to_peer, the last *)
(* HELLO unanswered, _reconnect_peer resolving and failing.  The state     *)
(* machine and the timers of a contact that was removed go on.             *)
(***************************************************************************)
UpdateState(p) ==
    /\ Call("step")
    /\ p \in rows \/ state[p] # "disconnected"
    /\ \E s \in {"connecting", "disconnected", "resolving", "failed"} :
          /\ Allowed(state[p], s)
          /\ state[p] # "connected"
          /\ state' = [state EXCEPT ![p] = s]
          /\ Report(Moves(p, <<s>>))
    /\ UNCHANGED <<rows, added, reads, sidebar, clicks, open, dialog, running>>

\* _mark_peer_connected.
MarkPeerConnected(p) ==
    /\ Call("step")
    /\ p \in rows
    /\ state[p] # "connected"
    /\ state' = [state EXCEPT ![p] = MarkConnected(state[p])]
    /\ Report(Moves(p, ConnectPath(state[p])) \o PeersChanged)
    /\ UNCHANGED <<rows, added, reads, sidebar, clicks, open, dialog, running>>

\* _handle_peer_disconnect; the heartbeat of a removed contact goes on.
HandlePeerDisconnect(p) ==
    /\ Call("step")
    /\ state[p] = "connected"
    /\ state' = [state EXCEPT ![p] = "disconnected"]
    /\ Report(Moves(p, <<"disconnected">>) \o PeersChanged)
    /\ UNCHANGED <<rows, added, reads, sidebar, clicks, open, dialog, running>>

\* _handle_data notifies the UI.
MessageReceived(p) ==
    /\ Call("message")
    /\ p \in rows /\ state[p] = "connected"
    /\ Report(<<[on |-> "message", peer |-> p]>>)
    /\ UNCHANGED <<node, reads, sidebar, clicks, open, dialog, running>>
-----------------------------------------------------------------------------
(***************************************************************************)
(* The application handles one callback after the other.                   *)
(***************************************************************************)
On(kind) == running /\ inbox # <<>> /\ Head(inbox).on = kind
Handled == inbox' = Tail(inbox)

\* _do_handle_incoming.
HandleIncoming ==
    /\ On("message")
    /\ Handled
    /\ LET p == Head(inbox).peer
       IN  unread' = IF p # marked /\ p \in shown
                     THEN [unread EXCEPT ![p] = @ + 1] ELSE unread
    /\ UNCHANGED <<node, reads, shown, icon, marked, clicks, open, dialog,
                   running, calls>>

\* Mutant: the state of a contact in the list is left as it was.
HandleNewState ==
    /\ On("state")
    /\ Handled
    /\ LET p == Head(inbox).peer
       IN  /\ icon' = IF p \in shown THEN icon
                      ELSE [icon EXCEPT ![p] = Head(inbox).new]
           /\ shown' = shown \cup {p}
    /\ UNCHANGED <<node, reads, unread, marked, clicks, open, dialog, running, calls>>

\* _do_handle_state_change: a peer that is not in the list is added to it.
HandleStateChange ==
    /\ On("state")
    /\ Handled
    /\ LET p == Head(inbox).peer
       IN  /\ icon' = [icon EXCEPT ![p] = Head(inbox).new]
           /\ shown' = shown \cup {p}
           /\ unread' = IF p \in shown THEN unread ELSE [unread EXCEPT ![p] = 0]
           /\ marked' = IF marked = NoPeer THEN p ELSE marked
    /\ UNCHANGED <<node, reads, clicks, open, dialog, running, calls>>

Rebuild(by) == [by |-> by, rows |-> NotRead]

\* Mutant: a rebuild that is under way is kept instead.
RestartKept ==
    IF \E i \in DOMAIN reads : reads[i].by = "worker" THEN reads
    ELSE Append(reads, Rebuild("worker"))

\* run_worker, exclusive: a worker that is under way is cancelled.
Restart ==
    LET other(read) == read.by # "worker"
    IN  Append(SelectSeq(reads, other), Rebuild("worker"))

\* _schedule_peer_refresh.
SchedulePeerRefresh ==
    /\ On("peers")
    /\ Handled
    /\ reads' = Restart
    /\ UNCHANGED <<node, sidebar, clicks, open, dialog, running, calls>>

\* storage.get_all_peers, one query after the other.
GetAllPeers ==
    \E i \in DOMAIN reads :
        /\ reads[i].rows = NotRead
        /\ \A j \in 1 .. i - 1 : reads[j].rows # NotRead
        /\ reads' = [reads EXCEPT ![i].rows = rows]
        /\ UNCHANGED <<node, inbox, sidebar, clicks, open, dialog, running, calls>>

(***************************************************************************)
(* The rest of refresh_peers_from_node: the list is rebuilt from the rows  *)
(* that were read and the states there are by now, with no unread          *)
(* counters; replace_peers keeps the mark if it can, and the marked        *)
(* contact is opened.                                                      *)
(***************************************************************************)
ReplacePeers ==
    /\ running
    /\ reads # <<>> /\ Head(reads).rows # NotRead
    /\ reads' = Tail(reads)
    /\ shown' = Head(reads).rows
    /\ icon' = state
    /\ unread' = [p \in Peers |-> 0]
    /\ IF marked \in shown' THEN marked' = marked
       ELSE \E p \in Peers \cup {NoPeer} : First(shown', p) /\ marked' = p
    /\ open' = marked'
    /\ dialog' = IF Head(reads).by = "dialog" THEN [dialog EXCEPT !.at = "menu"]
                 ELSE dialog
    /\ UNCHANGED <<node, inbox, clicks, running, calls>>

\* on_sidebar_peer_selected.
PeerSelected ==
    /\ running
    /\ clicks # <<>>
    /\ clicks' = Tail(clicks)
    /\ open' = Head(clicks)
    /\ unread' = [unread EXCEPT ![Head(clicks)] = 0]
    /\ UNCHANGED <<node, inbox, reads, shown, icon, marked, dialog, running, calls>>
-----------------------------------------------------------------------------
\* Mutant: the counter of the contact is not cleared.
ClearUnreadNot(p) == UNCHANGED unread

ClearUnread(p) == unread' = [unread EXCEPT ![p] = 0]

\* on_list_view_selected.
SelectInList(p) ==
    /\ Call("step")
    /\ dialog = NoDialog
    /\ p \in shown
    /\ marked' = p
    /\ ClearUnread(p)
    /\ clicks' = Append(clicks, p)
    /\ UNCHANGED <<node, inbox, reads, shown, icon, open, dialog, running>>

\* action_manage_peer: the dialog keeps whether the peer is archived now.
ManagePeer ==
    /\ Call("step")
    /\ dialog = NoDialog
    /\ marked # NoPeer
    /\ dialog' = [peer |-> marked, archived |-> state[marked] = "archived",
                  at |-> "menu"]
    /\ UNCHANGED <<node, inbox, reads, sidebar, clicks, open, running>>

\* The dialog has called the node and rebuilds the list itself.
DialogRefresh ==
    /\ reads' = Append(reads, Rebuild("dialog"))
    /\ dialog' = [dialog EXCEPT !.at = "refreshing"]

InMenu == running /\ dialog.at = "menu"

\* 1: rename_peer.
Rename ==
    /\ InMenu
    /\ Call("step")
    /\ Report(PeersChanged)
    /\ DialogRefresh
    /\ UNCHANGED <<node, sidebar, clicks, open, running>>

\* set_peer_archived takes a connected peer through disconnected.
ArchivePath(s, archived) ==
    LET to == SetArchived(s, archived).state
    IN  IF to = s THEN <<>>
        ELSE IF Allowed(s, to) THEN <<to>> ELSE <<"disconnected", to>>

(***************************************************************************)
(* 2: set_peer_archived, to the opposite of what the dialog last knew.  An *)
(* archived peer cannot become disconnected: the ValueError ends the       *)
(* program.                                                                *)
(***************************************************************************)
Archive ==
    /\ InMenu
    /\ Call("step")
    /\ LET p == dialog.peer
           target == ~dialog.archived
           result == SetArchived(state[p], target)
       IN  /\ state' = [state EXCEPT ![p] = result.state]
           /\ \/ /\ result.raises
                 /\ running' = FALSE
                 /\ UNCHANGED <<inbox, reads, dialog>>
              \/ /\ ~result.raises
                 /\ Report(Moves(p, ArchivePath(state[p], target)) \o PeersChanged)
                 /\ reads' = Append(reads, Rebuild("dialog"))
                 /\ dialog' = [dialog EXCEPT !.archived = target, !.at = "refreshing"]
                 /\ UNCHANGED running
    /\ UNCHANGED <<rows, added, sidebar, clicks, open>>

\* 3: remove_peer, up to the last statement, and the rest of it.
RemoveRows ==
    /\ InMenu
    /\ Call("step")
    /\ rows' = rows \ {dialog.peer}
    /\ dialog' = [dialog EXCEPT !.at = "removed"]
    /\ UNCHANGED <<state, added, inbox, reads, sidebar, clicks, open, running>>

RemovePeer ==
    /\ running
    /\ dialog.at = "removed"
    /\ Report(PeersChanged)
    /\ DialogRefresh
    /\ UNCHANGED <<node, sidebar, clicks, open, running, calls>>

\* 4, and after renaming or removing: dismiss and _on_dialog_dismiss.
Dismiss ==
    /\ InMenu
    /\ dialog' = NoDialog
    /\ reads' = Restart
    /\ UNCHANGED <<node, inbox, sidebar, clicks, open, running, calls>>

App ==
    \/ HandleIncoming \/ HandleStateChange \/ SchedulePeerRefresh
    \/ GetAllPeers \/ ReplacePeers \/ PeerSelected \/ RemovePeer

ListNext ==
    \/ App
    \/ ManagePeer \/ Rename \/ Archive \/ RemoveRows \/ Dismiss
    \/ \E p \in Peers :
          \/ AddPeer(p) \/ PeerAdded(p) \/ UpdateState(p)
          \/ MarkPeerConnected(p) \/ HandlePeerDisconnect(p)
          \/ MessageReceived(p) \/ SelectInList(p)

ListSpec == ListInit /\ [][ListNext]_listVars

(***************************************************************************)
(* The event loop runs what is ready and the database answers.             *)
(***************************************************************************)
FairListSpec ==
    /\ ListSpec
    /\ WF_listVars(HandleIncoming \/ HandleStateChange \/ SchedulePeerRefresh)
    /\ WF_listVars(GetAllPeers)
    /\ WF_listVars(ReplacePeers)
    /\ WF_listVars(PeerSelected)
    /\ \A p \in Peers : WF_listVars(PeerAdded(p))
-----------------------------------------------------------------------------
\* Nothing is on its way to the screen.
Settled ==
    /\ running /\ added = {}
    /\ inbox = <<>> /\ reads = <<>> /\ clicks = <<>>
    /\ dialog.at # "removed"

(***************************************************************************)
(* Once nothing is on its way the list has every contact of the database:  *)
(* of the rebuilds that overlap, the one that is left has seen the last    *)
(* change (exclusive worker, and the dialog's own rebuild).                *)
(***************************************************************************)
EveryContactShown == Settled => rows \subseteq shown

(***************************************************************************)
(* ... and shows the state each contact has, although a rebuild reads the  *)
(* states at once and the transitions arrive one by one behind it          *)
(* (refresh_peers_from_node, _do_handle_state_change).                     *)
(***************************************************************************)
StateShown == Settled => \A p \in rows : icon[p] = state[p]

(***************************************************************************)
(* The contact marked in the list has no unread messages, whichever way it *)
(* came to be marked (set_active_peer, replace_peers, add_peer).           *)
(***************************************************************************)
MarkedIsRead == marked # NoPeer => unread[marked] = 0

(***************************************************************************)
(* Every contact that is added gets into the list, unless it is removed or *)
(* the program ends first, however often rebuilds are cancelled.           *)
(***************************************************************************)
EventuallyShown ==
    \A p \in Peers : p \in rows ~> (p \in shown \/ p \notin rows \/ ~running)

(***************************************************************************)
(* What the user relies on, and the code does not keep: the contact marked *)
(* in the list is the one whose conversation is open, and to whom the      *)
(* input line sends; but for contacts that were removed (_set_active_peer, *)
(* replace_peers, on_sidebar_peer_selected).                               *)
(***************************************************************************)
MarkedIsOpen ==
    Settled /\ {marked, open} \subseteq rows => marked = open
=============================================================================
