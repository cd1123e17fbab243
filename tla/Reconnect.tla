----------------------------- MODULE Reconnect -----------------------------
(***************************************************************************)
(* The reconnect manager (reconnect.py) over days: when a lost contact is  *)
(* tried again, when it is archived, and what the user's own archiving     *)
(* (node.py, set_peer_archived) does meanwhile.  One contact.              *)
(*                                                                         *)
(* Times are in seconds and relative: an entry holds its age and the time  *)
(* to its next retry, so nothing bounds how long the node runs.            *)
(*                                                                         *)
(* The loop is one task.  It handles the contacts one after the other and  *)
(* waits for each: for others before this one, for the resolution of this  *)
(* one's endpoint, for storage.  What the rest of the node does meanwhile  *)
(* comes in between.  The messages of a handshake are in module            *)
(* Connection; here a HELLO is answered or it expires.  The contact has an *)
(* endpoint throughout.                                                    *)
(***************************************************************************)
EXTENDS PeerState, Integers, Sequences, FiniteSetsExt

CONSTANTS
    BACKOFF_SCHEDULE,
    ARCHIVE_AFTER,      \* ARCHIVE_DAYS in seconds
    ARCHIVE_RETRY,
    LOOP,               \* the loop sleeps this long between passes
    RESOLVE_TIMEOUT,    \* resolve_peer waits this long at most
    OTHERS,             \* a pass waits this long for other contacts at most
    HELLO_TIME          \* from the first HELLO to the last retry

ASSUME ReconnectAssumption ==
    /\ BACKOFF_SCHEDULE \in Seq(Nat \ {0})
    /\ Len(BACKOFF_SCHEDULE) > 1
    /\ {ARCHIVE_AFTER, ARCHIVE_RETRY, LOOP, RESOLVE_TIMEOUT, HELLO_TIME}
         \subseteq Nat \ {0}
    /\ OTHERS \in Nat

VARIABLES
    session,    \* whether there is a session
    state,      \* PeerStateManager
    stored,     \* the archived column of the peers table
    entry,      \* _state: attempt, age (of first_disconnect), wait (next_retry)
    hello,      \* time left to the pending HELLO
    loop,       \* what _reconnect_loop waits for
    quiet,      \* time since a HELLO was first sent, or the session was lost
    away        \* time since there was a session

vars == <<session, state, stored, entry, hello, loop, quiet, away>>

NoEntry == [attempt |-> -1, age |-> 0, wait |-> 0]
NoHello == -1
Abandoned == -2     \* pending, and no task is left to repeat it or give it up

\* The loop at one of its awaits: at most left (asleep: at least left) more
\* seconds; same, while the entry is the one the pass found at its start.
Loop(at, left, same) == [at |-> at, left |-> left, same |-> same]
Asleep == Loop("asleep", LOOP, FALSE)

Longest == BACKOFF_SCHEDULE[Len(BACKOFF_SCHEDULE)]

\* From an entry falling due to the moment the loop is over with it: the
\* pass before, the sleep, and the pass.
PassTime == LOOP + 2 * OTHERS + RESOLVE_TIMEOUT

\* Clocks stop here: past every time the code or a property compares with.
Cap == ARCHIVE_AFTER + ARCHIVE_RETRY + Longest + HELLO_TIME + 2 * PassTime
Capped(t) == Min({t, Cap})

TypeOK ==
    /\ session \in BOOLEAN
    /\ state \in States \ {"idle", "suspect", "failed"}
    /\ stored \in BOOLEAN
    /\ entry = NoEntry \/ /\ entry.attempt \in 0..Len(BACKOFF_SCHEDULE)
                          /\ entry.age \in 0..Cap
                          /\ entry.wait \in -PassTime..Max({Longest, ARCHIVE_RETRY})
    /\ hello \in Abandoned..HELLO_TIME
    /\ loop.at \in {"asleep", "others", "archiving", "resolving", "connecting"}
    /\ loop.left \in 0..Max({LOOP, OTHERS, RESOLVE_TIMEOUT})
    /\ loop.same \in BOOLEAN
    /\ quiet \in 0..Cap
    /\ away \in 0..Cap

Init ==
    /\ session = FALSE
    /\ state = "disconnected"
    /\ stored = FALSE
    /\ entry = NoEntry
    /\ hello = NoHello
    /\ loop = Loop("asleep", 0, FALSE)
    /\ quiet = Cap
    /\ away = Cap
-----------------------------------------------------------------------------
\* Mutant: past the end of the schedule a day is waited.
GetBackoffLong(attempt) ==
    IF attempt >= Len(BACKOFF_SCHEDULE) THEN ARCHIVE_RETRY
    ELSE BACKOFF_SCHEDULE[attempt + 1]

\* get_backoff; the schedule is indexed from 0 in the code.
GetBackoff(attempt) ==
    IF attempt >= Len(BACKOFF_SCHEDULE) THEN Longest
    ELSE BACKOFF_SCHEDULE[attempt + 1]

RecordDisconnect ==
    entry' = IF entry # NoEntry THEN entry
             ELSE [attempt |-> 0, age |-> 0, wait |-> BACKOFF_SCHEDULE[1]]

\* Mutant: the entry outlives the outage.
RecordConnectKeeps == UNCHANGED entry

RecordConnect == entry' = NoEntry

\* record_attempt on entry e, or on the one it creates.  Attempts beyond the
\* schedule are not told apart.
AfterAttempt(e) ==
    LET old == IF e # NoEntry THEN e ELSE [attempt |-> 0, age |-> 0, wait |-> 0]
        attempt == Min({old.attempt + 1, Len(BACKOFF_SCHEDULE)})
    IN  [old EXCEPT !.attempt = attempt, !.wait = GetBackoff(attempt)]
-----------------------------------------------------------------------------
Pending == hello # NoHello

\* send_message to a contact without a session: connect_to_peer, which does
\* nothing while a HELLO is pending.
UserSends ==
    /\ ~session /\ ~Pending
    /\ state' = Try(state, "connecting")
    /\ hello' = HELLO_TIME
    /\ quiet' = 0
    /\ UNCHANGED <<session, stored, entry, loop, away>>

\* The last HELLO was sent: _retry_hello gives up.
HelloExpires ==
    /\ hello = 0
    /\ hello' = NoHello
    /\ state' = Try(state, "disconnected")
    /\ RecordDisconnect
    /\ UNCHANGED <<session, stored, loop, quiet, away>>

\* _handle_hello_ack takes the pending HELLO and makes no session of it.
AnswerIgnored ==
    /\ Pending
    /\ hello' = NoHello
    /\ quiet' = IF hello = Abandoned THEN 0 ELSE quiet
    /\ UNCHANGED <<session, state, stored, entry, loop, away>>

(***************************************************************************)
(* A handshake ends, started by either side.  A HELLO that was noted while *)
(* one of the contact's was being handled stays pending; _retry_hello      *)
(* finds the session and ends.                                             *)
(***************************************************************************)
SessionMade ==
    /\ ~session
    /\ session' = TRUE
    /\ \/ hello' = NoHello
       \/ hello >= 0 /\ hello' = Abandoned
    /\ state' = MarkConnected(state)
    /\ RecordConnect
    /\ loop' = [loop EXCEPT !.same = FALSE]
    /\ away' = 0
    /\ UNCHANGED <<stored, quiet>>

\* _handle_peer_disconnect.
SessionLost ==
    /\ session
    /\ session' = FALSE
    /\ state' = Try(state, "disconnected")
    /\ RecordDisconnect
    /\ quiet' = 0
    /\ UNCHANGED <<stored, hello, loop, away>>
-----------------------------------------------------------------------------
(***************************************************************************)
(* A pass of the loop that finds the entry due.  The passes that do not    *)
(* leave it alone, and are only time the loop takes.                       *)
(***************************************************************************)
Due == entry # NoEntry /\ entry.wait <= 0

PassBegins ==
    /\ loop.at = "asleep" /\ loop.left = 0
    /\ Due
    /\ loop' = Loop("others", OTHERS, TRUE)
    /\ UNCHANGED <<session, state, stored, entry, hello, quiet, away>>

ShouldArchive == entry.age > ARCHIVE_AFTER

\* record_attempt, and the contacts that follow.
Attempted(e) == entry' = AfterAttempt(e) /\ loop' = Asleep

\* connect_to_peer up to its await, called by _reconnect_peer.
LoopConnects ==
    \/ /\ session \/ Pending
       /\ Attempted(entry)
       /\ UNCHANGED hello
    \/ /\ ~session /\ ~Pending
       /\ hello' = HELLO_TIME
       /\ loop' = [loop EXCEPT !.at = "connecting"]
       /\ UNCHANGED entry

(***************************************************************************)
(* The contact's turn, when the others before it are done: it is archived  *)
(* if its entry is old enough by now; otherwise _reconnect_peer runs.  It  *)
(* drops the entry of a contact that is connected, for record_attempt to   *)
(* make a new one; it resolves the endpoint but for the first attempt.     *)
(***************************************************************************)
TakeUp ==
    /\ loop.at = "others"
    /\ \/ /\ ShouldArchive
          /\ loop' = [loop EXCEPT !.at = "archiving"]
          /\ UNCHANGED <<state, entry, hello>>
       \/ /\ ~ShouldArchive /\ session
          /\ Attempted(NoEntry)
          /\ UNCHANGED <<state, hello>>
       \/ /\ ~ShouldArchive /\ ~session /\ entry.attempt > 0
          /\ state' = Try(state, "resolving")
          /\ loop' = Loop("resolving", RESOLVE_TIMEOUT, loop.same)
          /\ UNCHANGED <<entry, hello>>
       \/ /\ ~ShouldArchive /\ ~session /\ entry.attempt <= 0
          /\ LoopConnects
          /\ UNCHANGED state
    /\ UNCHANGED <<session, stored, quiet, away>>

\* resolve_peer is answered or times out, and the endpoint is remembered.
Resolved ==
    /\ loop.at = "resolving"
    /\ LoopConnects
    /\ UNCHANGED <<session, state, stored, quiet, away>>

\* The rest of connect_to_peer: the HELLO leaves, also beside a session.
HelloSent ==
    /\ loop.at = "connecting"
    /\ state' = Try(state, "connecting")
    /\ quiet' = 0
    /\ Attempted(entry)
    /\ UNCHANGED <<session, stored, hello, away>>

(***************************************************************************)
(* set_peer_archived, whatever it raises; the next retry is set in the     *)
(* entry the pass found, a day from the start of the pass.                 *)
(***************************************************************************)
Archived ==
    /\ loop.at = "archiving"
    /\ stored' = TRUE
    /\ state' = SetArchived(state, TRUE).state
    /\ entry' = IF loop.same
                THEN [entry EXCEPT !.wait = ARCHIVE_RETRY - (OTHERS - loop.left)]
                ELSE entry
    /\ loop' = Asleep
    /\ UNCHANGED <<session, hello, quiet, away>>
-----------------------------------------------------------------------------
\* The user archives the contact or takes it back (the manage dialog).
UserArchives ==
    /\ stored' \in BOOLEAN
    /\ state' = SetArchived(state, stored').state
    /\ UNCHANGED <<session, entry, hello, loop, quiet, away>>

\* stop() and start(): archived contacts are put back into that state, the
\* reconnect manager starts empty.
Restart ==
    /\ session' = FALSE
    /\ state' = IF stored THEN "archived" ELSE "disconnected"
    /\ entry' = NoEntry
    /\ hello' = NoHello
    /\ loop' = Loop("asleep", 0, FALSE)
    /\ UNCHANGED <<stored, quiet, away>>

(***************************************************************************)
(* No task oversleeps.  Storage answers at once.  The loop, wherever it    *)
(* was when the entry fell due, has ended that pass and slept by then.     *)
(***************************************************************************)
NotOverslept(d) ==
    /\ hello >= 0 => d <= hello
    /\ loop.at \notin {"archiving", "connecting"}
    /\ loop.at \in {"others", "resolving"} => d <= loop.left
    /\ loop.at = "asleep" /\ entry # NoEntry => d <= entry.wait + OTHERS + LOOP

\* Time passes until the HELLO expires, the entry is due, the loop may go on
\* or must.
Elapse ==
    \E d \in {hello, loop.left, entry.wait, entry.wait + OTHERS + LOOP} :
        /\ d > 0
        /\ entry # NoEntry \/ hello >= 0 \/ loop.at # "asleep"
        /\ NotOverslept(d)
        /\ hello' = IF hello >= 0 THEN hello - d ELSE hello
        /\ loop' = [loop EXCEPT !.left = Max({0, @ - d})]
        /\ entry' = IF entry = NoEntry THEN NoEntry
                    ELSE [entry EXCEPT !.age = Capped(@ + d), !.wait = @ - d]
        /\ quiet' = Capped(quiet + d)
        /\ away' = IF session THEN 0 ELSE Capped(away + d)
        /\ UNCHANGED <<session, state, stored>>

Next ==
    \/ UserSends \/ HelloExpires \/ AnswerIgnored
    \/ SessionMade \/ SessionLost
    \/ PassBegins \/ TakeUp \/ Resolved \/ HelloSent \/ Archived
    \/ UserArchives
    \/ Restart
    \/ Elapse

Spec == Init /\ [][Next]_vars
-----------------------------------------------------------------------------
(***************************************************************************)
(* A lost contact is sent a HELLO at least once in the longest interval of *)
(* the schedule, but for the time the loop takes to get to it, until it is *)
(* archived: though passes that find a HELLO pending count as attempts,    *)
(* and the loop serves the other contacts first (record_attempt,           *)
(* _reconnect_peer).  An abandoned HELLO blocks every other: see           *)
(* PendingIsRetried in module Connection.                                  *)
(***************************************************************************)
TriedWithinLongest ==
    entry # NoEntry /\ ~session /\ ~ShouldArchive /\ hello # Abandoned
        => quiet <= HELLO_TIME + Longest + PassTime

(***************************************************************************)
(* A contact is archived for its absence, and not for an older one.  The   *)
(* loop makes a new entry for a contact that got connected while it was    *)
(* being resolved, and again in every pass that follows, so that the entry *)
(* of the next outage is older than that by one interval and one pass of   *)
(* the loop at most (record_connect, record_attempt, record_disconnect).   *)
(***************************************************************************)
AgeIsAbsence ==
    entry # NoEntry /\ ~session
        => entry.age <= away + GetBackoff(1) + LOOP + 2 * OTHERS

(***************************************************************************)
(* An archived contact is still tried every day (reconnect.py: "Archived   *)
(* peers retry every 24h").                                                *)
(***************************************************************************)
ArchivedIsRetried ==
    entry # NoEntry /\ ~session
        => quiet <= HELLO_TIME + Longest + ARCHIVE_RETRY + 2 * PassTime

(***************************************************************************)
(* A contact that the user took back is no longer in the archived state    *)
(* (the manage dialog offers "Unarchive").                                 *)
(***************************************************************************)
ArchivedIsStored == state = "archived" => stored
=============================================================================
