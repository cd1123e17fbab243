----------------------------- MODULE DataFiles -----------------------------
(***************************************************************************)
(* The files a node starts from: its identity (identity.py), its settings  *)
(* (config.py), and the outgoing messages with their bodies in files and   *)
(* their rows in the database (storage.py); how node.start reads them back *)
(* and what the dialogs write, with the power failing at any point.        *)
(*                                                                         *)
(* The key and the settings are written in place and not synced: a power   *)
(* failure leaves the old contents or any prefix of the new.  A body is    *)
(* written to a temporary file, synced and renamed, which is one step      *)
(* here; the rows are committed.  The file system is a journaling one: a   *)
(* commit of the database syncs the directory entries made before it, not  *)
(* what the files hold (external).  One contact.                           *)
(***************************************************************************)
EXTENDS Naturals, Sequences

CONSTANTS
    Keys,           \* key pairs that may be generated
    Networks,       \* values of the settings, one of them the default
    Nicknames,      \* values of the profile, one of them the default
    TooLong,        \* those _validate_nickname refuses
    Default,
    Messages,
    Legacy,         \* messages an older version left with the body in the row
    MaxEdits,       \* bound: saves by the dialogs
    MaxDialogs,     \* bound: settings dialogs one above the other
    MaxFailures     \* bound: power failures

ASSUME FilesAssumption ==
    /\ Default \in Networks \cap (Nicknames \ TooLong)
    /\ Legacy \subseteq Messages
    /\ {"none", "torn"} \cap Keys = {}
    /\ MaxEdits \in Nat /\ MaxDialogs \in Nat /\ MaxFailures \in Nat

VARIABLES
    keyFile,    \* identity/private_key.pem
    config,     \* config.toml
    onDisk,     \* config.toml as it was last synced (external)
    unsynced,   \* what is not yet synced (external): "config", "key", and
                \* "entry", the key's directory entry
    bodies,     \* the key under which the outbox holds each message, or "none"
    rows,       \* each message's row: "none", "queued" (any status that start
                \* restores) or "failed"
    plain,      \* messages whose row holds the body
    phase,      \* what start does next, "down" or "up"
    identity,   \* Node.identity
    queue,      \* QueueManager._queue
    restoring,  \* messages start has yet to restore
    clearing,   \* the one whose body it has taken from the row
    sending,    \* messages whose body is stored and whose row is not
    removing,   \* remove_peer has deleted the bodies, not yet the rows
    drafts,     \* the SettingsDialogs, the top one first: _draft, _original
    removed,    \* messages whose body remove_peer deleted (history)
    ran,        \* identities the node has run under (history)
    edits, failures     \* events so far

files == <<keyFile, config, onDisk, unsynced, bodies, rows, plain>>
memory == <<identity, queue, restoring, clearing, sending, removing, drafts>>
history == <<removed, ran, edits, failures>>
fileVars == <<files, phase, memory, history>>

Defaults == [network |-> Default, nickname |-> Default]
Absent == [network |-> "none", nickname |-> "none"]     \* no file
Torn == [network |-> "torn", nickname |-> "torn"]       \* does not parse

FilesInit ==
    /\ keyFile = "none" /\ config = Absent /\ onDisk = Absent /\ unsynced = {}
    /\ bodies = [m \in Messages |-> "none"] /\ plain = Legacy
    /\ rows = [m \in Messages |-> IF m \in Legacy THEN "queued" ELSE "none"]
    /\ phase = "down" /\ identity = "none"
    /\ queue = {} /\ restoring = {} /\ clearing = {} /\ sending = {}
    /\ removing = FALSE
    /\ drafts = <<>>
    /\ removed = {} /\ ran = {}
    /\ edits = 0 /\ failures = 0
-----------------------------------------------------------------------------
(***************************************************************************)
(* main and node.start.  load_config writes the default file if there is   *)
(* none, and an empty file reads as the defaults.  A file that does not    *)
(* parse or validate ends the program, now and at every later start.       *)
(***************************************************************************)
Loads(c) == c # Torn /\ c.nickname \notin TooLong

LoadConfig ==
    /\ phase = "down"
    /\ Loads(config)
    /\ config' = IF config = Absent THEN Defaults ELSE config
    /\ unsynced' = IF config = Absent THEN unsynced \cup {"config"} ELSE unsynced
    /\ phase' = "identity"
    /\ UNCHANGED <<keyFile, onDisk, bodies, rows, plain, memory, removed, ran,
                   edits, failures>>

\* Mutant: a key file that cannot be read is replaced, too.
MayGenerateAlways == keyFile \notin Keys

\* load_identity raises FileNotFoundError.
MayGenerate == keyFile = "none"

\* load_or_generate_identity: the key there is, or a new one that is saved.
LoadIdentity ==
    /\ phase = "identity"
    /\ \/ /\ keyFile \in Keys
          /\ identity' = keyFile
          /\ UNCHANGED <<keyFile, unsynced>>
       \/ /\ MayGenerate
          /\ identity' \in Keys \ ran
          /\ keyFile' = identity'
          /\ unsynced' = unsynced \cup {"key", "entry"}
    /\ phase' = "storage"
    /\ UNCHANGED <<config, onDisk, bodies, rows, plain, queue, restoring, clearing,
                   sending, removing, drafts, history>>

\* storage.initialize, which commits, and load_all_queued_messages.
OpenStorage ==
    /\ phase = "storage"
    /\ phase' = "restore"
    /\ restoring' = {m \in Messages : rows[m] = "queued"}
    /\ unsynced' = unsynced \ {"entry"}
    /\ UNCHANGED <<keyFile, config, onDisk, bodies, rows, plain, identity, queue,
                   clearing, sending, removing, drafts, history>>

\* What the process holds ends with it.
MemoryLost ==
    /\ phase' = "down" /\ identity' = "none"
    /\ queue' = {} /\ restoring' = {} /\ clearing' = {} /\ sending' = {}
    /\ removing' = FALSE /\ drafts' = <<>>

\* Any other error of load_identity, and a port that start_udp_listener
\* cannot bind, end the program.
StartFails ==
    /\ \/ phase = "identity" /\ keyFile \notin Keys /\ ~MayGenerate
       \/ phase = "restore" /\ restoring = {} /\ clearing = {}
    /\ MemoryLost
    /\ UNCHANGED <<files, history>>

(***************************************************************************)
(* The restored messages: the body from the outbox, if this identity's key *)
(* decrypts it, or from the row, and then stored in the outbox and, after  *)
(* another await, cleared; a message with neither is marked failed.        *)
(***************************************************************************)
LoadMessage(m) == bodies[m] = identity
StoreMessage(m) == bodies' = [bodies EXCEPT ![m] = identity]

Restore(m) ==
    /\ phase = "restore" /\ clearing = {}
    /\ m \in restoring
    /\ \/ /\ LoadMessage(m)
          /\ queue' = queue \cup {m}
          /\ UNCHANGED <<bodies, rows, clearing>>
       \/ /\ ~LoadMessage(m) /\ m \in plain
          /\ StoreMessage(m)
          /\ clearing' = {m}
          /\ UNCHANGED <<rows, queue>>
       \/ /\ ~LoadMessage(m) /\ m \notin plain
          /\ rows' = [rows EXCEPT ![m] = "failed"]
          /\ UNCHANGED <<bodies, queue, clearing>>
    /\ restoring' = restoring \ {m}
    /\ UNCHANGED <<keyFile, config, onDisk, unsynced, plain, phase, identity,
                   sending, removing, drafts, history>>

\* clear_message_plaintext, and restore_entry after it.
ClearPlaintext ==
    /\ clearing # {}
    /\ plain' = plain \ clearing
    /\ queue' = queue \cup clearing
    /\ clearing' = {}
    /\ UNCHANGED <<keyFile, config, onDisk, unsynced, bodies, rows, phase, identity,
                   restoring, sending, removing, drafts, history>>

Started ==
    /\ phase = "restore" /\ restoring = {} /\ clearing = {}
    /\ phase' = "up"
    /\ ran' = ran \cup {identity}
    /\ UNCHANGED <<files, memory, removed, edits, failures>>
-----------------------------------------------------------------------------
\* Every message has an id of its own (uuid4).
New(m) == bodies[m] = "none" /\ rows[m] = "none" /\ m \notin removed

\* Mutant: the row is written at once and the body is not.
SendRowOnly(m) ==
    /\ phase = "up"
    /\ New(m)
    /\ rows' = [rows EXCEPT ![m] = "queued"]
    /\ queue' = queue \cup {m} /\ sending' = sending \cup {m}
    /\ UNCHANGED <<keyFile, config, onDisk, unsynced, bodies, plain, phase, identity,
                   restoring, clearing, removing, drafts, history>>

\* send_message: enqueue and outbox.store_message ...
Send(m) ==
    /\ phase = "up"
    /\ New(m)
    /\ StoreMessage(m)
    /\ queue' = queue \cup {m} /\ sending' = sending \cup {m}
    /\ UNCHANGED <<keyFile, config, onDisk, unsynced, rows, plain, phase, identity,
                   restoring, clearing, removing, drafts, history>>

\* ... and, when its turn comes, storage.enqueue_message.
Enqueue(m) ==
    /\ m \in sending
    /\ sending' = sending \ {m}
    /\ rows' = [rows EXCEPT ![m] = "queued"]
    /\ UNCHANGED <<keyFile, config, onDisk, unsynced, bodies, plain, phase, identity,
                   queue, restoring, clearing, removing, drafts, history>>

\* remove_peer: the bodies of the messages in the queue, then the rows.
RemoveBodies ==
    /\ phase = "up" /\ ~removing
    /\ bodies' = [m \in Messages |-> IF m \in queue THEN "none" ELSE bodies[m]]
    /\ removed' = removed \cup queue
    /\ removing' = TRUE
    /\ UNCHANGED <<keyFile, config, onDisk, unsynced, rows, plain, phase, identity,
                   queue, restoring, clearing, sending, drafts, ran, edits,
                   failures>>

RemoveRows ==
    /\ removing
    /\ removing' = FALSE
    /\ rows' = [m \in Messages |-> "none"]
    /\ plain' = {}
    /\ UNCHANGED <<keyFile, config, onDisk, unsynced, bodies, phase, identity, queue,
                   restoring, clearing, sending, drafts, history>>
-----------------------------------------------------------------------------
(***************************************************************************)
(* SettingsDialog.on_mount.  The app's keys have priority, so that a       *)
(* dialog opens above another as well; input reaches the top one.          *)
(***************************************************************************)
OpenSettings ==
    /\ phase = "up" /\ Loads(config)
    /\ Len(drafts) < MaxDialogs
    /\ drafts' = <<[network |-> config.network, original |-> config.network]>>
                 \o drafts
    /\ UNCHANGED <<files, phase, identity, queue, restoring, clearing, sending,
                   removing, history>>

\* EDIT: a value that _validate_value accepts.
EditSettings ==
    /\ drafts # <<>>
    /\ \E n \in Networks \ {drafts[1].network} :
          drafts' = [drafts EXCEPT ![1].network = n]
    /\ UNCHANGED <<files, phase, identity, queue, restoring, clearing, sending,
                   removing, history>>

CloseSettings ==
    /\ drafts # <<>>
    /\ drafts' = Tail(drafts)
    /\ UNCHANGED <<files, phase, identity, queue, restoring, clearing, sending,
                   removing, history>>

\* update_config and save_config, with the new values of some sections.
Write(new) ==
    /\ phase = "up" /\ Loads(config)
    /\ edits < MaxEdits
    /\ edits' = edits + 1
    /\ config' = new
    /\ unsynced' = unsynced \cup {"config"}
    /\ UNCHANGED <<keyFile, onDisk, bodies, rows, plain, phase, identity, queue,
                   restoring, clearing, sending, removing, removed, ran, failures>>

\* SettingsDialog: its whole draft, edited or not; the profile is what the
\* file has now.
SaveSettings ==
    /\ drafts # <<>>
    /\ Write([config EXCEPT !.network = Head(drafts).network])
    /\ drafts' = Tail(drafts)

(***************************************************************************)
(* ProfileDialog: the other sections are what the file has now.  The new   *)
(* nickname is written before anything validates it: the dialog then       *)
(* cannot read the settings back and the next Enter ends the program.  It  *)
(* opens above the settings, too.                                          *)
(***************************************************************************)
SetNickname(n) ==
    /\ Write([config EXCEPT !.nickname = n])
    /\ UNCHANGED drafts
-----------------------------------------------------------------------------
\* The user quits, or a dialog meets settings that it cannot load.
Quit ==
    /\ phase = "up"
    /\ MemoryLost
    /\ UNCHANGED <<files, history>>

\* The file system writes back what it has (external).
Flush ==
    /\ unsynced # {}
    /\ unsynced' = {}
    /\ onDisk' = config
    /\ UNCHANGED <<keyFile, config, bodies, rows, plain, phase, memory, history>>

(***************************************************************************)
(* What a power failure leaves of the two files (external).  A prefix of   *)
(* the settings may lack the nickname, or end within a number, or not      *)
(* parse.  The key's directory entry is synced by storage.initialize.      *)
(***************************************************************************)
KeyLeft ==
    IF "key" \notin unsynced THEN {keyFile}
    ELSE {keyFile, "torn"} \cup IF "entry" \in unsynced THEN {"none"} ELSE {}

ConfigLeft ==
    IF "config" \notin unsynced THEN {config}
    ELSE {config, onDisk, [config EXCEPT !.nickname = Default], Torn}
         \cup [network : Networks, nickname : {Default}]

PowerFails ==
    /\ failures < MaxFailures
    /\ failures' = failures + 1
    /\ keyFile' \in KeyLeft
    /\ config' \in ConfigLeft
    /\ onDisk' = config' /\ unsynced' = {}
    /\ MemoryLost
    /\ UNCHANGED <<bodies, rows, plain, removed, ran, edits>>

FilesNext ==
    \/ LoadConfig \/ LoadIdentity \/ OpenStorage \/ ClearPlaintext \/ Started
    \/ StartFails \/ Quit
    \/ RemoveBodies \/ RemoveRows
    \/ OpenSettings \/ EditSettings \/ CloseSettings \/ SaveSettings
    \/ \E n \in Nicknames : SetNickname(n)
    \/ \E m \in Messages : Restore(m) \/ Send(m) \/ Enqueue(m)
    \/ Flush \/ PowerFails

FilesSpec == FilesInit /\ [][FilesNext]_fileVars
-----------------------------------------------------------------------------
(***************************************************************************)
(* A node never runs under a second identity: a key that a power failure   *)
(* has torn keeps the node from starting (load_or_generate_identity        *)
(* catches FileNotFoundError and nothing else).                            *)
(***************************************************************************)
IdentityKept == \A k, l \in ran : k = l

(***************************************************************************)
(* Whenever power fails, the next start restores every message the user    *)
(* has queued; it gives up those alone whose contact was being removed     *)
(* (send_message stores the body before the row, remove_peer and start).   *)
(***************************************************************************)
QueuedIsRestored ==
    /\ phase = "up" => \A m \in Messages : rows[m] = "queued" => m \in queue
    /\ \A m \in Messages : rows[m] = "failed" => m \in removed

\* Not kept by the code: saving a dialog changes what the user changed in it,
\* and undoes nothing that was saved since it was opened.  A settings dialog
\* that has another above it saves the draft it was opened with.
SavesOnlyEdits ==
    [][edits' > edits /\ config'.network # config.network
           => Head(drafts).network # Head(drafts).original]_fileVars

\* Not kept by the code: a start leaves no body in the database (OutboxStore:
\* "Keeps message bodies out of SQLite").  Power fails between
\* store_message and clear_message_plaintext, and later starts find the
\* file and do not look at the row.
BodiesOutOfRows == phase = "up" => plain = {}

\* Not kept by the code: a node that has run can be started again.  The key
\* and the settings are not synced, and the profile dialog saves a nickname
\* that load_config refuses (save_config: "Persist validated config").
StartsAgain == phase = "down" => keyFile # "torn" /\ Loads(config)
=============================================================================
