-------------------------- MODULE DataFilesProofs --------------------------
(***************************************************************************)
(* Proofs about DataFiles, for every set of keys, messages and settings.   *)
(*                                                                         *)
(* That a start finds every queued message rests on the identity: a body   *)
(* is of use only under the key it was encrypted with.  So the invariant   *)
(* says that every body and every identity the node ran under belong to    *)
(* the one key in the key file, unless that is torn, and that a key whose  *)
(* directory entry may still be lost has encrypted nothing.                *)
(***************************************************************************)
EXTENDS DataFiles, TLAPS

KeyInv ==
    /\ keyFile \in Keys \cup {"none", "torn"}
    /\ phase \in {"down", "identity", "storage", "restore", "up"}
    /\ phase \in {"storage", "restore", "up"} => identity = keyFile /\ keyFile \in Keys
    /\ "entry" \in unsynced => phase = "storage"
    /\ bodies \in [Messages -> Keys \cup {"none"}]
    /\ "entry" \in unsynced => ran = {} /\ \A m \in Messages : bodies[m] = "none"
    /\ \A m \in Messages : bodies[m] # "none" => keyFile \in {bodies[m], "torn"}
    /\ ran \subseteq Keys
    /\ \A k \in ran : keyFile \in {k, "torn"}
    /\ IdentityKept

MessageInv ==
    /\ rows \in [Messages -> {"none", "queued", "failed"}]
    /\ phase \in {"down", "identity", "storage"} =>
         queue = {} /\ restoring = {} /\ clearing = {}
    /\ phase # "up" => sending = {} /\ removing = FALSE
    /\ phase = "up" => restoring = {} /\ clearing = {}
    /\ clearing \cup sending \cup restoring \subseteq Messages
    /\ \A m \in restoring : rows[m] = "queued"
    /\ \A m \in clearing : bodies[m] # "none"
    /\ \A m \in sending : m \in queue /\ (bodies[m] # "none" \/ m \in removed)
    /\ phase \in {"restore", "up"} =>
         \A m \in Messages : rows[m] = "queued" => m \in queue \cup restoring \cup clearing
    /\ \A m \in Messages :
         rows[m] = "queued" => bodies[m] # "none" \/ m \in plain \/ m \in removed
    /\ \A m \in Messages : rows[m] = "failed" => m \in removed

FilesInv == KeyInv /\ MessageInv
-----------------------------------------------------------------------------
\* The invariant holds before the first start.
LEMMA FilesInvInit == FilesInit => FilesInv
  BY FilesAssumption, Zenon
  DEF FilesInit, FilesInv, KeyInv, MessageInv, IdentityKept

\* The bodies and the identities stay those of the one key (KeyInv): one
\* step per action that touches the key, an identity or a body.
LEMMA KeyInvStep == FilesInv /\ [FilesNext]_fileVars => KeyInv'
<1> SUFFICES ASSUME FilesInv, [FilesNext]_fileVars PROVE KeyInv'
  BY Zenon
<1> USE FilesAssumption DEF FilesInv, KeyInv, IdentityKept
<1> USE DEF files, memory, history
<1>1. CASE LoadConfig
  BY <1>1, Zenon DEF LoadConfig
<1>2. CASE LoadIdentity
  BY <1>2, Zenon DEF LoadIdentity, MayGenerate
<1>3. CASE OpenStorage
  BY <1>3, Zenon DEF OpenStorage
<1>4. CASE ClearPlaintext
  BY <1>4, Zenon DEF ClearPlaintext
<1>5. CASE Started
  BY <1>5, Zenon DEF Started
<1>6. CASE StartFails
  BY <1>6, Zenon DEF StartFails, MemoryLost
<1>7. CASE Quit
  BY <1>7, Zenon DEF Quit, MemoryLost
<1>8. CASE RemoveBodies
  BY <1>8, Zenon DEF RemoveBodies
<1>9. CASE RemoveRows
  BY <1>9, Zenon DEF RemoveRows
<1>10. CASE OpenSettings \/ EditSettings \/ CloseSettings
  BY <1>10, Zenon DEF OpenSettings, EditSettings, CloseSettings
<1>11. CASE SaveSettings
  BY <1>11, Zenon DEF SaveSettings, Write
<1>12. ASSUME NEW n \in Nicknames, SetNickname(n) PROVE KeyInv'
  BY <1>12, Zenon DEF SetNickname, Write
<1>13. ASSUME NEW m \in Messages, Restore(m) PROVE KeyInv'
  BY <1>13 DEF Restore, StoreMessage
<1>14. ASSUME NEW m \in Messages, Send(m) PROVE KeyInv'
  BY <1>14, Zenon DEF Send, StoreMessage
<1>15. ASSUME NEW m \in Messages, Enqueue(m) PROVE KeyInv'
  BY <1>15, Zenon DEF Enqueue
<1>16. CASE Flush
  BY <1>16, Zenon DEF Flush
<1>17. CASE PowerFails
  BY <1>17, Zenon DEF PowerFails, MemoryLost, KeyLeft
<1>18. CASE UNCHANGED fileVars
  BY <1>18, Zenon DEF fileVars
<1> QED
  BY <1>1, <1>2, <1>3, <1>4, <1>5, <1>6, <1>7, <1>8, <1>9, <1>10, <1>11, <1>12,
     <1>13, <1>14, <1>15, <1>16, <1>17, <1>18, Zenon DEF FilesNext

\* A row that is queued has its body, in the outbox or in itself, unless the
\* body was removed; and start misses none (MessageInv).
LEMMA MessageInvStep == FilesInv /\ [FilesNext]_fileVars => MessageInv'
<1> SUFFICES ASSUME FilesInv, [FilesNext]_fileVars PROVE MessageInv'
  BY Zenon
<1> USE FilesAssumption DEF FilesInv, MessageInv
<1> USE DEF files, memory, history
<1>1. CASE LoadConfig
  BY <1>1, Zenon DEF LoadConfig
<1>2. CASE LoadIdentity
  BY <1>2, Zenon DEF LoadIdentity
<1>3. CASE OpenStorage
  BY <1>3, Zenon DEF OpenStorage
<1>4. CASE ClearPlaintext
  BY <1>4, Zenon DEF ClearPlaintext, KeyInv
<1>5. CASE Started
  BY <1>5, Zenon DEF Started
<1>6. CASE StartFails
  BY <1>6, Zenon DEF StartFails, MemoryLost
<1>7. CASE Quit
  BY <1>7, Zenon DEF Quit, MemoryLost
<1>8. CASE RemoveBodies
  BY <1>8, Zenon DEF RemoveBodies, KeyInv
<1>9. CASE RemoveRows
  BY <1>9, Zenon DEF RemoveRows
<1>10. CASE OpenSettings \/ EditSettings \/ CloseSettings
  BY <1>10, Zenon DEF OpenSettings, EditSettings, CloseSettings
<1>11. CASE SaveSettings
  BY <1>11, Zenon DEF SaveSettings, Write
<1>12. ASSUME NEW n \in Nicknames, SetNickname(n) PROVE MessageInv'
  BY <1>12, Zenon DEF SetNickname, Write
<1>13. ASSUME NEW m \in Messages, Restore(m) PROVE MessageInv'
  BY <1>13 DEF Restore, LoadMessage, StoreMessage, KeyInv
<1>14. ASSUME NEW m \in Messages, Send(m) PROVE MessageInv'
  BY <1>14, Zenon DEF Send, New, StoreMessage, KeyInv
<1>15. ASSUME NEW m \in Messages, Enqueue(m) PROVE MessageInv'
  BY <1>15, Zenon DEF Enqueue
<1>16. CASE Flush
  BY <1>16, Zenon DEF Flush
<1>17. CASE PowerFails
  BY <1>17, Zenon DEF PowerFails, MemoryLost
<1>18. CASE UNCHANGED fileVars
  BY <1>18, Zenon DEF fileVars
<1> QED
  BY <1>1, <1>2, <1>3, <1>4, <1>5, <1>6, <1>7, <1>8, <1>9, <1>10, <1>11, <1>12,
     <1>13, <1>14, <1>15, <1>16, <1>17, <1>18, Zenon DEF FilesNext
-----------------------------------------------------------------------------
\* However often power fails, and wherever in start, send_message or
\* remove_peer, a node never runs under a second identity.
THEOREM OneIdentity == FilesSpec => []IdentityKept
<1>1. FilesInv => IdentityKept
  BY Zenon DEF FilesInv, KeyInv
<1> QED
  BY <1>1, FilesInvInit, KeyInvStep, MessageInvStep, PTL DEF FilesSpec, FilesInv

\* However often power fails, and wherever in start, send_message or
\* remove_peer, a node that is up has every queued message in its queue and
\* has given up none but those of a removed contact.
THEOREM EveryMessageRestored == FilesSpec => []QueuedIsRestored
<1>1. FilesInv => QueuedIsRestored
  BY Zenon DEF FilesInv, MessageInv, QueuedIsRestored
<1> QED
  BY <1>1, FilesInvInit, KeyInvStep, MessageInvStep, PTL DEF FilesSpec, FilesInv
=============================================================================
