----------------------------- MODULE MessageLog -----------------------------
(***************************************************************************)
(* The message log of one peer on disk (storage.MessageLog): an append     *)
(* writes old content and new entry to a temporary file, syncs it, renames *)
(* it over the log, and then rotates a log that has outgrown its limit     *)
(* through .log.1 ... .log.N.  None of these calls suspends, so the only   *)
(* thing that comes between two of them is a power failure.                *)
(*                                                                         *)
(* A file is the sequence of blocks written to it, and one entry (length   *)
(* prefix, blob, newline) is two blocks, so that a file can end in the     *)
(* middle of an entry. A file that does not exist is <<>>: the code treats *)
(* it like an empty one, and never makes an empty one last. What was       *)
(* written and not synced may survive a power failure only in part.        *)
(* Renames are atomic, and assumed to survive it as soon as they are made: *)
(* the code does not sync the directory, so that on a file system that     *)
(* loses the last renames the last entries go with them (the file system's *)
(* side, external).                                                        *)
(***************************************************************************)
EXTENDS Integers, SequencesExt

CONSTANTS
  MAX_ROTATIONS,  \* rotated files kept (config.max_log_rotations)
  LIMIT,          \* blocks a log may have before it is rotated
  MayCrash,       \* may power fail between two calls?
  ShortWrites,    \* may os.write store less than it was given (a full disk)?
  MaxEntries      \* bound: entries a run appends

ASSUME LogAssumption ==
  /\ MAX_ROTATIONS \in Nat \ {0}
  /\ LIMIT \in Nat \ {0}
  /\ MaxEntries \in Nat
  /\ MayCrash \in BOOLEAN
  /\ ShortWrites \in BOOLEAN

VARIABLES
  main,      \* <peer>.log
  tmp,       \* <peer>.log.tmp
  rotated,   \* <peer>.log.i, for i in 1 .. MAX_ROTATIONS
  dirty,     \* the files whose last write is not synced (external)
  at,        \* the call the process makes next
  slot,      \* the i of rotate_if_needed's loop
  current,   \* the entry being appended, or the last one that was
  appended   \* the entries whose append reached the rename (history)

logVars == <<main, tmp, rotated, dirty, at, slot, current, appended>>

Rotations == 1 .. MAX_ROTATIONS

\* The bytes of one entry.
Line(e) == << <<e, 1>>, <<e, 2>> >>

LogInit ==
  /\ main = <<>>
  /\ tmp = <<>>
  /\ rotated = [i \in Rotations |-> <<>>]
  /\ dirty = {}
  /\ at = "idle"
  /\ slot = 1
  /\ current = 0
  /\ appended = <<>>

\* append_message reads the log and opens the temporary file with O_TRUNC.
OpenTmp ==
  /\ at = "idle"
  /\ current < MaxEntries
  /\ current' = current + 1
  /\ tmp' = <<>>
  /\ at' = "write"
  /\ UNCHANGED <<main, rotated, dirty, slot, appended>>

\* What os.write stores of data: the code ignores the count it returns.
Stored(data) == IF ShortWrites THEN Prefixes(data) ELSE {data}

\* Mutant: the append does not call fsync.
WriteUnsynced ==
  /\ at = "write"
  /\ tmp' \in Stored(main \o Line(current))
  /\ dirty' = {"tmp"}
  /\ at' = "rename"
  /\ UNCHANGED <<main, rotated, slot, current, appended>>

\* os.write of the log's content and the new entry.
WriteTmp ==
  /\ at = "write"
  /\ tmp' \in Stored(main \o Line(current))
  /\ dirty' = {"tmp"}
  /\ at' = "sync"
  /\ UNCHANGED <<main, rotated, slot, current, appended>>

\* os.fsync and os.close.
SyncTmp ==
  /\ at = "sync"
  /\ dirty' = {}
  /\ at' = "rename"
  /\ UNCHANGED <<main, tmp, rotated, slot, current, appended>>

\* os.rename over the log; rotate_if_needed then looks at the log's size.
RenameTmp ==
  /\ at = "rename"
  /\ main' = tmp
  /\ tmp' = <<>>
  /\ dirty' = IF "tmp" \in dirty THEN {"main"} ELSE {}
  /\ appended' = Append(appended, current)
  /\ at' = IF Len(tmp) > LIMIT THEN "unlink" ELSE "idle"
  /\ UNCHANGED <<rotated, slot, current>>

\* Rotation first unlinks the oldest rotated file ...
Unlink ==
  /\ at = "unlink"
  /\ rotated' = [rotated EXCEPT ![MAX_ROTATIONS] = <<>>]
  /\ slot' = MAX_ROTATIONS
  /\ at' = "shift"
  /\ UNCHANGED <<main, tmp, dirty, current, appended>>

\* Mutant: a rotated file is copied up, not renamed.
ShiftCopies ==
  /\ at = "shift"
  /\ slot > 1
  /\ rotated' = IF rotated[slot - 1] = <<>>
                THEN rotated
                ELSE [rotated EXCEPT ![slot] = rotated[slot - 1]]
  /\ slot' = slot - 1
  /\ UNCHANGED <<main, tmp, dirty, at, current, appended>>

\* ... then moves each of the others up by one, from the oldest down, ...
Shift ==
  /\ at = "shift"
  /\ slot > 1
  /\ rotated' = IF rotated[slot - 1] = <<>>
                THEN rotated
                ELSE [rotated EXCEPT ![slot] = rotated[slot - 1],
                                     ![slot - 1] = <<>>]
  /\ slot' = slot - 1
  /\ UNCHANGED <<main, tmp, dirty, at, current, appended>>

\* ... and last renames the log itself.
RenameLog ==
  /\ at = "shift"
  /\ slot = 1
  /\ rotated' = [rotated EXCEPT ![1] = main]
  /\ main' = <<>>
  /\ at' = "idle"
  /\ UNCHANGED <<tmp, dirty, slot, current, appended>>

\* What a power failure leaves of a file with this content.
Left(file, content) ==
  IF file \in dirty THEN Prefixes(content) ELSE {content}

\* Power fails, and the node is started again: nothing in the code looks
\* at the files before the next append.
Crash ==
  /\ MayCrash
  /\ at # "idle"
  /\ main' \in Left("main", main)
  /\ tmp' \in Left("tmp", tmp)
  /\ dirty' = {}
  /\ at' = "idle"
  /\ UNCHANGED <<rotated, slot, current, appended>>

LogNext ==
  \/ OpenTmp \/ WriteTmp \/ SyncTmp \/ RenameTmp
  \/ Unlink \/ Shift \/ RenameLog
  \/ Crash

LogSpec == LogInit /\ [][LogNext]_logVars

-----------------------------------------------------------------------------
\* The entries read_messages finds in a file, the cut-off one at the end not
\* among them.
ReadMessages(file) ==
  [k \in 1 .. Len(file) \div 2 |-> file[2 * k][1]]

\* The files from the oldest to the newest, read one after the other.
Retained ==
  FoldRight(LAMBDA file, rest : rest \o ReadMessages(file),
            <<main>> \o rotated, <<>>)

\* A file of whole entries.
Whole(file) ==
  /\ Len(file) % 2 = 0
  /\ \A k \in 1 .. Len(file) \div 2 :
       SubSeq(file, 2 * k - 1, 2 * k) = Line(file[2 * k][1])

\* "The main log is never left in a half-written state" (append_message):
\* wherever power fails, during an append or a rotation, the log and the
\* rotated files hold whole entries only.
NeverHalfWritten ==
  \A file \in {main} \cup Range(rotated) : Whole(file)

\* Wherever power fails, the files read from the oldest rotation to the log
\* give the last entries appended, in order, without a gap or a repetition:
\* interrupting append_message or rotate_if_needed loses nothing but an
\* oldest part.
RetainedIsTail == IsSuffix(Retained, appended)

\* rotate_if_needed keeps MAX_ROTATIONS rotated files: it removes the oldest
\* one only when there is one in every place.
OnlyOldestDropped ==
  [][rotated[MAX_ROTATIONS] # <<>> /\ rotated'[MAX_ROTATIONS] = <<>>
       => \A i \in Rotations : rotated[i] # <<>>]_logVars
=============================================================================
