--------------------------- MODULE DataDirectory ---------------------------
(***************************************************************************)
(* What a node keeps under its base directory and finds there when it is   *)
(* started again: the endpoint rows (Endpoint), the message logs           *)
(* (MessageLog), and identity, settings and outgoing messages (DataFiles). *)
(* The three share no state, so that what one of them does is the same     *)
(* whatever the others do: in a behaviour, one of them moves.              *)
(***************************************************************************)
EXTENDS Endpoint, MessageLog, DataFiles

VARIABLE moves  \* the part that does

Parts == {"endpoint", "log", "files"}

DirectoryInit == Init /\ LogInit /\ FilesInit /\ moves \in Parts

DirectoryNext ==
    \/ moves = "endpoint" /\ Next /\ UNCHANGED <<logVars, fileVars, moves>>
    \/ moves = "log" /\ LogNext /\ UNCHANGED <<vars, fileVars, moves>>
    \/ moves = "files" /\ FilesNext /\ UNCHANGED <<vars, logVars, moves>>

DirectorySpec == DirectoryInit /\ [][DirectoryNext]_<<vars, logVars, fileVars, moves>>
=============================================================================
