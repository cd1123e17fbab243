---------------------------- MODULE MCReconnect ----------------------------
(***************************************************************************)
(* Module Reconnect with a schedule of three intervals and a short week.   *)
(* The proportions are those of the code: the first interval is shorter    *)
(* than the loop's sleep and a HELLO's time, the last is longer, the week  *)
(* holds several of it and a day is longer than it.                        *)
(***************************************************************************)
EXTENDS Reconnect

ShortSchedule == <<1, 2, 6>>
=============================================================================
