-------------------------- MODULE MCDataDirectory --------------------------
(***************************************************************************)
(* Module DataDirectory with two hosts; a log that two entries fill, and   *)
(* enough entries for the oldest rotation to be dropped more than once;    *)
(* one message of an older version and one new one.                        *)
(***************************************************************************)
EXTENDS DataDirectory

CONSTANTS h1, h2

Hosts == {h1, h2}
=============================================================================
