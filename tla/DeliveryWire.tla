---------------------------- MODULE DeliveryWire ----------------------------
(***************************************************************************)
(* What the two ends of a conversation share: the constants of the         *)
(* delivery model and the datagrams that carry a message, its receipts and *)
(* the I_HAVE_UP_TO synchronisation.                                       *)
(*                                                                         *)
(* One node sends (module Sender) and the nodes of Peers receive (module   *)
(* Receiver).  A session with a peer is numbered 1..MaxSid in the order    *)
(* its session id was drawn; 0 is "no session".                            *)
(***************************************************************************)
EXTENDS Integers, Sequences, FiniteSets

CONSTANTS
    Peers,      \* the contacts the sending node talks to
    NumMsgs,    \* messages are numbered in the order they are enqueued
    To,         \* To[m]: the receiver of message m
    MaxSid      \* bound: sessions drawn per peer

Msgs == 1..NumMsgs
Sids == 1..MaxSid

ASSUME WireAssumption ==
    /\ NumMsgs \in Nat
    /\ MaxSid \in Nat
    /\ To \in [Msgs -> Peers]

VARIABLE
    net         \* every datagram ever sent; see Send

(***************************************************************************)
(* UDP: a datagram stays receivable for ever, so it may be received late,  *)
(* in any order and any number of times, and a datagram nobody receives is *)
(* a lost one.                                                             *)
(***************************************************************************)
Send(ds) == net' = net \cup ds

(***************************************************************************)
(* The datagrams.  "via" does not travel: it records whether a DATA packet *)
(* was built by build_data_packet ("queue") or by rebuild_for_sync         *)
(* ("sync"), for the properties only.                                      *)
(***************************************************************************)
DataPacket(p, k, seq, m, via) ==
    [type |-> "DATA", peer |-> p, sid |-> k, seq |-> seq, msg |-> m,
     via |-> via]

AckPacket(p, k, seq) == [type |-> "ACK", peer |-> p, sid |-> k, seq |-> seq]

AppAckPacket(p, k, seq) ==
    [type |-> "APP_ACK", peer |-> p, sid |-> k, seq |-> seq]

SyncPacket(p, k, seq) == [type |-> "SYNC", peer |-> p, sid |-> k, seq |-> seq]

DataPackets ==
    [type : {"DATA"}, peer : Peers, sid : Sids, seq : Nat, msg : Msgs,
     via : {"queue", "sync"}]

Packets ==
    DataPackets
    \cup [type : {"ACK", "APP_ACK", "SYNC"}, peer : Peers, sid : Sids,
          seq : Nat]

DataSent == {d \in net : d.type = "DATA"}
AcksSent == {d \in net : d.type = "ACK"}
AppAcksSent == {d \in net : d.type = "APP_ACK"}
SyncsSent == {d \in net : d.type = "SYNC"}

Larger(a, b) == IF a > b THEN a ELSE b
First(S) == CHOOSE x \in S : \A y \in S : x =< y
Newest(S) == CHOOSE x \in S : \A y \in S : x >= y
=============================================================================
