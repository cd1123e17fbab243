------------------------------ MODULE Endpoint ------------------------------
(***************************************************************************)
(* Signed endpoint records: how a node advertises where it is, under a     *)
(* version counter, and how a contact keeps the record in its peer table   *)
(* and its database (node.py, resolution.py, overlay.py, storage.py).      *)
(*                                                                         *)
(* One owner and one holder, who has the owner in its peer table from the  *)
(* start to the end: adding and removing contacts is module Contacts, and  *)
(* the fresh entry add_direct_peer puts in, with version 0, is the one     *)
(* Init has. An update is its endpoint and its version, signed together:   *)
(* whatever passes the check is one the owner made, and net is the set of  *)
(* those, each of which may arrive late, again or never. Database          *)
(* operations of a node run in the order they were issued, and the         *)
(* coroutine that awaits one issues its next when it is done.              *)
(***************************************************************************)
EXTENDS Naturals, Sequences, FiniteSets

CONSTANTS
    Places,         \* hosts
    Home,           \* the host the owner is on
    NoPlace,
    MaxVersion,     \* bound: updates the owner makes
    MaxObserved,    \* bound: HELLOs and resolutions
    MaxRestarts,    \* bound: restarts of either node
    MaxStoring      \* bound: updates being stored at one time

ASSUME EndpointAssumption ==
    /\ Home \in Places
    /\ NoPlace \notin Places
    /\ {MaxVersion, MaxObserved, MaxRestarts, MaxStoring} \subseteq Nat

VARIABLES
    version,    \* owner: _local_endpoint_version
    meta,       \* owner: the stored local_endpoint_version
    saves,      \* owner: versions whose write is queued
    net,        \* updates made
    entry,      \* holder: the owner's PeerEntry
    row,        \* holder: the owner's row in the peers table
    tasks,      \* holder: database operations queued
    future,     \* holder: _pending, the resolution of the owner's endpoint
    observed, restarts      \* events so far

vars == <<version, meta, saves, net, entry, row, tasks, future, observed,
          restarts>>

Updates == [place : Places, version : 1..MaxVersion]
NoUpdate == [place |-> NoPlace, version |-> 0]
Waiting == [place |-> NoPlace, version |-> 1]   \* a future without result

\* An endpoint, the version of the record last accepted, and what its
\* signature is over.
Records == [place : Places \cup {NoPlace}, version : 0..MaxVersion,
            signed : Updates \cup {NoUpdate}]
NoRecord == [place |-> NoPlace, version |-> 0, signed |-> NoUpdate]

Operations ==
    [op : {"select", "update"}, update : Updates]
    \cup [op : {"hello", "remember"}, place : Places]

TypeOK ==
    /\ version \in 0..MaxVersion
    /\ meta \in 0..MaxVersion
    /\ saves \in Seq(1..MaxVersion)
    /\ net \subseteq Updates
    /\ entry \in Records
    /\ row \in Records
    /\ tasks \in Seq(Operations)
    /\ future \in Updates \cup {NoUpdate, Waiting}
    /\ observed \in 0..MaxObserved
    /\ restarts \in 0..MaxRestarts

Init ==
    /\ version = 0
    /\ meta = 0
    /\ saves = <<>>
    /\ net = {}
    /\ entry = NoRecord
    /\ row = NoRecord
    /\ tasks = <<>>
    /\ future = NoUpdate
    /\ observed = 0
    /\ restarts = 0
-----------------------------------------------------------------------------
\* The update _build_endpoint_update signs: the endpoint under the version.
SignedUpdate(h, v) == [place |-> h, version |-> v]

(***************************************************************************)
(* The owner is asked for its endpoint: _handle_resolve_request with a     *)
(* request that came from host h.  It advertises h with its own port.  The *)
(* write of the new version is queued and not awaited.                     *)
(***************************************************************************)
AnswerForSelf(h) ==
    /\ version < MaxVersion
    /\ version' = version + 1
    /\ saves' = Append(saves, version + 1)
    /\ net' = net \cup {SignedUpdate(h, version + 1)}
    /\ UNCHANGED <<meta, entry, row, tasks, future, observed, restarts>>

VersionSaved ==
    /\ saves # <<>>
    /\ meta' = Head(saves)
    /\ saves' = Tail(saves)
    /\ UNCHANGED <<version, net, entry, row, tasks, future, observed, restarts>>

OwnerRestarts ==
    /\ restarts < MaxRestarts
    /\ restarts' = restarts + 1
    /\ version' = meta
    /\ saves' = <<>>
    /\ UNCHANGED <<meta, net, entry, row, tasks, future, observed>>
-----------------------------------------------------------------------------
\* Mutant: the next version is not newer.
NewerSkips(u) == u.version > entry.version + 1

Newer(u) == u.version > entry.version

\* _apply_endpoint_update replaces endpoint, version and signature together.
Applied(u) ==
    IF Newer(u) THEN [place |-> u.place, version |-> u.version, signed |-> u]
                ELSE entry

\* The operations that store an update.
Storing == {i \in DOMAIN tasks : tasks[i].op \in {"select", "update"}}

(***************************************************************************)
(* _handle_endpoint_update with a valid signature: the peer table takes a  *)
(* newer record, the database is asked too, and a waiting resolution ends  *)
(* with this update, newer or not.                                         *)
(***************************************************************************)
HandleUpdate(u) ==
    /\ Cardinality(Storing) < MaxStoring
    /\ entry' = Applied(u)
    /\ tasks' = Append(tasks, [op |-> "select", update |-> u])
    /\ future' = IF future = Waiting THEN u ELSE future
    /\ UNCHANGED <<version, meta, saves, net, row, observed, restarts>>

Stale(u) == row.version >= u.version

(***************************************************************************)
(* The queue of the database.  update_endpoint is two operations: it reads *)
(* the version and, unless the update is stale, issues the write.          *)
(***************************************************************************)
Ready(op) == tasks # <<>> /\ Head(tasks).op = op

Select ==
    /\ Ready("select")
    /\ tasks' = IF Stale(Head(tasks).update) THEN Tail(tasks)
                ELSE Append(Tail(tasks), [Head(tasks) EXCEPT !.op = "update"])
    /\ UNCHANGED <<version, meta, saves, net, entry, row, future, observed,
                   restarts>>

Update ==
    /\ Ready("update")
    /\ LET u == Head(tasks).update
       IN  row' = [place |-> u.place, version |-> u.version, signed |-> u]
    /\ tasks' = Tail(tasks)
    /\ UNCHANGED <<version, meta, saves, net, entry, future, observed,
                   restarts>>

\* remember_endpoint: as _handle_hello uses it the peer table has the
\* endpoint already; after a resolution the peer table follows.
Remember ==
    /\ Ready("hello") \/ Ready("remember")
    /\ row' = [row EXCEPT !.place = Head(tasks).place]
    /\ entry' = IF Head(tasks).op = "remember"
                THEN [entry EXCEPT !.place = Head(tasks).place] ELSE entry
    /\ tasks' = Tail(tasks)
    /\ UNCHANGED <<version, meta, saves, net, future, observed, restarts>>
-----------------------------------------------------------------------------
Observe == observed < MaxObserved /\ observed' = observed + 1

\* _handle_hello notes where the HELLO came from.
HelloFrom(h) ==
    /\ Observe
    /\ entry' = [entry EXCEPT !.place = h]
    /\ tasks' = Append(tasks, [op |-> "hello", place |-> h])
    /\ UNCHANGED <<version, meta, saves, net, row, future, restarts>>

\* resolve_peer puts a future into _pending, and awaits it for a time.
StartResolve ==
    /\ Observe
    /\ future = NoUpdate
    /\ future' = Waiting
    /\ UNCHANGED <<version, meta, saves, net, entry, row, tasks, restarts>>

\* Mutant: a resolution that timed out has a result.
ResolvedAlways == TRUE

Resolved == future # Waiting

ResolveEnds ==
    /\ future # NoUpdate
    /\ future' = NoUpdate
    /\ tasks' = IF Resolved
                THEN Append(tasks, [op |-> "remember", place |-> future.place])
                ELSE tasks
    /\ UNCHANGED <<version, meta, saves, net, entry, row, observed, restarts>>

HolderRestarts ==
    /\ restarts < MaxRestarts
    /\ restarts' = restarts + 1
    /\ entry' = row
    /\ tasks' = <<>>
    /\ future' = NoUpdate
    /\ UNCHANGED <<version, meta, saves, net, row, observed>>

Next ==
    \/ \E h \in Places : AnswerForSelf(h) \/ HelloFrom(h)
    \/ VersionSaved
    \/ OwnerRestarts
    \/ \E u \in net : HandleUpdate(u)
    \/ Select
    \/ Update
    \/ Remember
    \/ StartResolve
    \/ ResolveEnds
    \/ HolderRestarts

Spec == Init /\ [][Next]_vars
-----------------------------------------------------------------------------
(***************************************************************************)
(* The database is never ahead of the peer table: what a restart would     *)
(* load is known to the running node.                                      *)
(***************************************************************************)
RowNotAhead == row.version <= entry.version

(***************************************************************************)
(* The stored version only grows ("Update endpoint only if version_counter *)
(* > stored version", storage.py update_endpoint).                         *)
(***************************************************************************)
RowOnlyForward == [][row'.version >= row.version]_vars

(***************************************************************************)
(* A version stands for one endpoint, also after a restart of the owner    *)
(* (project_requirements.md: "Version counter is monotonic per node").     *)
(***************************************************************************)
VersionsOnce ==
    \A u, w \in net : u.version = w.version => u.place = w.place

(***************************************************************************)
(* The owner advertises where it is (node.py: "this is our                 *)
(* externally-visible IP").                                                *)
(***************************************************************************)
AdvertisesHome == \A u \in net : u.place = Home

(***************************************************************************)
(* The record the holder would pass on is one whose signature verifies     *)
(* (node.py: "answer directly with that cached ENDPOINT_UPDATE").          *)
(***************************************************************************)
CachedVerifies ==
    entry.signed # NoUpdate
        => entry.signed = [place |-> entry.place, version |-> entry.version]

(***************************************************************************)
(* A resolution does not end with a record older than the one in the peer  *)
(* table (test_chaos.py: "version check rejects").                         *)
(***************************************************************************)
ResolvesToNewest ==
    [][future = Waiting /\ future' \in Updates
           => future'.version >= entry.version]_vars
=============================================================================
