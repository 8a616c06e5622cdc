------------------------------ MODULE Snapshots ------------------------------
(***************************************************************************)
(* What ConsumerSnapshot and StoreSnapshot say of the tables of LogStore:  *)
(* fetch_consumer_snapshots (src/src/storage.rs), LiteFan::snapshot        *)
(* (store.rs) and the methods of api.rs.                                   *)
(*                                                                         *)
(* A snapshot is one read transaction.  Operators compute schedules,       *)
(* alerts and deletions from its fields, so what counts is that each field *)
(* tells the same story as the others and as the operations it is for.     *)
(***************************************************************************)
EXTENDS LogStore

\* MIN, which is NULL of nothing.
Earliest(times) == IF times = {} THEN NULL ELSE Min(times)

NextReadyAt(c, now) ==
    Earliest({deliveries[c][m].visible_at :
                m \in {n \in DOMAIN deliveries[c] : deliveries[c][n].visible_at > now}})

\* mutant: only what is still unread is looked at
OldestUnreadAt(c) == Earliest({messages[m].published_at : m \in Unscanned(c)})

\* Of the messages that are there: a delivery whose message is gone does not count.
OldestOutstandingAt(c) ==
    Earliest({messages[m].published_at :
                m \in (DOMAIN deliveries[c] \intersect DOMAIN messages) \union Unscanned(c)})

Snapshot(c, now) ==
    [draining |-> consumers[c].draining,
     outstanding |-> SnapshotOutstanding(c),
     ready |-> SnapshotReady(c, now),
     next_ready_at |-> NextReadyAt(c, now),
     oldest_outstanding_at |-> OldestOutstandingAt(c),
     archived |-> Cardinality(DOMAIN archives[c])]

\* ConsumerSnapshot::is_drained
IsDrained(snapshot) == snapshot.draining /\ snapshot.outstanding = 0

\* mutant: consumers that drain are left out of the totals
StoreSnapshotOfActive(now) ==
    LET active == {c \in DOMAIN consumers : ~consumers[c].draining}
    IN  [retained_messages |-> Cardinality(DOMAIN messages),
         outstanding_deliveries |-> SumFunction([c \in active |-> Snapshot(c, now).outstanding]),
         archived_deliveries |-> SumFunction([c \in active |-> Snapshot(c, now).archived])]

\* LiteFan::snapshot
StoreSnapshot(now) ==
    [retained_messages |-> Cardinality(DOMAIN messages),
     outstanding_deliveries |->
       SumFunction([c \in DOMAIN consumers |-> Snapshot(c, now).outstanding]),
     archived_deliveries |->
       SumFunction([c \in DOMAIN consumers |-> Snapshot(c, now).archived])]

-----------------------------------------------------------------------------

\* The fields of a snapshot agree, whatever was claimed, nacked, redriven or pruned before:
\* some deliveries are not ready exactly when there is a time at which more of them are, and
\* something is outstanding exactly when there is an oldest message.
SnapshotsAgree ==
    \A c \in DOMAIN consumers, now \in Now :
      LET s == Snapshot(c, now)
      IN  /\ s.ready < s.outstanding <=> s.next_ready_at # NULL
          /\ s.next_ready_at # NULL => Snapshot(c, s.next_ready_at).ready > s.ready
          /\ s.outstanding > 0 <=> s.oldest_outstanding_at # NULL

\* delete_consumer in the mode DrainedOnly, which refuses, does what DiscardAll does, which
\* never refuses, exactly when a snapshot taken before says drained, with no archive.
DrainedSnapshotsDelete ==
    [][\A c \in DOMAIN consumers :
         LET s == Snapshot(c, clock)
         IN  DeleteConsumer(c, "DrainedOnly") <=>
               IsDrained(s) /\ s.archived = 0 /\ DeleteConsumer(c, "DiscardAll")]_vars

\* When the totals are zero, prune_messages may delete every message that is retained.
QuietStoreIsPrunable ==
    LET s == StoreSnapshot(clock)
    IN  s.outstanding_deliveries = 0 /\ s.archived_deliveries = 0 =>
          Cardinality(Prunable(clock + 1)) = s.retained_messages
=============================================================================
