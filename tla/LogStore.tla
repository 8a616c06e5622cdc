------------------------------ MODULE LogStore ------------------------------
(***************************************************************************)
(* The durable core of litefan: its SQLite tables and the transactions on  *)
(* them (src/src/store.rs, consumer.rs, storage.rs, schema.rs).            *)
(*                                                                         *)
(* Publishing appends rows to one log and touches no consumer.  A consumer *)
(* is a row with a cursor into the log; a delivery row exists only for a   *)
(* message that was claimed and is not settled yet.  Every operation is    *)
(* one SQLite transaction, and SQLite has a single writer, so an operation *)
(* is one action; what a caller reads before its transaction (the time) is *)
(* an argument that may be out of date when the action happens.            *)
(*                                                                         *)
(* A worker that crashes, times out or is just slow takes no action: what  *)
(* it held is in the tables.  A transaction cut short leaves no trace.     *)
(***************************************************************************)
EXTENDS Integers, Sequences, FiniteSets, FiniteSetsExt

CONSTANTS
    Names,          \* consumer names
    Topics,         \* topics of messages and filters
    NULL,           \* SQL's NULL: no topic, Filter::All, no drain cursor
    MaxBatch,       \* Config::max_batch_size
    Leases,         \* the visibility timeouts callers ask for, never 0
    Delays,         \* the delays of Retry::delay(), 0 for Retry::Immediately
    MaxLag,         \* bound: how old a time read before a transaction may be
    MaxTime,        \* bound on the clock
    MaxMessages,    \* bound on messages ever published
    MaxConsumers,   \* bound on consumers ever created
    MaxArchives,    \* bound on archive rows ever created
    MaxGeneration   \* bound on a delivery's generation

ASSUME NullAssumption == NULL \notin Topics /\ NULL \notin Int

ASSUME BoundsAssumption ==
    /\ MaxBatch \in Nat /\ MaxLag \in Nat /\ MaxTime \in Nat
    /\ MaxMessages \in Nat /\ MaxConsumers \in Nat
    /\ MaxArchives \in Nat /\ MaxGeneration \in Nat

ASSUME DurationAssumption == Leases \subseteq Nat \ {0} /\ Delays \subseteq Nat

VARIABLES
    clock,         \* the wall clock, in milliseconds
    messages,      \* litefan_messages: id -> [topic, published_at]
    message_seq,   \* its AUTOINCREMENT counter
    consumers,     \* litefan_consumers: id -> row
    consumer_seq,  \* its AUTOINCREMENT counter
    deliveries,    \* litefan_deliveries: consumer id -> (message id -> row)
    archives,      \* litefan_archived_deliveries: likewise
    archive_seq,   \* its AUTOINCREMENT counter
    receipts,      \* history: every receipt ever handed to a worker
    outcomes       \* history: consumer id -> the DeleteOutcome of its deletion

vars == <<clock, messages, message_seq, consumers, consumer_seq,
          deliveries, archives, archive_seq, receipts, outcomes>>

Filters == Topics \union {NULL}

Modes == {"DrainedOnly", "DiscardOutstanding", "DiscardAll"}

Batches == UNION {[1..n -> Filters] : n \in 1..MaxBatch}

Nothing == [x \in {} |-> x]

Without(f, S) == [x \in DOMAIN f \ S |-> f[x]]

Init ==
    /\ clock = 0
    /\ messages = Nothing /\ message_seq = 0
    /\ consumers = Nothing /\ consumer_seq = 0
    /\ deliveries = Nothing
    /\ archives = Nothing /\ archive_seq = 0
    /\ receipts = {}
    /\ outcomes = Nothing

-----------------------------------------------------------------------------
(* Queries.                                                                *)

\* The values now_ms() may have returned to a transaction that runs now: the
\* time is read first, and the transaction then waits for the writer lock.
Now == {t \in 0..clock : clock - t <= MaxLag}

\* SELECT COALESCE(MAX(id), 0) FROM litefan_messages
HighWater == Max(DOMAIN messages \union {0})

Matches(filter, topic) == filter = NULL \/ topic = filter

\* mutant: a claim scans past the end that begin_draining set
ScanLimitForgetsDrain(c) == HighWater

ScanLimit(c) ==
    IF consumers[c].drain_cursor = NULL THEN HighWater ELSE consumers[c].drain_cursor

\* The log entries a claim may still turn into deliveries, which are also those
\* the snapshots count.
Unscanned(c) ==
    {m \in DOMAIN messages :
       /\ m > consumers[c].scan_cursor
       /\ m <= ScanLimit(c)
       /\ Matches(consumers[c].topic_filter, messages[m].topic)}

\* The same set as delete_consumer and prune_messages spell it.
Pending(c) ==
    {m \in DOMAIN messages :
       /\ m > consumers[c].scan_cursor
       /\ \/ consumers[c].drain_cursor = NULL
          \/ m <= consumers[c].drain_cursor
       /\ Matches(consumers[c].topic_filter, messages[m].topic)}

\* What a consumer still has to settle.
Outstanding(c) == DOMAIN deliveries[c] \union Pending(c)

Visible(c, now) == {m \in DOMAIN deliveries[c] : deliveries[c][m].visible_at <= now}

\* The counts of ConsumerSnapshot.
SnapshotOutstanding(c) ==
    Cardinality(DOMAIN deliveries[c]) + Cardinality(Unscanned(c))

SnapshotReady(c, now) ==
    Cardinality(Visible(c, now)) + Cardinality(Unscanned(c))

\* T is what LIMIT k leaves of S.
Limited(T, S, k) ==
    /\ T \subseteq S
    /\ Cardinality(T) <= k
    /\ T # S => Cardinality(T) = k

\* ORDER BY id LIMIT k
FirstById(T, S, k) ==
    /\ Limited(T, S, k)
    /\ \A m \in T, n \in S \ T : m < n

\* ORDER BY visible_at, message_id LIMIT k
FirstByDeadline(T, S, k, rows) ==
    /\ Limited(T, S, k)
    /\ \A m \in T, n \in S \ T :
         \/ rows[m].visible_at < rows[n].visible_at
         \/ rows[m].visible_at = rows[n].visible_at /\ m < n

\* The rows of consumer c that push_receipt_predicate selects.
Current(c, R) ==
    {m \in DOMAIN deliveries[c] :
       \E r \in R : /\ r.consumer_id = c
                    /\ r.message_id = m
                    /\ r.generation = deliveries[c][m].generation}

-----------------------------------------------------------------------------
(* The history: which receipts were handed out, which lease of its delivery *)
(* each was for (lease counts the claims of a delivery row over its whole   *)
(* life, through archives and redrives), and until when its holder was told *)
(* to be the only one (0: its holder gave it back).                         *)

Handed(c, rows, S, deadline) ==
    {[consumer_id |-> c, message_id |-> m, generation |-> rows[m].generation,
      lease |-> rows[m].lease, until |-> deadline] : m \in S}

\* Those of the receipts R presented to consumer c that the statement accepts.
Accepted(c, R) ==
    {r \in R : /\ r.consumer_id = c
               /\ r.message_id \in DOMAIN deliveries[c]
               /\ r.generation = deliveries[c][r.message_id].generation}

GivenBack(c, R) ==
    (receipts \ Accepted(c, R)) \union {[r EXCEPT !.until = 0] : r \in Accepted(c, R)}

Prolonged(c, R, deadline) ==
    (receipts \ Accepted(c, R)) \union
      {[r EXCEPT !.until = Max({@, deadline})] : r \in Accepted(c, R)}

-----------------------------------------------------------------------------
(* Operations of the store and of its consumers.                           *)

Tick ==
    /\ clock < MaxTime
    /\ clock' = clock + 1
    /\ UNCHANGED <<messages, message_seq, consumers, consumer_seq,
                   deliveries, archives, archive_seq, receipts, outcomes>>

\* ConsumerBuilder::open of a name not in use.  With a name in use it changes
\* nothing, whether or not the filters agree.
OpenConsumer(name, filter) ==
    LET c == consumer_seq + 1
    IN  /\ consumer_seq < MaxConsumers
        /\ \A d \in DOMAIN consumers : consumers[d].name # name
        /\ consumer_seq' = c
        /\ consumers' = [d \in DOMAIN consumers \union {c} |->
                           IF d = c
                           THEN [name |-> name, topic_filter |-> filter,
                                 draining |-> FALSE, scan_cursor |-> HighWater,
                                 drain_cursor |-> NULL]
                           ELSE consumers[d]]
        /\ deliveries' = [d \in DOMAIN consumers \union {c} |->
                            IF d = c THEN Nothing ELSE deliveries[d]]
        /\ archives' = [d \in DOMAIN consumers \union {c} |->
                          IF d = c THEN Nothing ELSE archives[d]]
        /\ UNCHANGED <<clock, messages, message_seq, archive_seq, receipts, outcomes>>

\* publish_unkeyed_batch, and what publish_batch inserts of a keyed batch.
Publish(batch, now) ==
    LET new == message_seq + 1 .. message_seq + Len(batch)
    IN  /\ message_seq + Len(batch) <= MaxMessages
        /\ message_seq' = message_seq + Len(batch)
        /\ messages' = [m \in DOMAIN messages \union new |->
                          IF m \in new
                          THEN [topic |-> batch[m - message_seq], published_at |-> now]
                          ELSE messages[m]]
        /\ UNCHANGED <<clock, consumers, consumer_seq, deliveries,
                       archives, archive_seq, receipts, outcomes>>

\* mutant: drain_cursor = MAX(id), which pruning may have left behind scan_cursor
BeginDrainingAtHighWater(c) ==
    /\ ~consumers[c].draining
    /\ consumers' = [consumers EXCEPT ![c].draining = TRUE, ![c].drain_cursor = HighWater]
    /\ UNCHANGED <<clock, messages, message_seq, consumer_seq, deliveries,
                   archives, archive_seq, receipts, outcomes>>

\* A second call changes nothing.
BeginDraining(c) ==
    /\ ~consumers[c].draining
    /\ consumers' = [consumers EXCEPT
         ![c].draining = TRUE,
         ![c].drain_cursor = Max({consumers[c].scan_cursor, HighWater})]
    /\ UNCHANGED <<clock, messages, message_seq, consumer_seq, deliveries,
                   archives, archive_seq, receipts, outcomes>>

\* mutants: the cursor one entry short; a full page taken for the last one; no test
\* that anything is left to scan
NextCursorOneShort(c, fresh, remaining) ==
    IF remaining = 0 \/ consumers[c].scan_cursor >= ScanLimit(c)
    THEN consumers[c].scan_cursor
    ELSE IF Cardinality(fresh) < remaining THEN ScanLimit(c) ELSE Max(fresh) - 1

NextCursorSkipsRest(c, fresh, remaining) ==
    IF remaining = 0 \/ consumers[c].scan_cursor >= ScanLimit(c)
    THEN consumers[c].scan_cursor
    ELSE IF Cardinality(fresh) <= remaining THEN ScanLimit(c) ELSE Max(fresh)

NextCursorUnguarded(c, fresh, remaining) ==
    IF remaining = 0
    THEN consumers[c].scan_cursor
    ELSE IF Cardinality(fresh) < remaining THEN ScanLimit(c) ELSE Max(fresh)

\* Where a claim that found fresh entries, of the remaining it had room for,
\* leaves the cursor.
NextCursor(c, fresh, remaining) ==
    IF remaining = 0 \/ consumers[c].scan_cursor >= ScanLimit(c)
    THEN consumers[c].scan_cursor
    ELSE IF Cardinality(fresh) < remaining THEN ScanLimit(c) ELSE Max(fresh)

\* mutant: a retry keeps its generation
LeasedSameGeneration(c, retried, fresh, deadline) ==
    [m \in DOMAIN deliveries[c] \union fresh |->
       IF m \in fresh
       THEN [visible_at |-> deadline, generation |-> 1, delivery_count |-> 1, lease |-> 1]
       ELSE IF m \in retried
       THEN [deliveries[c][m] EXCEPT !.visible_at = deadline,
                                     !.delivery_count = @ + 1, !.lease = @ + 1]
       ELSE deliveries[c][m]]

\* The delivery rows of c once retried and fresh are leased until deadline.
Leased(c, retried, fresh, deadline) ==
    [m \in DOMAIN deliveries[c] \union fresh |->
       IF m \in fresh
       THEN [visible_at |-> deadline, generation |-> 1, delivery_count |-> 1, lease |-> 1]
       ELSE IF m \in retried
       THEN [visible_at |-> deadline,
             generation |-> deliveries[c][m].generation + 1,
             delivery_count |-> deliveries[c][m].delivery_count + 1,
             lease |-> deliveries[c][m].lease + 1]
       ELSE deliveries[c][m]]

\* The transaction of claim.  The query that precedes it and may make it
\* unnecessary is ReadOnlyCheck below: when it finds nothing to do, so does this.
Claim(c, now, max, lease) ==
    \E retried \in SUBSET Visible(c, now), fresh \in SUBSET Unscanned(c) :
      LET remaining == max - Cardinality(retried)
          rows == Leased(c, retried, fresh, now + lease)
      IN  /\ FirstByDeadline(retried, Visible(c, now), max, deliveries[c])
          /\ FirstById(fresh, Unscanned(c), remaining)
          /\ \A m \in retried : deliveries[c][m].generation < MaxGeneration
          /\ deliveries' = [deliveries EXCEPT ![c] = rows]
          /\ consumers' = [consumers EXCEPT
               ![c].scan_cursor = NextCursor(c, fresh, remaining)]
          /\ receipts' = receipts \union
               Handed(c, rows, retried \union fresh, now + lease)
          /\ UNCHANGED <<clock, messages, message_seq, consumer_seq,
                         archives, archive_seq, outcomes>>

AckBatch(c, R) ==
    /\ deliveries' = [deliveries EXCEPT ![c] = Without(@, Current(c, R))]
    /\ receipts' = GivenBack(c, R)
    /\ UNCHANGED <<clock, messages, message_seq, consumers, consumer_seq,
                   archives, archive_seq, outcomes>>

\* mutant: a nack keeps the generation
NackBatchKeepsGeneration(c, R, now, delay) ==
    /\ deliveries' = [deliveries EXCEPT ![c] =
         [m \in DOMAIN deliveries[c] |->
            IF m \in Current(c, R)
            THEN [deliveries[c][m] EXCEPT !.visible_at = now + delay]
            ELSE deliveries[c][m]]]
    /\ receipts' = GivenBack(c, R)
    /\ UNCHANGED <<clock, messages, message_seq, consumers, consumer_seq,
                   archives, archive_seq, outcomes>>

NackBatch(c, R, now, delay) ==
    LET nacked == Current(c, R)
    IN  /\ \A m \in nacked : deliveries[c][m].generation < MaxGeneration
        /\ deliveries' = [deliveries EXCEPT ![c] =
             [m \in DOMAIN deliveries[c] |->
                IF m \in nacked
                THEN [deliveries[c][m] EXCEPT !.visible_at = now + delay,
                                              !.generation = @ + 1]
                ELSE deliveries[c][m]]]
        /\ receipts' = GivenBack(c, R)
        /\ UNCHANGED <<clock, messages, message_seq, consumers, consumer_seq,
                       archives, archive_seq, outcomes>>

\* mutant: an extension may shorten the lease
ExtendVisibilityBatchShortens(c, R, now, timeout) ==
    /\ deliveries' = [deliveries EXCEPT ![c] =
         [m \in DOMAIN deliveries[c] |->
            IF m \in Current(c, R)
            THEN [deliveries[c][m] EXCEPT !.visible_at = now + timeout]
            ELSE deliveries[c][m]]]
    /\ receipts' = Prolonged(c, R, now + timeout)
    /\ UNCHANGED <<clock, messages, message_seq, consumers, consumer_seq,
                   archives, archive_seq, outcomes>>

ExtendVisibilityBatch(c, R, now, timeout) ==
    /\ deliveries' = [deliveries EXCEPT ![c] =
         [m \in DOMAIN deliveries[c] |->
            IF m \in Current(c, R)
            THEN [deliveries[c][m] EXCEPT !.visible_at = Max({@, now + timeout})]
            ELSE deliveries[c][m]]]
    /\ receipts' = Prolonged(c, R, now + timeout)
    /\ UNCHANGED <<clock, messages, message_seq, consumers, consumer_seq,
                   archives, archive_seq, outcomes>>

\* Archive rows are inserted in the order of their messages.
ArchiveBatch(c, R, now) ==
    LET moved == Current(c, R)
        id(m) == archive_seq + Cardinality({n \in moved : n <= m})
    IN  /\ archive_seq + Cardinality(moved) <= MaxArchives
        /\ deliveries' = [deliveries EXCEPT ![c] = Without(@, moved)]
        /\ archives' = [archives EXCEPT ![c] =
             [m \in DOMAIN archives[c] \union moved |->
                IF m \in moved
                THEN [id |-> id(m), archived_at |-> now,
                      delivery_count |-> deliveries[c][m].delivery_count,
                      last_generation |-> deliveries[c][m].generation,
                      lease |-> deliveries[c][m].lease]
                ELSE archives[c][m]]]
        /\ archive_seq' = archive_seq + Cardinality(moved)
        /\ receipts' = GivenBack(c, R)
        /\ UNCHANGED <<clock, messages, message_seq, consumers, consumer_seq, outcomes>>

\* mutant: the count goes on where the archive left it, the generation does not
RedriveBatchKeepsCount(c, ids, now, delay) ==
    LET restored == {m \in DOMAIN archives[c] : archives[c][m].id \in ids}
    IN  /\ archives' = [archives EXCEPT ![c] = Without(@, restored)]
        /\ deliveries' = [deliveries EXCEPT ![c] =
             [m \in DOMAIN deliveries[c] \union restored |->
                IF m \in restored
                THEN [visible_at |-> now + delay, generation |-> 0,
                      delivery_count |-> archives[c][m].delivery_count,
                      lease |-> archives[c][m].lease]
                ELSE deliveries[c][m]]]
        /\ UNCHANGED <<clock, messages, message_seq, consumers, consumer_seq,
                       archive_seq, receipts, outcomes>>

\* A restored delivery starts again at generation 0.
RedriveBatch(c, ids, now, delay) ==
    LET restored == {m \in DOMAIN archives[c] : archives[c][m].id \in ids}
    IN  /\ archives' = [archives EXCEPT ![c] = Without(@, restored)]
        /\ deliveries' = [deliveries EXCEPT ![c] =
             [m \in DOMAIN deliveries[c] \union restored |->
                IF m \in restored
                THEN [visible_at |-> now + delay, generation |-> 0,
                      delivery_count |-> 0, lease |-> archives[c][m].lease]
                ELSE deliveries[c][m]]]
        /\ UNCHANGED <<clock, messages, message_seq, consumers, consumer_seq,
                       archive_seq, receipts, outcomes>>

PurgeArchives(c, before, max) ==
    LET old == {m \in DOMAIN archives[c] : archives[c][m].archived_at < before}
    IN  \E purged \in SUBSET old :
          /\ Limited(purged, old, max)
          /\ \A m \in purged, n \in old \ purged : archives[c][m].id < archives[c][n].id
          /\ archives' = [archives EXCEPT ![c] = Without(@, purged)]
          /\ UNCHANGED <<clock, messages, message_seq, consumers, consumer_seq,
                         deliveries, archive_seq, receipts, outcomes>>

\* The guards are evaluated and the rows deleted under the writer lock.
DeleteConsumer(c, mode) ==
    LET outstanding == Cardinality(DOMAIN deliveries[c]) + Cardinality(Pending(c))
        archived == Cardinality(DOMAIN archives[c])
    IN  /\ mode = "DrainedOnly" => consumers[c].draining /\ outstanding = 0
        /\ mode # "DiscardAll" => archived = 0
        /\ consumers' = Without(consumers, {c})
        /\ deliveries' = Without(deliveries, {c})
        /\ archives' = Without(archives, {c})
        /\ outcomes' = [d \in DOMAIN outcomes \union {c} |->
                          IF d = c
                          THEN [discarded_deliveries |-> outstanding,
                                discarded_archives |-> archived]
                          ELSE outcomes[d]]
        /\ UNCHANGED <<clock, messages, message_seq, consumer_seq, archive_seq, receipts>>

\* mutants: archives, or unread log entries, do not hold their messages
PrunableUnderArchives(before) ==
    {m \in DOMAIN messages :
       /\ messages[m].published_at < before
       /\ \A c \in DOMAIN consumers : m \notin DOMAIN deliveries[c] \union Pending(c)}

PrunableUnread(before) ==
    {m \in DOMAIN messages :
       /\ messages[m].published_at < before
       /\ \A c \in DOMAIN consumers : m \notin DOMAIN deliveries[c] \union DOMAIN archives[c]}

\* What prune_messages may delete.
Prunable(before) ==
    {m \in DOMAIN messages :
       /\ messages[m].published_at < before
       /\ \A c \in DOMAIN consumers :
            m \notin DOMAIN deliveries[c] \union DOMAIN archives[c] \union Pending(c)}

\* The foreign keys add nothing here: MessagesAreReferenced shows that no delivery
\* is ever left to cascade to, and no archive to restrict the deletion.
Prune(before, max) ==
    \E pruned \in SUBSET Prunable(before) :
      /\ FirstById(pruned, Prunable(before), max)
      /\ messages' = Without(messages, pruned)
      /\ UNCHANGED <<clock, message_seq, consumers, consumer_seq,
                     deliveries, archives, archive_seq, receipts, outcomes>>

-----------------------------------------------------------------------------

\* Receipts are presented to any consumer, in batches, as often as one likes.
Presented == {R \in SUBSET receipts : R # {} /\ Cardinality(R) <= MaxBatch}

ArchiveIds == {ids \in SUBSET (1..archive_seq) : ids # {} /\ Cardinality(ids) <= MaxBatch}

Acknowledge(c) == \E R \in Presented : AckBatch(c, R)

Release(c) == \E R \in Presented, now \in Now, delay \in Delays : NackBatch(c, R, now, delay)

Extend(c) ==
    \E R \in Presented, now \in Now, timeout \in Leases : ExtendVisibilityBatch(c, R, now, timeout)

Archive(c) == \E R \in Presented, now \in Now : ArchiveBatch(c, R, now)

Redrive(c) ==
    \E ids \in ArchiveIds, now \in Now, delay \in Delays : RedriveBatch(c, ids, now, delay)

Poll(c) == \E now \in Now, max \in 1..MaxBatch, lease \in Leases : Claim(c, now, max, lease)

Purge(c) == \E before \in 1 .. MaxTime + 1, max \in 1..MaxBatch : PurgeArchives(c, before, max)

Delete(c) == \E mode \in Modes : DeleteConsumer(c, mode)

ConsumerStep(c) ==
    \/ BeginDraining(c)
    \/ Poll(c)
    \/ Acknowledge(c)
    \/ Release(c)
    \/ Extend(c)
    \/ Archive(c)
    \/ Redrive(c)
    \/ Purge(c)
    \/ Delete(c)

Open == \E name \in Names, filter \in Filters : OpenConsumer(name, filter)

PublishBatch == \E batch \in Batches, now \in Now : Publish(batch, now)

PruneMessages == \E before \in 1 .. MaxTime + 1, max \in 1..MaxBatch : Prune(before, max)

Next ==
    \/ Tick
    \/ Open
    \/ PublishBatch
    \/ PruneMessages
    \/ \E c \in DOMAIN consumers : ConsumerStep(c)

Spec == Init /\ [][Next]_vars

-----------------------------------------------------------------------------
(* Types, with the CHECKs of the schema.                                   *)

Message == [topic : Filters, published_at : Nat]

ConsumerRow == [name : Names, topic_filter : Filters, draining : BOOLEAN,
                scan_cursor : Nat, drain_cursor : Nat \union {NULL}]

DeliveryRow == [visible_at : Nat, generation : Nat, delivery_count : Nat, lease : Nat]

ArchiveRow == [id : Nat \ {0}, archived_at : Nat, delivery_count : Nat,
               last_generation : Nat, lease : Nat]

ReceiptRecord == [consumer_id : Nat, message_id : Nat, generation : Nat,
                  lease : Nat \ {0}, until : Nat]

\* Every column holds what its type and its CHECK in schema.rs allow, in
\* particular drain_cursor >= scan_cursor; ids come from the AUTOINCREMENT
\* counters, and the rows of deliveries and archives belong to existing consumers.
TypeOK ==
    /\ clock \in Nat
    /\ message_seq \in Nat /\ consumer_seq \in Nat /\ archive_seq \in Nat
    /\ messages \in [DOMAIN messages -> Message]
    /\ DOMAIN messages \subseteq 1..message_seq
    /\ consumers \in [DOMAIN consumers -> ConsumerRow]
    /\ DOMAIN consumers \subseteq 1..consumer_seq
    /\ \A c \in DOMAIN consumers :
         /\ consumers[c].drain_cursor # NULL => consumers[c].drain_cursor >= consumers[c].scan_cursor
         /\ consumers[c].draining <=> consumers[c].drain_cursor # NULL
    /\ DOMAIN deliveries = DOMAIN consumers /\ DOMAIN archives = DOMAIN consumers
    /\ \A c \in DOMAIN consumers :
         /\ deliveries[c] \in [DOMAIN deliveries[c] -> DeliveryRow]
         /\ archives[c] \in [DOMAIN archives[c] -> ArchiveRow]
    /\ receipts \subseteq ReceiptRecord
    /\ outcomes \in [DOMAIN outcomes -> [discarded_deliveries : Nat, discarded_archives : Nat]]

-----------------------------------------------------------------------------
(* Safety.                                                                 *)

\* Every message a consumer has, it has once: as an unread log entry, as a
\* delivery or as an archive.  So the INSERTs of claim, archive_batch and
\* redrive_batch never meet a row with their key, and no count of a snapshot or
\* of a DeleteOutcome includes a message twice.
OnePlacePerMessage ==
    \A c \in DOMAIN consumers :
      /\ DOMAIN deliveries[c] \intersect Unscanned(c) = {}
      /\ DOMAIN archives[c] \intersect Unscanned(c) = {}
      /\ DOMAIN deliveries[c] \intersect DOMAIN archives[c] = {}

\* Pruning leaves every message that a delivery or an archive refers to: a claim
\* finds the message of each lease (else it returns StorageInvariant after having
\* committed), and the foreign keys on litefan_messages never act.
MessagesAreReferenced ==
    \A c \in DOMAIN consumers :
      DOMAIN deliveries[c] \union DOMAIN archives[c] \subseteq DOMAIN messages

\* The row a receipt names, when the store would accept the receipt.
IsCurrent(r) ==
    /\ r.consumer_id \in DOMAIN consumers
    /\ r.message_id \in DOMAIN deliveries[r.consumer_id]
    /\ r.generation = deliveries[r.consumer_id][r.message_id].generation

RowOf(r) == deliveries[r.consumer_id][r.message_id]

\* Leases of the row that came before its last redrive.
Archived(row) == row.lease - row.delivery_count

\* A receipt handed out since the last redrive of its delivery is accepted only
\* while it is for the delivery's latest lease and was not given back: a worker that
\* was too slow cannot settle, release, prolong or archive the attempt of the worker
\* after it, and a worker that nacked cannot use its receipt again.
StaleReceiptIsRejected ==
    \A r \in receipts :
      IsCurrent(r) /\ r.lease > Archived(RowOf(r)) =>
        r.lease = RowOf(r).lease /\ r.until # 0

\* The same with no exception for redrives, which is what lib.rs and the README say
\* of receipts.  redrive_batch sets the generation back to 0, so that it is false.
ReceiptIsForOneAttempt ==
    \A r \in receipts : IsCurrent(r) => r.lease = RowOf(r).lease

\* At most one worker at a time has a delivery that was never redriven: until the
\* deadline a worker was last promised, or until it gives the receipt back, nobody
\* else holds a lease that is still running, however late the times were that their
\* claims and extensions were computed from.
LeaseIsExclusive ==
    \A r, s \in receipts :
      /\ r.consumer_id = s.consumer_id /\ r.message_id = s.message_id
      /\ r.until > clock /\ s.until > clock
      /\ IsCurrent(r) /\ Archived(RowOf(r)) = 0
      => r = s

-----------------------------------------------------------------------------
(* The inductive invariant behind them.                                    *)

\* Cursors point at ids that were given out.
CursorBounds ==
    \A c \in DOMAIN consumers :
      /\ consumers[c].scan_cursor <= message_seq
      /\ consumers[c].drain_cursor # NULL => consumers[c].drain_cursor <= message_seq

\* What was claimed lies behind the cursor, and is a delivery or an archive.
ClaimedBehindCursor ==
    \A c \in DOMAIN consumers :
      /\ \A m \in DOMAIN deliveries[c] \union DOMAIN archives[c] :
           m \in Nat /\ m <= consumers[c].scan_cursor
      /\ DOMAIN deliveries[c] \intersect DOMAIN archives[c] = {}

\* Receipts were handed out by consumers that exist or existed, for messages behind
\* their cursors, and no two for the same lease.
ReceiptsBehindCursor ==
    /\ \A r \in receipts :
         /\ r.consumer_id <= consumer_seq
         /\ r.consumer_id \in DOMAIN consumers =>
              r.message_id <= consumers[r.consumer_id].scan_cursor
    /\ \A r, s \in receipts :
         /\ r.consumer_id = s.consumer_id
         /\ r.message_id = s.message_id
         /\ r.lease = s.lease
         => r = s

\* No receipt is for a lease the row did not have yet; since the last redrive,
\* generations grow with the leases.
ReceiptsFollowRows ==
    /\ \A c \in DOMAIN consumers :
         \A m \in DOMAIN deliveries[c] :
           deliveries[c][m].delivery_count <= deliveries[c][m].lease
    /\ \A r \in receipts :
         r.consumer_id \in DOMAIN consumers =>
           /\ r.message_id \in DOMAIN archives[r.consumer_id] =>
                r.lease <= archives[r.consumer_id][r.message_id].lease
           /\ r.message_id \in DOMAIN deliveries[r.consumer_id] =>
                /\ r.lease <= RowOf(r).lease
                /\ r.lease > Archived(RowOf(r)) =>
                     /\ r.generation <= RowOf(r).generation
                     /\ r.generation = RowOf(r).generation =>
                          r.lease = RowOf(r).lease /\ r.until # 0

\* A lease that still runs, on a row that was never redriven, is the row's.
RunningLeaseIsTheRows ==
    \A r \in receipts :
      /\ r.consumer_id \in DOMAIN consumers
      /\ r.message_id \in DOMAIN deliveries[r.consumer_id]
      /\ Archived(RowOf(r)) = 0
      /\ r.until > clock
      => /\ r.generation = RowOf(r).generation
         /\ r.until <= RowOf(r).visible_at

Inv ==
    /\ TypeOK
    /\ CursorBounds
    /\ ClaimedBehindCursor
    /\ MessagesAreReferenced
    /\ ReceiptsBehindCursor
    /\ ReceiptsFollowRows
    /\ RunningLeaseIsTheRows

-----------------------------------------------------------------------------
(* What a step may not do.                                                 *)

\* The cursor of a consumer only moves forward, also past messages that were pruned
\* (when MAX(id) is behind it), and the end that begin_draining set never moves.
CursorsNeverRetreat ==
    [][\A c \in DOMAIN consumers \intersect DOMAIN consumers' :
         /\ consumers'[c].scan_cursor >= consumers[c].scan_cursor
         /\ consumers[c].draining =>
              /\ consumers'[c].draining
              /\ consumers'[c].drain_cursor = consumers[c].drain_cursor]_vars

Drained(c) == consumers[c].draining /\ Outstanding(c) = {} /\ DOMAIN archives[c] = {}

\* A consumer that drained, with no archive to redrive, has nothing to do any more,
\* whatever is published or pruned: DeleteMode::DrainedOnly can only succeed.
DrainedIsFinal ==
    [][\A c \in DOMAIN consumers \intersect DOMAIN consumers' :
         Drained(c) => Drained(c)']_vars

\* The outstanding count of a snapshot, and of a DeleteOutcome, is exact: no message in
\* it twice, none of those that delete_consumer would discard missing.
SnapshotsAreExact ==
    \A c \in DOMAIN consumers : SnapshotOutstanding(c) = Cardinality(Outstanding(c))

-----------------------------------------------------------------------------
(* The query that lets a poll go without SQLite's writer lock.             *)

EarliestVisibleAt(c) == {deliveries[c][m].visible_at : m \in DOMAIN deliveries[c]}

\* mutant: a delivery counts as visible only after its deadline
ReadOnlyCheckStrict(c, now) ==
    \/ \E t \in EarliestVisibleAt(c) : t < now
    \/ consumers[c].scan_cursor < ScanLimit(c)

\* Is the transaction of Claim worth starting?
ReadOnlyCheck(c, now) ==
    \/ \E t \in EarliestVisibleAt(c) : t <= now
    \/ consumers[c].scan_cursor < ScanLimit(c)

\* When the check sends a poll to sleep, a snapshot taken at the same moment counts
\* nothing ready; and when it also ends the poll of a draining consumer (no delivery
\* left), the consumer has drained.
ShortcutMissesNothing ==
    \A c \in DOMAIN consumers, now \in Now :
      ~ReadOnlyCheck(c, now) =>
        /\ SnapshotReady(c, now) = 0
        /\ consumers[c].draining /\ EarliestVisibleAt(c) = {} => Outstanding(c) = {}

-----------------------------------------------------------------------------
(* The log with cursors implements a store that fans out when it publishes. *)

Retained == [m \in DOMAIN messages |-> messages[m].topic]

Subscribers ==
    [c \in DOMAIN consumers |-> [name |-> consumers[c].name,
                                 topic_filter |-> consumers[c].topic_filter,
                                 open |-> ~consumers[c].draining]]

Inbox == [c \in DOMAIN consumers |-> Outstanding(c)]

DeliveredTo(c) == {r.message_id : r \in {s \in receipts : s.consumer_id = c}}

Delivered == [c \in DOMAIN consumers |-> DeliveredTo(c)]

Dead == [c \in DOMAIN consumers |-> DOMAIN archives[c]]

Abs == INSTANCE FanOut WITH
         published <- message_seq, retained <- Retained,
         enrolled <- consumer_seq, subscribers <- Subscribers,
         inbox <- Inbox, delivered <- Delivered, dead <- Dead

\* Whatever the interleaving of claims, settlements, redrives, drains, deletions and
\* prunes: a message is owed to each matching active consumer from the moment it is
\* published until a worker that received it settles it, it is pruned only when nobody
\* has it, and deletions say exactly what they discard.
EagerFanOut == Abs!Spec

=============================================================================
