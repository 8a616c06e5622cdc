# A formal model of litefan

litefan is a durable, at-least-once fan-out message log kept in one SQLite
file.  This directory models it in TLA+, checks the models with TLC and proves
theorems about the store with TLAPS.  Paths and line numbers refer to
the repository's `src/` tree (`src/src/*.rs`); `PROJECT.json` maps every
definition to the lines it stands for.

## The system

| component | state | operations |
|---|---|---|
| log, cursors and claims (`consumer.rs`, `schema.rs`) | `litefan_messages`, `scan_cursor`, `litefan_deliveries` | `poll` -> `claim`: a read-only check, then one transaction that leases visible deliveries, then unread log entries, and moves the cursor |
| receipts (`consumer.rs`, `storage.rs`) | `visible_at`, `generation`, `delivery_count` of a delivery | `ack`, `nack`, `extend_visibility` and their batches |
| archives (`consumer.rs`) | `litefan_archived_deliveries` | `archive`, `archives`, `redrive`, `purge_archives` |
| consumer lifecycle (`consumer.rs`, `store.rs`) | `litefan_consumers` | `open`, `begin_draining`, `delete_consumer` in three modes |
| retention (`store.rs`) | `litefan_messages` | `prune_messages` |
| snapshots (`storage.rs`, `store.rs`) | none | `snapshot` of a consumer, of the store |
| publishing (`store.rs`) | `litefan_messages`, `litefan_idempotency` | `publish`, `publish_batch`, keyed and unkeyed |
| long polling (`consumer.rs`) | the poller's deadline and receivers | the loop of `poll` |
| signals (`signals.rs`) | generation counters in a registry of weak references | `subscribe`, `notify` |
| time (`time.rs`) | none | reading the clock, conversions |
| opening (`store.rs`, `schema.rs`) | the schema, `user_version` | `open_with_config` |

All components meet in the database.  Any number of workers, in any number of
tasks and processes, hold handles to one consumer name and compete for its
deliveries; what they share is the tables, and inside a process the signals,
which only shorten the sleep of an empty poll.  Every operation that writes is
one SQLite transaction whose first statement is a write, so it holds the one
writer lock from there to its commit: operations are serialized, and a
transaction that fails or whose process dies leaves nothing.

What makes the system hard:

* *time is read before the lock.*  `claim`, `nack`, `extend_visibility` and
  `archive` compute with a time that may be old when they commit, so deadlines
  are not monotone in commit order;
* *workers are slow.*  A lease expires, another worker gets the message, and the
  first one acts on its receipt;
* *nothing is stored per consumer and message* until a message is claimed.  What
  a consumer still has to get is derived from two cursors, `MAX(id)` and the
  filter, in four different queries (`claim`, snapshots, `delete_consumer`,
  `prune_messages`), which must agree whatever is pruned in between;
* *a row has several lives*: delivered, archived, redriven, delivered again.

## Modules

`LogStore` models the tables and every transaction on them.

| code | model |
|---|---|
| `litefan_messages`, its AUTOINCREMENT counter | `messages`, `message_seq` |
| `litefan_consumers` and its counter | `consumers`, `consumer_seq` |
| `litefan_deliveries` (consumer, message) | `deliveries[c][m]` |
| `litefan_archived_deliveries` and its counter | `archives[c][m]`, `archive_seq` |
| `now_ms()` | `now \in Now`: the clock, or up to `MaxLag` earlier |
| `ConsumerBuilder::open` | `OpenConsumer` |
| what `publish_batch` inserts | `Publish` |
| `begin_draining` | `BeginDraining` |
| `claim` | `Claim`, with `Leased` (rows), `NextCursor` (cursor), `Handed` (receipts); `ReadOnlyCheck` is the query before it, a definition that no action uses: here the transaction may always be tried, and what may happen between the query and the transaction is in `PollLoop` |
| `push_receipt_predicate` | `Current` |
| `ack_batch`, `nack_batch`, `extend_visibility_batch`, `archive_batch` | `AckBatch`, `NackBatch`, `ExtendVisibilityBatch`, `ArchiveBatch` |
| `redrive_batch`, `purge_archives` | `RedriveBatch`, `PurgeArchives` |
| `delete_consumer` | `DeleteConsumer` |
| `prune_messages` | `Prune`, with `Prunable` |

An action is a whole transaction.  An argument of the caller (a batch, a page
size, a timeout, a set of receipts) is chosen by `\E` in the wrappers at the end
of the module; receipts of any consumer may be presented to any other, as often
as one likes.  Calls that return an error or change nothing are steps that do
nothing.  Two variables are history that the program does not have: `receipts`,
every receipt ever handed out with the number of the lease it was for and the
time until which its holder counts on it, and `outcomes`, what each deletion
said it discarded.  The field `lease` of a row (how often the delivery was
claimed in all its lives) is history too.  Ids are consecutive; gaps that a
failed INSERT may leave in SQLite's counters matter to no property.

Abstracted: bodies, archive details, names beyond equality, `created_at`,
`draining_at` beyond being set.  A page of 332 or 999 variables is not visible
in the effect of a transaction.

`FanOut` is what the store promises, without log, cursor, lease or clock: a
message is in the inbox of every matching open subscriber the moment it is
published and leaves it only when the subscriber settles or buries it, or is
deleted.  `LogStore` implements it under the mapping of `Abs` (the inbox of a
consumer is its deliveries and its unread log entries).

`PollLoop` models the tasks of one process that long-poll one consumer.  Each
task has a program counter with a label before every step that may interleave
with others:

| code | model |
|---|---|
| `poll`, `consumer.rs:153-167` | `Call`: the deadline (`left`) and two receivers with nothing unseen |
| `consumer.rs:170-172`, `526` | `Mark`: the signals are marked seen (`fresh`), then the time is read (`lag`, its age) |
| `claim`, the read-only query | `Check` |
| `claim`, the transaction | `Claim` |
| `claim`, the query after an empty transaction | `Requery` |
| `consumer.rs:173-189`, `duration_until_ms` | `Decide`, `SleepFor`: return, or set the timer (`due`) |
| the `select!` | `Wake`: a signal or the timer |
| dropping the future | `Cancel` |
| `Signal::notify` | `Notify`, a step of its own after the commit (`unsent`) |
| everything else that touches the consumer, in this process or another | `Publish`, `PublishOther`, `Prune`, `BeginDraining`, `DeleteConsumer`, `Ack`, `Extend`, `Nack`, `Archive`, `PurgeArchives`, `Redrive`, `Lapse` |

Of the tables it keeps what the loop can tell apart: which messages are
`unread`, whether entries for `others` lie ahead of the cursor, the time to
`visible_at` of each delivery, whether the consumer is draining or deleted.
`LogStore` shows that its cursors amount to that.  A deadline is a number of
milliseconds from now that `Tick` decrements (and stops counting when it is
`MaxLag` past), so that time goes on for ever in a finite model.  An operation
of this process leaves a notification to be sent at any later moment; one of
another process, or one whose caller is dropped or dies after the commit, leaves
none.  `announced` (what was claimable when it was notified, and still is) and
`redriven` are history.

`Snapshots` extends `LogStore` with the other fields of a snapshot: `NextReadyAt`,
`OldestOutstandingAt`, `IsDrained` and the totals of `StoreSnapshot`.  It has no
actions; a snapshot is one read transaction.

`Publishing` models keyed publishing, which `LogStore` leaves out.

| code | model |
|---|---|
| `litefan_idempotency` | `ledger`: key -> `message_id`, `expires_at` |
| `now_ms()` and the wait for the writer lock | `Begin`: the two times of a call in flight (`calls`) |
| purge, claim, read back, insert, fill in (`store.rs:141-219`) | `Purged`, `Claimed`, `ToPublish`, `Assigned`, `Filled`, all in `CommitKeyed` |
| `PublishOutcome` | `Outcomes` |
| `publish_unkeyed_batch` | `CommitUnkeyed` |
| an error, a crash, a dropped call | `Fail`; a caller that lost the answer simply calls again |
| `validate_config` | `ValidConfig`, an assumption |

A call's batch is chosen when it commits, as nothing looks at it earlier.
`publications`, `answered` and `outcomes` are history.  Each call has a window of
its own, since processes may be configured differently.  `Deduplication` is what
this promises: no ledger and no sets, messages of a call are handled one after
another against the log of all publications; in the time between a call's reading
of the clock and its commit a window that ends may be seen either way.
`Publishing` implements it (`OneByOne`).

`Signals` models the registry of `signals.rs` and the strong references that
handles hold.  A handle is opened in two steps (`GetPublishSignal`,
`GetConsumerSignal`) and dropped in two, field by field, because other threads may
look up, insert, notify (`NotifyAll`, `NotifyTopics`, `NotifyConsumer`,
`NotifyChange`) or remove entries in between; each section under the registry's
lock is one step.  A signal is a member of `SignalIds`, free to be allocated again
once no strong or weak reference is left.  `Broadcast` is what it promises: a
notification reaches the polls of its topic or consumer, on whatever handle.
`Signals` implements it (`NotificationsReachPolls`).  `PollLoop`, which has no registry,
uses signals as `Broadcast` has them (`PollsAreBroadcastTo`): its polls look and leave
as `Broadcast` lets them, and each `Notify` is an announcement there.  What
`NoLostWakeup` takes for granted of signals is thus what the registry delivers.

`ReceiptBatches` models what `LogStore` hides: the statements of one batch, chunk
by chunk, inside their transaction (`ExecuteChunk` on its own `view` of the
tables), the rows each of them returns, and the sum in `BatchResult`.  Batches are
sequences, so that an item may come twice.

`Opening` models the statements of `open_with_config`, one action each:

| code | model |
|---|---|
| connecting, `PRAGMA user_version` and its comparison (`store.rs:60-83`) | `ReadVersion` |
| each `CREATE ... IF NOT EXISTS` of `SQL` (`store.rs:84`) | `Create` |
| the two probes (`store.rs:85-95`) | `ProbeConsumers`, `ProbeArchives` |
| writing `user_version` if the version read was older (`store.rs:96-100`) | `AfterProbes`, `SetVersion` |
| any error of a statement, at a probe turned into `IncompatibleSchema` | `StatementFails` |
| a process that dies, a future that is dropped | `Abandon` |
| a release newer than this one | `Upgrade` |

A call that ended with an error may be made again (`ReadVersion`), but need not be.
A file is the set of its tables and indexes and what is the matter with each.  A
table of an older release may lack a column that an index is on
(`"unindexable"`), one that only a probe selects (`"obsolete"`), or one that
neither looks at (`"unprobed"`); `Older` are the combinations there may be.  What
a newer release makes of the tables is not known, so statements that meet it may
succeed or fail.  `failed` (whose last call lost a statement or was abandoned) is
history.

`MCLogStore`, `MCPollLoop`, `MCPublishing`, `MCSignals`, `MCReceiptBatches` and
`MCOpening` instantiate the models for TLC; the modules whose names end in
`_proofs` and `_refinement` hold the theorems.

## Runs

| run | instance | shows |
|---|---|---|
| `batches` (`MCBatch.cfg`) | 1 consumer, 2 messages, batches of 2, 2 generations, 2 ticks, times up to 1 tick old | the inductive invariant, `StaleReceiptIsRejected`, `LeaseIsExclusive`, `ShortcutMissesNothing`, `OnePlacePerMessage`, `MessagesAreReferenced`, the four properties of snapshots, the refinement of `FanOut` |
| `fan_out` (`MCFanOut.cfg`) | 2 names, 2 consumers ever, 1 topic, 2 messages, batches of 2 | `CursorsNeverRetreat`, `DrainedIsFinal`, the refinement of `FanOut` |
| `redrive` (`MCRedrive.cfg`) | 1 consumer, 1 message | the documents' claim about receipts is false after a redrive |
| `wakeups` (`MCWakeups.cfg`) | 2 pollers, 1 message, 1 nack, 1 crash, cancellation or redrive | `NoLostWakeup`, `NoEarlyGoodbye` |
| `long_poll` (`MCLongPoll.cfg`) | 1 poller, 1 message, waits of 0 and 2 intervals | `PollsEnd`, `DrainingEnds`, `PollsAreBroadcastTo` |
| `unattended` (`MCUnattended.cfg`) | 1 poller, 2 messages, pages of 1, no notification at all | `EveryMessageIsClaimed` |
| `publishing` (`MCPublishing.cfg`) | 2 calls in flight, 2 keys, batches of 2, windows of 1 and 2, 1 tick, 3 messages | `LedgerIsExact`, `KeysAreSuppressed`, `AnswersAreTrue`, the refinement of `Deduplication` |
| `registry` (`MCRegistry.cfg`) | 3 handles, 3 consumers, 1 topic, 1 publishing thread, 5 signals | `HeldSignalsAreRegistered`, `SignalsAreDistinct`, the refinement of `Broadcast` |
| `chunks` (`MCChunks.cfg`) | 2 consumers, 2 messages, batches of 3 in chunks of 2 | `ChunksAreOneStatement`, `CountsAreTrue` |
| `opening` (`MCOpening.cfg`) | 2 processes, 2 faults, one upgrade, files with every part of the schema and 5 kinds of older tables | `OpenedIsComplete`, `VersionIsTrue`, `RefusalsAreTrue`, `NewerStaysMarked`, `CompatibleIsOpened` |
| `oversleep` (`MCOversleep.cfg`) | 1 poller, 1 message, a wait of 3 with an interval of 2, a query that takes longer than what is left of a lease of 1 | a poller may sleep, here for the rest of its poll, past a deadline it knows |
| `starved` (`MCStarved.cfg`) | 1 poller, 2 messages, pages of 1, unbounded immediate nacks | a message may never be claimed |

Bounds.  Properties of receipts are about one row, so one message and one
consumer suffice, with two generations (a stale and a current one),
one redrive, and a lag as long as a lease, so that a lease may be over when it
commits.  Paging, gaps after pruning and mixed batches need two messages in one
batch; isolation of consumers, filters and reuse of a name need two consumers.
A third message or consumer adds interleavings but no new relation between two
of them, and the theorems hold for every number.  `MaxMessages`,
`MaxConsumers`, `MaxArchives`, `MaxGeneration` and `MaxTime` only keep the state
space finite; the store stops in the model when they are reached, hence
`CHECK_DEADLOCK FALSE`.  `Names` may be permuted (`NameSymmetry`): the store
compares names for equality only, and no property names one.

In `PollLoop` one unit of time is one interval, one lease and the longest lag,
so that each may end before, with or after the others.  `wakeups` has two
pollers because one may take what woke the other; one message and one fault are
enough, as a lost wakeup or a wrong goodbye needs one commit between two steps
of one poller.  `unattended` has two messages and pages of one so that a
message waits behind another.  `MaxNacks` and `MaxFaults` bound nacks and
crashes, cancellations and redrives; `MaxLag` is an assumption as much as a
bound: no loop takes longer than it from reading the time to its sleep.
`PollLoop` never stops, and its runs check that it does not deadlock.

In `Publishing` a window of one tick may end between the reading of the clock and
the commit, one of two ticks outlives the run; two keys let a call purge another
call's key, and three messages let a key be published, purged and published
again.  In `Signals` two consumers share a topic and one has none; three handles
let one be dropped and one opened while a third keeps a signal alive.  Two chunks
of two and one are the least at which a duplicate may be in the same chunk or in
a later one; 332 receipts do not differ from 2.  `Publishing` has one body, as keys
and ids tell messages apart; that the body in the log is the one requested is
thus left to the proof.  `Opening` has two processes, as each statement looks only
at whether its object exists; one fault may hit each, or one both times.  It
ends when all calls have opened the file, hence `CHECK_DEADLOCK FALSE`.  `MaxBatch`,
`MaxTime`, `MaxMessages`, `MaxReceipts`, `MaxArchives` and `MaxFaults` are the
bounds of these modules.

Fairness (`Fairness` in `PollLoop`) is weak and has four parts.  Time passes
(`Tick`).  A task that can run does run (`Loop`): the runtime schedules it and
SQLite answers; a busy writer is a delay.  The application calls `poll` again
after each return (`Call`) and acknowledges what it holds (`Ack`), unless it
nacks, archives or crashes first: the code cannot ensure that, and without it no
message would ever be handled.  `Notify` is not fair: notifications are hints
(`signals.rs:32-33`), and the liveness properties hold if none arrives.

`Opening` assumes weak fairness of `Continue` alone: the runtime carries a call
that is under way on.  Nobody is assumed to call, or to call again after an
error; `CompatibleIsOpened` is about each call that is made and loses no statement
of its own.

Each property has a mutant next to the operation it changes, a version with a
plausible mistake (a dropped guard, a missing increment, an off-by-one), which
makes TLC find the property violated.

## Findings

1. `redrive_batch` restores a delivery at generation 0 (`consumer.rs:484`), so
   the next claim hands out generation 1 again.  A worker that still holds the
   receipt of the first claim can then acknowledge, release, prolong or archive
   a lease that another worker holds.  `src/lib.rs:5` and `README.md:116` say
   that a stale receipt cannot do that.  Run `redrive` shows it (property
   `ReceiptIsForOneAttempt`); `StaleReceiptIsRejected` is what remains true:
   within one life of a delivery, receipts are for one attempt.
2. `duration_until_ms` casts a negative `i64` to `u64` (`time.rs:57`).  When the
   earliest deadline passed between the query and the timer, the poll sleeps
   `cross_process_poll_interval`, or the rest of the poll if that is shorter (as in
   the run), instead of trying again, where `DESIGN.md:148`
   says that it wakes at the earliest known deadline.  The same makes the
   `Some(now)` of an empty claim (`consumer.rs:717`) no shorter than no deadline.
   Run `oversleep`.  The delay is bounded by the interval, so the liveness
   properties hold all the same.
3. Deliveries that are visible take the page before any unread entry
   (`consumer.rs:582-618`).  A message that is released immediately for ever
   keeps a consumer that polls for one message from the rest of the log;
   `DESIGN.md:4` says that every matching consumer eventually receives a
   message.  Run `starved`; with finitely many nacks `EveryMessageIsClaimed`
   holds (run `unattended`).

### Differences without a run

More statements of the documents and messages are narrower or wider than the code;
the properties that are checked state what does hold.

* `api.rs:237` says that `BatchResult::stale` includes duplicates.  An extension
  leaves the generation alone, so a receipt that comes again in a later chunk of
  332 is applied and counted again.  `CountsAreTrue` excepts exactly that, and
  nacks that hold receipts of two lives of one delivery (generations g and g + 1,
  after a redrive): a later chunk may nack again what an earlier one nacked.  In
  that corner the one-step `NackBatch` of `LogStore` differs from the code.
* `signals.rs:32` and `DESIGN.md:144` say that weak entries disappear when handles
  are dropped.  Their signals do; the entry of a key stays until that key is
  notified or looked up again.
* `DESIGN.md:30` says that a key suppresses another publish for a fixed window.
  `KeysAreSuppressed` says so of the time of the commit.  By `published_at` two
  messages of one key may be closer than the window: a call that reads the clock
  inside the window and commits after a call with a later time purged the key
  publishes it again, with a `published_at` inside the window and an `expires_at`
  that may be over already.
* `error.rs:44` says of `IncompatibleSchema` that the database contains an
  incompatible unversioned schema.  `store.rs:88` and `95` report so every error of a
  probe, a busy database or a failing disk included, also of a good file, and lose
  the error that it was.  `RefusalsAreTrue` says so of calls that lose no statement;
  the answer to a call that does is no reason not to try again.
* `configuration.rs:28` has it that obsolete unversioned schemas fail at open.
  They do when what they lack is what a probe selects or an index is on; in the
  latter case the error is `Sqlx`, not `IncompatibleSchema`.  Tables that lack
  anything else are opened and marked, and the statements that need the column
  fail later.
* `error.rs:48` says that a newer version is not supported.  The version is compared
  once: a call that read an older one goes on after a newer release has migrated the
  file, creates what that release dropped and sets the version back
  (`store.rs:96`), so that later calls open it.  `NewerStaysMarked` says that no
  other call does.

## Proofs

Every safety property that a passing run checks, the action properties and the
refinements included, is proved for all values of the constants; only liveness is
not.  Eight modules hold the proofs.

`LogStore_proofs` proves, from the assumptions
`NullAssumption` (NULL is no topic and no id), `BoundsAssumption` (bounds are
numbers) and `DurationAssumption` (leases last at least a millisecond, as `poll`
and `extend_visibility` require; delays are not negative):

| theorem | statement |
|---|---|
| `Invariance` | `Spec => []Inv` |
| `TypeCorrect` | `Spec => []TypeOK` |
| `OnePlace` | `Spec => []OnePlacePerMessage` |
| `NothingDangles` | `Spec => []MessagesAreReferenced` |
| `StaleReceipts` | `Spec => []StaleReceiptIsRejected` |
| `Exclusion` | `Spec => []LeaseIsExclusive` |
| `Cursors` | `Spec => CursorsNeverRetreat` |
| `DrainIsFinal` | `Spec => DrainedIsFinal` |
| `ExactSnapshots` | `Spec => []SnapshotsAreExact` |
| `ShortcutIsSafe` | `Spec => []ShortcutMissesNothing` |
| `Refinement` (in `LogStore_refinement`) | `Spec => EagerFanOut`, that is `Spec => Abs!Spec` |

The argument.  `Inv` is inductive.  Its parts: cursors point at ids that were
given out (`CursorBounds`); what was claimed lies behind the cursor, and is a
delivery or an archive (`ClaimedBehindCursor`), so that new rows, which are
ahead of it, collide with nothing; receipts are behind the cursors and one per
lease (`ReceiptsBehindCursor`); in one life of a delivery generations grow with
leases, and a row's generation equals a receipt's only for its latest lease, if
that was not given back (`ReceiptsFollowRows`); a lease that still runs is the
row's, and the row is not visible before it ends (`RunningLeaseIsTheRows`).  The
last needs the two before it and is what `LeaseIsExclusive` rests on: a claim
with an old time leases only rows visible at that time, so no earlier receipt
can still be running.  One lemma per operation shows that it preserves `Inv`;
`CursorSplitsTheLog` is the core of the one about `Claim`: every unread entry is
taken or ahead of the new cursor.

`LogStore_refinement` proves that every step of the log is a step of `FanOut` or
a stutter, with one lemma per operation and the same three assumptions.  It uses
`Inv`: the inbox of a consumer is its deliveries and the unread entries that
match it, so a publish must add to the inbox of every open consumer that
matches and to no other, a claim must leave every inbox alone, whatever part of
the page it fills and wherever it puts the cursor (`CursorSplitsTheLog`), a prune
must leave every unread entry, and what a deletion counts must be what it
discards.

`Snapshots_proofs` extends `LogStore_proofs` and needs no other assumption:

| theorem | statement |
|---|---|
| `SnapshotFields` | `Spec => []SnapshotsAgree` |
| `DrainedDeletes` | `Spec => DrainedSnapshotsDelete` |
| `QuietMeansPrunable` | `Spec => []QuietStoreIsPrunable` |

All three rest on `Inv`: a delivery lies in the log and behind the cursor, so
deliveries and unread entries are disjoint and finite (`Parts`), and their counts add
up.  Then `ready` is short of `outstanding` exactly by the deliveries that are due
later, the earliest of which is `next_ready_at` (`ReadinessGrows`); the oldest
outstanding message exists as no delivery outlives its message
(`MessagesAreReferenced`); and the read query of a snapshot counts what
`delete_consumer` counts under the lock.  For the totals, `SumIsZero` says that a sum
over the consumers is zero only if each term is; `SumFunction` is defined by
recursion over sets, which the lemma unrolls without an induction rule, from the
least cardinality for which it would fail.  `QuietMeansPrunable` needs one invariant
more, `PublishedInThePast`: a message from the future would not be prunable yet.

`PollLoop_proofs` proves `TypeOK`, `NoLostWakeup`, `NoEarlyGoodbye` and
`PollsAreBroadcastTo` for any
number of pollers and messages, and without the bounds on nacks and faults (any
values of `MaxNacks` and `MaxFaults` will do).  Its `Inv` adds two parts.
`AnnouncedIsClaimable`: what was announced is claimable until it is claimed or
settled.  `IsAware(p)`: a poller that has seen no signal since it marked them finds,
with the time it read, all that was announced; once a query or a transaction found
nothing, nothing was.  `Mark` establishes it, because it marks before it reads the
time; `Notify` may break its conclusion but then breaks its premise, because it
marks every receiver in a loop; `Claim` reaches `requery` only with a page that has
room left, so that nothing was visible or unread.  All other operations have in
common that they leave the pollers alone and make nothing announced disappear that
still is (`Surroundings`), which is shown once for each and used once for all.

`LoopAssumesBroadcast` (`Spec => PollsAreBroadcastTo`) is the link to the registry, for any
number of polls; the run that checks it has one.  To `Broadcast`, a step of the loop is a
look, a return or nothing (`StepsOfPolls`), only `Notify` sends (`OnlyNotifySends`), and it
announces to exactly the polls under way (`NotifyAnnounces`), because a task has no
receivers between its polls (`IdleIsQuiet`).

`Publishing_proofs` proves `LedgerIsExact`, `KeysAreSuppressed`, `AnswersAreTrue` and
`OneByOne` for any batches, windows and clocks.  They are inductive together with
`TimesArePast`: a time that was read or recorded is not ahead of the clock, so a
window that a call with an older time sees as over is over at its commit
(`WindowsAreOver`).  The other half is that the id a key gets is its message's: ids
are given by rank in the batch (`Ranks`), and ranks of distinct positions differ.

`OneByOneHolds`, that `Publishing` implements `Deduplication`, is proved on top of that
invariant and of one about calls (`CallsAreTimed`: a call's window is one of those
configured).  A commit computes everything at once from sets of positions; the
abstract one handles message after message.  `Handled` states what the transactions,
keyed (`KeyedHandles`) or not (`UnkeyedHandles`), have in common: which positions are
inserted, under which ids, and that the others are answered with the last message of
their key.  `OneAfterAnother` derives from it the state of the abstract loop after
each message, the log up to the rank of that position, the keys seen so far and the
answers so far, and shows that each is one step from the one before it; in particular
the message that answers a duplicate is already in the log when the loop gets to it,
because the first position of its key is earlier.  `Unrolled` says that
whatever goes on so is what the recursive definition of `PublishAll` computes.  Which
windows a call may see as over (`MaySuppress`) is `LedgerIsExact` for the entries that
it keeps and `WindowsAreOver` for the others (`KeptMayBeSuppressed`).

`ReceiptBatches_proofs` proves, for batches and chunks of every length and any number
of consumers, messages and receipts:

| theorem | statement |
|---|---|
| `Invariance` | `Spec => []Inv` |
| `Types` | `Spec => []TypeOK`, with it that no batch fails on a primary key or a UNIQUE |
| `OneStatement` | `Spec => []ChunksAreOneStatement` |
| `Counts` | `Spec => []CountsAreTrue` |

Its `Inv` says that a delivery is in one of the two tables (`Tables`), that whole
chunks are done (`AtBoundary`), and that the transaction's view is what one statement
for the items so far would have made of the tables (`OneStatementSoFar`) with each row
counted once (`CountedSoFar`).  It is inductive because of `StatementsCompose`: a
statement for some items and then one for others are one for all of them, as the
first leaves nothing of what it hit for the second to hit again.  A deleted row is
gone (`GoneIsGone`); a nacked one has another generation (`ReleasedIsGone`), unless the
batch mixes two lives; an extended one is hit again but extended to the same deadline
(`ExtendedTwice`), so that only the count is off, and only if an item is in two chunks
(`ChunksApart`).  The exceptions in the two properties are thus exactly those that
the proof needs.  TLC checked this `Inv` on the instance of run `chunks`.

`Signals_proofs` proves `HeldSignalsAreRegistered` and `SignalsAreDistinct`, which
are inductive together, and that `Signals` implements `Broadcast`, step by step.  An
entry whose signal is held is not replaced, because the signal is alive; a signal
that is put in an entry is new, because no strong or weak reference to it is left.
Under
the refinement mapping a handle belongs to its consumer while it holds both signals.

`Opening_proofs` proves the safety properties of opening, for any number of
processes and faults and any `Older` (`OpeningAssumption`: a table lacks one of the
three kinds of columns that it may lack).  Its `Inv` says what a process may rely on
between its steps until a newer release has the file: it holds only tables of this
release or of an older one (`KindsAreKnown`), a table that cannot have an index has
none (`UnindexableHasNone`), what a process created or found is still there, as
nothing is dropped (`MadeIsThere`), what it probed is still selectable
(`ProbedIsSelectable`); and a version is about to be written only by a call that
read an older one (`MarksAreOwed`).  `MovePreserves` and `CallsUnchanged` collect
what a step that only moves one call must show.

Only model-checked:

* liveness (`PollsEnd`, `DrainingEnds`, `EveryMessageIsClaimed`,
  `CompatibleIsOpened`): the proof system has no rule for fairness;
* the three runs that show a difference between documents and code.

## Not modelled

* SQLite, sqlx and the pool: transactions are atomic and serializable, and a
  failed one leaves nothing.  SQLITE_BUSY is a call that does nothing.
* A wall clock that is set back: `Now` lags behind the clock but time does not
  decrease.
* 64-bit overflow of ids, generations and times (`checked_add` turns it into an
  error, which does nothing).
* The paged listing of archives (`archives`): it changes no state, and its cursor
  is an id that AUTOINCREMENT never gives out twice.
* In `Opening`: the pragmas of the connection, `journal_mode` among them
  (`store.rs:58`), which is set before the version is compared and so also on a file
  that is then refused; and the check of the configuration.
* In `Signals`: memory, and the poisoning of the registry's locks.
* In `PollLoop`: which visible delivery a page takes first (`LogStore` has it),
  and `changed.is_err()` of the `select!`, as a handle keeps its senders alive
  while it polls.
* Configuration checks, accessors, error texts, tests and benchmarks.

## Plan

Done, in this order: the store (`LogStore`, `FanOut`) with its proofs, the long poll
with its liveness, publishing with its ledger, the registry of signals, snapshots,
chunks of receipts, opening; then the proofs about the long poll, publishing, the
signals and opening; then those about snapshots, chunks of receipts, publishing one
message after another, and the signals that the long poll takes for granted.

Next, if at all: lemmas that more than one of the proof modules states for itself
(least elements, cardinalities) in one module.
