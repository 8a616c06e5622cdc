--------------------------- MODULE ReceiptBatches ----------------------------
(***************************************************************************)
(* How a batch of receipts, or of archive ids, is carried out: ack_batch,  *)
(* nack_batch, extend_visibility_batch, archive_batch and redrive_batch of *)
(* src/src/consumer.rs.                                                    *)
(*                                                                         *)
(* A batch is cut into chunks that fit into a statement, one transaction   *)
(* runs their statements in turn, and the rows that they touch are counted *)
(* for BatchResult.  LogStore has the same operations as one set-based     *)
(* step each; this module says when the chunks amount to that step, and    *)
(* when the counts are those of the documentation.                         *)
(*                                                                         *)
(* Batches are sequences, since a receipt may be in one twice.  There is   *)
(* one transaction at a time: the first statement takes the writer lock.   *)
(***************************************************************************)
EXTENDS Integers, Sequences, FiniteSets, FiniteSetsExt, Functions

CONSTANTS
    Consumers,   \* ids of consumers
    Messages,    \* ids of messages
    Entries,     \* the <<consumer, message>> that are handed out
    NULL,        \* no transaction; no deadline
    ChunkSize,   \* RECEIPTS_PER_CHUNK, and MAX_SQL_VARIABLES - 1 archive ids
    MaxBatch,    \* Config::max_batch_size
    Deadlines,   \* values of visible_at
    MaxReceipts, \* bound on different receipts
    MaxArchives  \* bound on archives ever made

ASSUME BatchAssumption ==
    /\ Messages \subseteq Nat /\ Entries \subseteq Consumers \X Messages
    /\ Deadlines \subseteq Nat /\ Deadlines # {}
    /\ ChunkSize \in Nat \ {0} /\ MaxBatch \in Nat \ {0}
    /\ MaxReceipts \in Nat /\ MaxArchives \in Nat

VARIABLES
    deliveries,   \* litefan_deliveries: <<consumer, message>> -> [generation, visible_at]
    archives,     \* litefan_archived_deliveries: id -> [consumer_id, message_id]
    archive_seq,  \* its AUTOINCREMENT counter
    receipts,     \* the receipts of all deliveries ever handed out
    transaction   \* the batch under way and its own view of the tables, or NULL

vars == <<deliveries, archives, archive_seq, receipts, transaction>>

Nothing == [x \in {} |-> x]

Without(f, S) == [x \in DOMAIN f \ S |-> f[x]]

Receipt == [consumer_id : Consumers, message_id : Messages, generation : Nat]

BatchesOf(S) == UNION {[1..n -> S] : n \in 1..MaxBatch}

Init ==
    /\ deliveries = Nothing
    /\ archives = Nothing /\ archive_seq = 0
    /\ receipts = {}
    /\ transaction = NULL

-----------------------------------------------------------------------------
(* The statements.                                                         *)

\* push_receipt_predicate: the rows of a consumer that these receipts are current for.
Current(rows, c, R) ==
    {row \in DOMAIN rows :
       /\ row[1] = c
       /\ [consumer_id |-> c, message_id |-> row[2], generation |-> rows[row].generation] \in R}

\* mutant: the generation is left alone
ReleasedSameGeneration(rows, hit, at) ==
    [row \in DOMAIN rows |->
       IF row \in hit THEN [rows[row] EXCEPT !.visible_at = at] ELSE rows[row]]

Released(rows, hit, at) ==
    [row \in DOMAIN rows |->
       IF row \in hit
       THEN [generation |-> rows[row].generation + 1, visible_at |-> at]
       ELSE rows[row]]

\* mutant: an extension adds to the deadline
ExtendedFurther(rows, hit, at) ==
    [row \in DOMAIN rows |->
       IF row \in hit THEN [rows[row] EXCEPT !.visible_at = @ + at] ELSE rows[row]]

Extended(rows, hit, at) ==
    [row \in DOMAIN rows |->
       IF row \in hit THEN [rows[row] EXCEPT !.visible_at = Max({@, at})] ELSE rows[row]]

\* mutant: an archive id is trusted without its consumer
ArchivedOfAnyone(shelf, c, ids) == {i \in DOMAIN shelf : i \in ids}

\* The archive rows of a consumer that have these ids.
Archived(shelf, c, ids) == {i \in DOMAIN shelf : i \in ids /\ shelf[i].consumer_id = c}

\* One statement for a set of items; moved is what it RETURNs, to be inserted elsewhere.
Statement(view, op, c, at, items) ==
    IF op = "redrive"
    THEN LET hit == Archived(view.archives, c, items)
         IN  [view EXCEPT !.archives = Without(@, hit),
                          !.moved = @ \union {view.archives[i].message_id : i \in hit},
                          !.applied = @ + Cardinality(hit)]
    ELSE LET hit == Current(view.deliveries, c, items)
         IN  [view EXCEPT
                !.deliveries = CASE op = "nack" -> Released(@, hit, at)
                                 [] op = "extend" -> Extended(@, hit, at)
                                 [] OTHER -> Without(@, hit),
                !.moved = @ \union IF op = "archive" THEN {row[2] : row \in hit} ELSE {},
                !.applied = @ + Cardinality(hit)]

\* The items of the next chunk.
Chunk(t) == {t.batch[i] : i \in t.done + 1 .. Min({t.done + ChunkSize, Len(t.batch)})}

-----------------------------------------------------------------------------
(* The transaction of a batch.                                             *)

\* The batch is not empty nor too long, and the deadline has been computed.
Begin(op, c, batch, at) ==
    /\ transaction = NULL
    /\ transaction' = [op |-> op, consumer |-> c, batch |-> batch, at |-> at, done |-> 0,
                       view |-> [deliveries |-> deliveries, archives |-> archives,
                                 moved |-> {}, applied |-> 0]]
    /\ UNCHANGED <<deliveries, archives, archive_seq, receipts>>

Finished == transaction # NULL /\ transaction.done = Len(transaction.batch)

ExecuteChunk ==
    /\ transaction # NULL /\ ~Finished
    /\ LET t == transaction
       IN  transaction' =
             [t EXCEPT !.view = Statement(@, t.op, t.consumer, t.at, Chunk(t)),
                       !.done = Min({@ + ChunkSize, Len(t.batch)})]
    /\ UNCHANGED <<deliveries, archives, archive_seq, receipts>>

\* What was moved may not be there yet: the primary key of the one table and the UNIQUE
\* of the other would fail the call.
MovedIsNew ==
    LET t == transaction
    IN  /\ t.op = "redrive" =>
             \A m \in t.view.moved : <<t.consumer, m>> \notin DOMAIN t.view.deliveries
        /\ t.op = "archive" =>
             \A i \in DOMAIN t.view.archives :
               ~ (t.view.archives[i].consumer_id = t.consumer
                    /\ t.view.archives[i].message_id \in t.view.moved)

\* The deliveries or archives that were moved are inserted, archives in the order of their
\* messages, and all is committed.
Commit ==
    /\ Finished /\ MovedIsNew
    /\ LET t == transaction
           c == t.consumer
           moved == t.view.moved
           restored == {c} \X (IF t.op = "redrive" THEN moved ELSE {})
           shelved == IF t.op = "archive" THEN moved ELSE {}
           id == [m \in shelved |-> archive_seq + Cardinality({n \in shelved : n <= m})]
       IN  /\ archive_seq + Cardinality(shelved) <= MaxArchives
           /\ deliveries' =
                [row \in DOMAIN t.view.deliveries \union restored |->
                   IF row \in restored THEN [generation |-> 0, visible_at |-> t.at]
                   ELSE t.view.deliveries[row]]
           /\ archives' =
                [i \in DOMAIN t.view.archives \union Range(id) |->
                   IF i \in DOMAIN t.view.archives THEN t.view.archives[i]
                   ELSE [consumer_id |-> c,
                         message_id |-> CHOOSE m \in shelved : id[m] = i]]
           /\ archive_seq' = archive_seq + Cardinality(shelved)
    /\ transaction' = NULL
    /\ UNCHANGED receipts

\* An error, a crash or a dropped call, at any statement.
RollBack ==
    /\ transaction # NULL
    /\ transaction' = NULL
    /\ UNCHANGED <<deliveries, archives, archive_seq, receipts>>

-----------------------------------------------------------------------------
(* Everybody else.                                                         *)

\* A delivery is claimed, for the first time or again, and its receipt handed out.
Claim(row) ==
    LET generation == IF row \in DOMAIN deliveries THEN deliveries[row].generation + 1 ELSE 1
    IN  /\ transaction = NULL
        /\ row \in DOMAIN deliveries \/ \A r \in receipts : <<r.consumer_id, r.message_id>> # row
        /\ \E at \in Deadlines :
             deliveries' = [x \in DOMAIN deliveries \union {row} |->
                              IF x = row THEN [generation |-> generation, visible_at |-> at]
                              ELSE deliveries[x]]
        /\ receipts' = receipts \union
             {[consumer_id |-> row[1], message_id |-> row[2], generation |-> generation]}
        /\ Cardinality(receipts') <= MaxReceipts
        /\ UNCHANGED <<archives, archive_seq, transaction>>

Next ==
    \/ \E row \in Entries : Claim(row)
    \/ \E c \in Consumers, batch \in BatchesOf(receipts) :
         \/ \E op \in {"ack", "archive"} : Begin(op, c, batch, NULL)
         \/ \E op \in {"nack", "extend"}, at \in Deadlines : Begin(op, c, batch, at)
    \/ \E c \in Consumers, batch \in BatchesOf(1..archive_seq), at \in Deadlines :
         Begin("redrive", c, batch, at)
    \/ ExecuteChunk \/ Commit \/ RollBack

Spec == Init /\ [][Next]_vars

-----------------------------------------------------------------------------
(* Properties.                                                             *)

Row == [generation : Nat, visible_at : Nat]

\* Types of the variables; a transaction has the tables to itself, so that what it would
\* insert is never there already and no call fails for it.
TypeOK ==
    /\ deliveries \in [DOMAIN deliveries -> Row]
    /\ DOMAIN deliveries \subseteq Entries
    /\ archives \in [DOMAIN archives -> [consumer_id : Consumers, message_id : Messages]]
    /\ archive_seq \in Nat /\ DOMAIN archives \subseteq 1..archive_seq
    /\ receipts \subseteq Receipt
    /\ Finished => MovedIsNew

\* A nacked delivery is at the generation after that of its receipt: a batch that holds
\* both receipts, one of them from before a redrive, nacks it twice.
MixesLives(t) ==
    \E r, s \in Range(t.batch) :
      /\ r.consumer_id = s.consumer_id /\ r.message_id = s.message_id
      /\ s.generation = r.generation + 1

\* Chunk by chunk, the tables become what one statement for the whole batch would make of
\* them, duplicates or not, but for nacks that mix two lives of a delivery.
ChunksAreOneStatement ==
    Finished =>
      LET t == transaction
          before == [deliveries |-> deliveries, archives |-> archives, moved |-> {},
                     applied |-> 0]
          whole == Statement(before, t.op, t.consumer, t.at, Range(t.batch))
      IN  \/ t.op = "nack" /\ MixesLives(t)
          \/ /\ t.view.deliveries = whole.deliveries
             /\ t.view.archives = whole.archives
             /\ t.view.moved = whole.moved

\* The rows a batch is for: the different items of it that are current when it begins.
Effective(t) ==
    IF t.op = "redrive" THEN Archived(archives, t.consumer, Range(t.batch))
    ELSE Current(deliveries, t.consumer, Range(t.batch))

\* Some item is in two chunks.
RepeatsAcrossChunks(t) ==
    \E i, j \in DOMAIN t.batch :
      (i - 1) \div ChunkSize < (j - 1) \div ChunkSize /\ t.batch[i] = t.batch[j]

\* BatchResult counts each of them as applied once, and with that everything else in the
\* batch, duplicates included, as stale.  Two batches are counted otherwise: an extension
\* applies a receipt again that a later chunk repeats, as it leaves the generation alone,
\* and a nack that mixes two lives.
CountsAreTrue ==
    Finished =>
      LET t == transaction
      IN  \/ t.op = "extend" /\ RepeatsAcrossChunks(t)
          \/ t.op = "nack" /\ MixesLives(t)
          \/ t.view.applied = Cardinality(Effective(t))
=============================================================================
