--------------------------- MODULE LogStore_proofs ---------------------------
(* What TLAPS proves of LogStore, for every value of its constants.        *)
EXTENDS LogStore, FiniteSetTheorems, WellFoundedInduction, TLAPS

-----------------------------------------------------------------------------
(* Maxima and finiteness.                                                  *)

\* Max of a nonempty set of ids, as SELECT MAX(id) and new_ids.last() compute it,
\* is one of them and bounds them all.
LEMMA MaxOfIds ==
    ASSUME NEW n \in Nat, NEW S \in SUBSET (0..n), S # {}
    PROVE  Max(S) \in S /\ \A x \in S : x <= Max(S)
<1> DEFINE T == {n - x : x \in S}
<1>1. T \subseteq Nat /\ T # {}
  <2>1. \A x \in S : x \in Int /\ 0 <= x /\ x <= n
    OBVIOUS
  <2>2. \A x \in S : n - x \in Nat
    BY <2>1
  <2> QED BY <2>2
<1>2. PICK t \in T : \A u \in T : ~ (<<u, t>> \in OpToRel(<, Nat))
  <2> HIDE DEF T
  <2> QED BY <1>1, NatLessThanWellFounded, WFMin
<1>3. PICK x \in S : t = n - x
  OBVIOUS
<1>4. \A y \in S : x >= y
  <2> TAKE y \in S
  <2>1. n - y \in T
    OBVIOUS
  <2>2. x \in Int /\ y \in Int
    OBVIOUS
  <2>3. n - y \in Nat /\ t \in Nat
    BY <1>1, <2>1
  <2>4. ~ (n - y < t)
    <3> HIDE DEF T
    <3> QED BY <1>2, <2>1, <2>3 DEF OpToRel
  <2> HIDE DEF T
  <2> QED BY <1>3, <2>2, <2>4
<1>5. Max(S) \in S /\ \A y \in S : Max(S) >= y
  BY <1>4 DEF Max
<1> QED BY <1>5

\* Max of two numbers, as SQL's MAX(a, b) of begin_draining and of a lease extension.
LEMMA MaxOfPair ==
    ASSUME NEW a \in Int, NEW b \in Int
    PROVE  Max({a, b}) = IF a >= b THEN a ELSE b
<1>1. \E x \in {a, b} : \A y \in {a, b} : x >= y
  BY a >= b \/ b >= a
<1>2. Max({a, b}) \in {a, b} /\ \A y \in {a, b} : Max({a, b}) >= y
  BY <1>1 DEF Max
<1> QED BY <1>2

\* MAX(id) of the messages is an id given out, and none is above it.
LEMMA HighWaterBounds ==
    ASSUME TypeOK
    PROVE  /\ HighWater \in Nat /\ HighWater <= message_seq
           /\ \A m \in DOMAIN messages : m <= HighWater
<1>1. message_seq \in Nat /\ DOMAIN messages \union {0} \in SUBSET (0..message_seq)
  BY DEF TypeOK
<1>2. Max(DOMAIN messages \union {0}) \in DOMAIN messages \union {0}
      /\ \A x \in DOMAIN messages \union {0} : x <= Max(DOMAIN messages \union {0})
  BY <1>1, MaxOfIds
<1> QED BY <1>1, <1>2 DEF HighWater

\* The columns of a row of litefan_consumers, and where a claim of it stops scanning.
LEMMA ConsumerTypes ==
    ASSUME TypeOK, NEW c \in DOMAIN consumers
    PROVE  /\ c \in Nat
           /\ consumers[c].scan_cursor \in Nat
           /\ consumers[c].drain_cursor \in Nat \union {NULL}
           /\ consumers[c].drain_cursor # NULL =>
                consumers[c].scan_cursor <= consumers[c].drain_cursor
           /\ consumers[c].draining \in BOOLEAN
           /\ consumers[c].draining <=> consumers[c].drain_cursor # NULL
           /\ ScanLimit(c) \in Nat
<1>1. consumers[c] \in ConsumerRow /\ c \in Nat
  BY DEF TypeOK
<1>2. HighWater \in Nat
  BY HighWaterBounds
<1> QED BY <1>1, <1>2 DEF TypeOK, ConsumerRow, ScanLimit

\* litefan_messages is finite, so that every COUNT and every LIMIT over it is a number.
LEMMA MessagesFinite ==
    ASSUME TypeOK, NEW S \in SUBSET DOMAIN messages
    PROVE  S \subseteq 1..message_seq /\ IsFiniteSet(S) /\ Cardinality(S) \in Nat
<1>1. message_seq \in Int /\ S \subseteq 1..message_seq
  BY DEF TypeOK
<1>2. IsFiniteSet(1..message_seq)
  BY <1>1, FS_Interval
<1> QED BY <1>1, <1>2, FS_Subset, FS_CardinalityType

\* So are the deliveries and the archives of a consumer.
LEMMA DeliveriesFinite ==
    ASSUME TypeOK, ClaimedBehindCursor, NEW c \in DOMAIN consumers,
           NEW S \in SUBSET (DOMAIN deliveries[c] \union DOMAIN archives[c])
    PROVE  IsFiniteSet(S) /\ Cardinality(S) \in Nat
<1>1. S \in SUBSET Nat /\ \A m \in S : m <= consumers[c].scan_cursor
  BY DEF ClaimedBehindCursor
<1>2. IsFiniteSet(S)
  BY <1>1, ConsumerTypes, FS_BoundedSetOfNaturals
<1> QED BY <1>2, FS_CardinalityType

-----------------------------------------------------------------------------
(* The cursor.                                                             *)

\* claim leaves the cursor at or behind every entry it did not take, and at or
\* past every entry it took; it never moves back, nor past the drain cursor.
LEMMA CursorSplitsTheLog ==
    ASSUME TypeOK, CursorBounds, NEW c \in DOMAIN consumers, NEW remaining \in Nat,
           NEW fresh, FirstById(fresh, Unscanned(c), remaining)
    PROVE  LET k == NextCursor(c, fresh, remaining)
           IN  /\ k \in Nat /\ consumers[c].scan_cursor <= k /\ k <= message_seq
               /\ consumers[c].drain_cursor # NULL => k <= consumers[c].drain_cursor
               /\ \A m \in fresh : m <= k
               /\ \A m \in Unscanned(c) \ fresh : k < m
<1> DEFINE scan == consumers[c].scan_cursor
           drain == consumers[c].drain_cursor
           limit == ScanLimit(c)
           k == NextCursor(c, fresh, remaining)
<1>1. /\ scan \in Nat /\ limit \in Nat /\ message_seq \in Nat /\ scan <= message_seq
      /\ drain # NULL => drain \in Nat /\ scan <= drain
  BY ConsumerTypes DEF TypeOK, CursorBounds
<1>2. limit <= message_seq /\ (drain # NULL => limit = drain)
  BY HighWaterBounds DEF ScanLimit, CursorBounds
<1>3. /\ Unscanned(c) \subseteq 1..message_seq
      /\ \A m \in Unscanned(c) : scan < m /\ m <= limit
  BY DEF Unscanned, TypeOK
<1>4. fresh \subseteq Unscanned(c) /\ IsFiniteSet(fresh) /\ Cardinality(fresh) \in Nat
  <2>1. fresh \in SUBSET DOMAIN messages /\ fresh \subseteq Unscanned(c)
    BY DEF FirstById, Limited, Unscanned
  <2> QED BY <2>1, MessagesFinite
<1>5. Cardinality(fresh) <= remaining /\ (fresh # Unscanned(c) => Cardinality(fresh) = remaining)
  BY DEF FirstById, Limited
<1>6. \A m \in fresh, n \in Unscanned(c) \ fresh : m < n
  BY DEF FirstById
<1>7. CASE remaining = 0 \/ scan >= limit
  <2>1. k = scan
    BY <1>7 DEF NextCursor
  <2>2. fresh = {}
    <3>1. CASE remaining = 0
      BY <3>1, <1>4, <1>5, FS_EmptySet
    <3>2. CASE scan >= limit
      <4>1. \A m \in fresh : m \in Int /\ scan < m /\ m <= limit
        BY <1>3, <1>4
      <4> QED BY <4>1, <3>2, <1>1
    <3> QED BY <1>7, <3>1, <3>2
  <2> QED BY <1>1, <1>3, <2>1, <2>2
<1>8. CASE ~(remaining = 0 \/ scan >= limit) /\ Cardinality(fresh) < remaining
  <2>1. k = limit
    BY <1>8 DEF NextCursor
  <2>2. fresh = Unscanned(c)
    BY <1>4, <1>5, <1>8
  <2> QED BY <1>1, <1>2, <1>3, <1>8, <2>1, <2>2
<1>9. CASE ~(remaining = 0 \/ scan >= limit) /\ ~(Cardinality(fresh) < remaining)
  <2>1. k = Max(fresh)
    BY <1>9 DEF NextCursor
  <2>2. fresh # {}
    BY <1>4, <1>5, <1>9, FS_EmptySet
  <2>3. fresh \in SUBSET (0..message_seq)
    BY <1>3, <1>4, <1>1
  <2>4. k \in fresh /\ \A m \in fresh : m <= k
    BY <1>1, <2>1, <2>2, <2>3, MaxOfIds
  <2>5. k \in Nat /\ scan <= k /\ k <= limit
    BY <1>1, <1>3, <1>4, <2>4
  <2> QED BY <1>1, <1>2, <1>6, <2>4, <2>5
<1> QED BY <1>7, <1>8, <1>9

-----------------------------------------------------------------------------
(* The invariant is inductive: one lemma per operation.                    *)

\* The columns of the rows of litefan_deliveries and litefan_archived_deliveries.
LEMMA RowTypes ==
    ASSUME TypeOK, NEW c \in DOMAIN consumers
    PROVE  /\ \A m \in DOMAIN deliveries[c] :
                /\ deliveries[c][m] \in DeliveryRow
                /\ deliveries[c][m].visible_at \in Nat
                /\ deliveries[c][m].generation \in Nat
                /\ deliveries[c][m].delivery_count \in Nat
                /\ deliveries[c][m].lease \in Nat
           /\ \A m \in DOMAIN archives[c] :
                /\ archives[c][m] \in ArchiveRow
                /\ archives[c][m].lease \in Nat
BY DEF TypeOK, DeliveryRow, ArchiveRow

\* The fields of a receipt; every receipt is for a lease, the first of which is 1.
LEMMA ReceiptTypes ==
    ASSUME TypeOK, NEW r \in receipts
    PROVE  /\ r \in ReceiptRecord
           /\ r.consumer_id \in Nat /\ r.message_id \in Nat /\ r.generation \in Nat
           /\ r.lease \in Nat /\ r.lease # 0 /\ r.until \in Nat
BY DEF TypeOK, ReceiptRecord

\* The tables start empty.
LEMMA InitInv == Init => Inv
BY DEF Init, Nothing, Inv, TypeOK, CursorBounds, ClaimedBehindCursor, MessagesAreReferenced,
       ReceiptsBehindCursor, ReceiptsFollowRows, RunningLeaseIsTheRows

\* A step that changes nothing preserves the invariant.
LEMMA StutterInv == Inv /\ UNCHANGED vars => Inv'
BY DEF vars, Inv, TypeOK, CursorBounds, ClaimedBehindCursor, MessagesAreReferenced,
       ReceiptsBehindCursor, ReceiptsFollowRows, RunningLeaseIsTheRows, RowOf, Archived

\* Time only ends leases: no later state promises more than an earlier one.
LEMMA TickInv == Inv /\ Tick => Inv'
<1> SUFFICES ASSUME Inv, Tick PROVE Inv'
  OBVIOUS
<1> USE DEF Inv, Tick
<1>1. TypeOK'
  BY DEF TypeOK
<1>2. CursorBounds' /\ ClaimedBehindCursor' /\ MessagesAreReferenced'
  BY DEF CursorBounds, ClaimedBehindCursor, MessagesAreReferenced
<1>3. ReceiptsBehindCursor' /\ ReceiptsFollowRows'
  BY DEF ReceiptsBehindCursor, ReceiptsFollowRows, RowOf, Archived
<1>4. RunningLeaseIsTheRows'
  <2>1. \A r \in receipts : r.until \in Nat
    BY ReceiptTypes
  <2>2. clock \in Nat
    BY DEF TypeOK
  <2> QED BY <2>1, <2>2 DEF RunningLeaseIsTheRows, RowOf, Archived
<1> QED BY <1>1, <1>2, <1>3, <1>4

\* A new consumer starts at the end of the log with no delivery, under an id that no
\* receipt names.
LEMMA OpenInv ==
    ASSUME Inv, NEW name \in Names, NEW filter \in Filters, OpenConsumer(name, filter)
    PROVE  Inv'
<1> DEFINE c == consumer_seq + 1
<1> USE DEF Inv, OpenConsumer
<1>1. c \in Nat /\ c \notin DOMAIN consumers /\ DOMAIN consumers' = DOMAIN consumers \union {c}
  BY DEF TypeOK
<1>2. HighWater \in Nat /\ HighWater <= message_seq
  BY HighWaterBounds
<1>3. /\ consumers'[c] = [name |-> name, topic_filter |-> filter, draining |-> FALSE,
                          scan_cursor |-> HighWater, drain_cursor |-> NULL]
      /\ deliveries'[c] = Nothing /\ archives'[c] = Nothing
      /\ \A d \in DOMAIN consumers : /\ consumers'[d] = consumers[d]
                                      /\ deliveries'[d] = deliveries[d]
                                      /\ archives'[d] = archives[d]
  BY <1>1
<1>4. DOMAIN deliveries' = DOMAIN consumers' /\ DOMAIN archives' = DOMAIN consumers'
  BY <1>1
<1>5. TypeOK'
  <2>1. consumers'[c] \in ConsumerRow
    BY <1>2, <1>3 DEF ConsumerRow
  <2>2. consumers' \in [DOMAIN consumers' -> ConsumerRow]
    BY <1>1, <1>3, <2>1 DEF TypeOK
  <2>3. DOMAIN consumers' \subseteq 1..consumer_seq'
    BY <1>1 DEF TypeOK
  <2>4. \A d \in DOMAIN consumers' :
          /\ consumers'[d].drain_cursor # NULL =>
               consumers'[d].drain_cursor >= consumers'[d].scan_cursor
          /\ consumers'[d].draining <=> consumers'[d].drain_cursor # NULL
    BY <1>1, <1>3 DEF TypeOK
  <2>5. \A d \in DOMAIN consumers' :
          /\ deliveries'[d] \in [DOMAIN deliveries'[d] -> DeliveryRow]
          /\ archives'[d] \in [DOMAIN archives'[d] -> ArchiveRow]
    BY <1>1, <1>3 DEF TypeOK, Nothing
  <2> QED BY <1>1, <1>4, <2>2, <2>3, <2>4, <2>5 DEF TypeOK
<1>6. CursorBounds' /\ ClaimedBehindCursor' /\ MessagesAreReferenced'
  BY <1>1, <1>2, <1>3 DEF CursorBounds, ClaimedBehindCursor, MessagesAreReferenced, Nothing
<1>7. \A r \in receipts : r.consumer_id # c /\ r.consumer_id \in Nat
  BY ReceiptTypes DEF ReceiptsBehindCursor, TypeOK
<1>8. ReceiptsBehindCursor'
  BY <1>1, <1>3, <1>7 DEF ReceiptsBehindCursor, TypeOK
<1>9. ReceiptsFollowRows' /\ RunningLeaseIsTheRows'
  BY <1>1, <1>3, <1>7 DEF ReceiptsFollowRows, RunningLeaseIsTheRows, RowOf, Archived, Nothing
<1> QED BY <1>5, <1>6, <1>8, <1>9

\* A time that now_ms() returned is a time.
LEMMA NowTypes == TypeOK => \A now \in Now : now \in Nat /\ now <= clock
BY DEF TypeOK, Now

\* A batch has a length, and a topic or none for each of its messages.
LEMMA BatchTypes ==
    ASSUME NEW batch \in Batches
    PROVE  Len(batch) \in Nat /\ \A i \in 1..Len(batch) : batch[i] \in Filters
<1>1. PICK n \in 1..MaxBatch : batch \in [1..n -> Filters]
  BY DEF Batches
<1>2. n \in Nat
  BY <1>1, BoundsAssumption
<1>3. batch \in Seq(Filters) /\ Len(batch) = n
  BY <1>1, <1>2
<1> QED BY <1>1, <1>2, <1>3

\* Published messages get ids above every cursor and every message there is.
LEMMA PublishInv ==
    ASSUME Inv, NEW batch \in Batches, NEW now \in Now, Publish(batch, now)
    PROVE  Inv'
<1> DEFINE new == message_seq + 1 .. message_seq + Len(batch)
<1> USE DEF Inv, Publish
<1>1. /\ message_seq \in Nat /\ message_seq' \in Nat /\ message_seq <= message_seq'
      /\ message_seq' = message_seq + Len(batch)
  BY BatchTypes DEF TypeOK
<1>2. now \in Nat
  BY NowTypes
<1>3. DOMAIN messages' = DOMAIN messages \union new
  OBVIOUS
<1>4. TypeOK'
  <2>1. \A m \in new : messages'[m] \in Message
    <3> TAKE m \in new
    <3>1. m - message_seq \in 1..Len(batch)
      BY <1>1, BatchTypes
    <3>2. batch[m - message_seq] \in Filters
      BY <3>1, BatchTypes
    <3>3. messages'[m] = [topic |-> batch[m - message_seq], published_at |-> now]
      BY <1>3
    <3> QED BY <1>2, <3>2, <3>3 DEF Message
  <2>2. \A m \in DOMAIN messages \ new : messages'[m] \in Message
    BY <1>3 DEF TypeOK
  <2>3. messages' \in [DOMAIN messages' -> Message]
    BY <1>3, <2>1, <2>2
  <2>4. DOMAIN messages' \subseteq 1..message_seq'
    BY <1>1, <1>3, BatchTypes DEF TypeOK
  <2> QED BY <1>1, <2>3, <2>4 DEF TypeOK
<1>5. CursorBounds'
  <2>1. \A c \in DOMAIN consumers :
          consumers[c].scan_cursor \in Nat /\ consumers[c].drain_cursor \in Nat \union {NULL}
    BY ConsumerTypes
  <2> QED BY <1>1, <2>1 DEF CursorBounds
<1>6. ClaimedBehindCursor' /\ MessagesAreReferenced'
  BY <1>3 DEF ClaimedBehindCursor, MessagesAreReferenced
<1>7. ReceiptsBehindCursor' /\ ReceiptsFollowRows' /\ RunningLeaseIsTheRows'
  BY DEF ReceiptsBehindCursor, ReceiptsFollowRows, RunningLeaseIsTheRows, RowOf, Archived
<1> QED BY <1>4, <1>5, <1>6, <1>7

\* The end of a drain is at or after the cursor, and among the ids given out.
LEMMA BeginDrainingInv ==
    ASSUME Inv, NEW c \in DOMAIN consumers, BeginDraining(c)
    PROVE  Inv'
<1> DEFINE drain == Max({consumers[c].scan_cursor, HighWater})
<1> USE DEF Inv, BeginDraining
<1>1. consumers[c].scan_cursor \in Nat /\ HighWater \in Nat /\ HighWater <= message_seq
      /\ consumers[c].scan_cursor <= message_seq /\ message_seq \in Nat
  BY ConsumerTypes, HighWaterBounds DEF CursorBounds, TypeOK
<1>2. drain \in Nat /\ consumers[c].scan_cursor <= drain /\ drain <= message_seq
  BY <1>1, MaxOfPair
<1>3. consumers[c] \in ConsumerRow
  BY DEF TypeOK
<1>4. /\ consumers'[c] = [consumers[c] EXCEPT !.draining = TRUE, !.drain_cursor = drain]
      /\ DOMAIN consumers' = DOMAIN consumers
      /\ \A d \in DOMAIN consumers \ {c} : consumers'[d] = consumers[d]
  BY DEF TypeOK
<1>5. /\ consumers'[c] \in ConsumerRow
      /\ consumers'[c].draining /\ consumers'[c].drain_cursor = drain
      /\ consumers'[c].scan_cursor = consumers[c].scan_cursor
  BY <1>2, <1>3, <1>4 DEF ConsumerRow
<1> HIDE DEF drain
<1>6. drain # NULL
  BY <1>2, NullAssumption
<1>7. TypeOK'
  <2>1. consumers' \in [DOMAIN consumers' -> ConsumerRow]
    BY <1>4, <1>5 DEF TypeOK
  <2>2. \A d \in DOMAIN consumers' :
          /\ consumers'[d].drain_cursor # NULL =>
               consumers'[d].drain_cursor >= consumers'[d].scan_cursor
          /\ consumers'[d].draining <=> consumers'[d].drain_cursor # NULL
    BY <1>1, <1>2, <1>4, <1>5, <1>6 DEF TypeOK
  <2> QED BY <1>4, <2>1, <2>2 DEF TypeOK
<1>8. CursorBounds'
  BY <1>1, <1>2, <1>4, <1>5 DEF CursorBounds
<1>9. \A d \in DOMAIN consumers : consumers'[d].scan_cursor = consumers[d].scan_cursor
  BY <1>4, <1>5
<1>10. ClaimedBehindCursor' /\ MessagesAreReferenced' /\ ReceiptsBehindCursor'
  BY <1>4, <1>9 DEF ClaimedBehindCursor, MessagesAreReferenced, ReceiptsBehindCursor
<1>11. ReceiptsFollowRows' /\ RunningLeaseIsTheRows'
  BY <1>4 DEF ReceiptsFollowRows, RunningLeaseIsTheRows, RowOf, Archived
<1> QED BY <1>7, <1>8, <1>10, <1>11

\* A claim creates rows for entries between the old cursor and the new one only, starts
\* a new generation of each row it leases again, and hands a receipt for each.
LEMMA ClaimInv ==
    ASSUME Inv, NEW c \in DOMAIN consumers, NEW now \in Now, NEW max \in 1..MaxBatch,
           NEW lease \in Leases, Claim(c, now, max, lease)
    PROVE  Inv'
<1> USE DEF Inv
<1> DEFINE deadline == now + lease
<1>1. PICK retried \in SUBSET Visible(c, now), fresh \in SUBSET Unscanned(c) :
        LET remaining == max - Cardinality(retried)
            rows == Leased(c, retried, fresh, now + lease)
        IN  /\ FirstByDeadline(retried, Visible(c, now), max, deliveries[c])
            /\ FirstById(fresh, Unscanned(c), remaining)
            /\ \A m \in retried : deliveries[c][m].generation < MaxGeneration
            /\ deliveries' = [deliveries EXCEPT ![c] = rows]
            /\ consumers' = [consumers EXCEPT
                 ![c].scan_cursor = NextCursor(c, fresh, remaining)]
            /\ receipts' = receipts \union
                 Handed(c, rows, retried \union fresh, now + lease)
            /\ UNCHANGED <<clock, messages, message_seq, consumer_seq,
                           archives, archive_seq, outcomes>>
  BY DEF Claim
<1> DEFINE remaining == max - Cardinality(retried)
           rows == Leased(c, retried, fresh, deadline)
           k == NextCursor(c, fresh, remaining)
<1>2. now \in Nat /\ now <= clock /\ clock \in Nat /\ deadline \in Nat /\ deadline # 0
  BY NowTypes, DurationAssumption DEF TypeOK
<1>3. retried \subseteq DOMAIN deliveries[c] /\ (\A m \in retried : deliveries[c][m].visible_at <= now)
  BY DEF Visible
<1>4. remaining \in Nat
  <2>1. Cardinality(retried) \in Nat
    BY <1>3, DeliveriesFinite
  <2>2. Cardinality(retried) <= max /\ max \in Nat
    BY <1>1, BoundsAssumption DEF FirstByDeadline, Limited
  <2> QED BY <2>1, <2>2
<1>5. /\ k \in Nat /\ consumers[c].scan_cursor <= k /\ k <= message_seq
      /\ consumers[c].drain_cursor # NULL => k <= consumers[c].drain_cursor
      /\ \A m \in fresh : m <= k
  BY <1>1, <1>4, CursorSplitsTheLog
<1>6. consumers[c].scan_cursor \in Nat /\ consumers[c] \in ConsumerRow
      /\ consumers[c].drain_cursor \in Nat \union {NULL}
  BY ConsumerTypes DEF TypeOK
<1>7. \A m \in fresh : /\ m \in Nat /\ consumers[c].scan_cursor < m /\ m \in DOMAIN messages
                      /\ m \notin DOMAIN deliveries[c] /\ m \notin DOMAIN archives[c]
  <2>1. \A m \in fresh : m \in Nat /\ consumers[c].scan_cursor < m /\ m \in DOMAIN messages
    BY DEF Unscanned, TypeOK
  <2> QED BY <2>1, <1>6 DEF ClaimedBehindCursor
<1>8. /\ DOMAIN rows = DOMAIN deliveries[c] \union fresh
      /\ rows \in [DOMAIN rows -> DeliveryRow]
      /\ \A m \in fresh :
           /\ rows[m].visible_at = deadline /\ rows[m].generation = 1
           /\ rows[m].delivery_count = 1 /\ rows[m].lease = 1
      /\ \A m \in retried :
           /\ rows[m].visible_at = deadline
           /\ rows[m].generation = deliveries[c][m].generation + 1
           /\ rows[m].delivery_count = deliveries[c][m].delivery_count + 1
           /\ rows[m].lease = deliveries[c][m].lease + 1
      /\ \A m \in DOMAIN deliveries[c] \ retried : rows[m] = deliveries[c][m]
  <2>1. fresh \intersect DOMAIN deliveries[c] = {} /\ deadline \in Nat
    BY <1>2, <1>7
  <2> HIDE DEF deadline, remaining, k
  <2>2. DOMAIN rows = DOMAIN deliveries[c] \union fresh
    BY <1>3, <2>1 DEF Leased
  <2>3. \A m \in fresh : rows[m] = [visible_at |-> deadline, generation |-> 1,
                                    delivery_count |-> 1, lease |-> 1]
    BY <1>3, <2>1 DEF Leased
  <2>4. \A m \in retried : rows[m] = [visible_at |-> deadline,
                                      generation |-> deliveries[c][m].generation + 1,
                                      delivery_count |-> deliveries[c][m].delivery_count + 1,
                                      lease |-> deliveries[c][m].lease + 1]
    BY <1>3, <2>1 DEF Leased
  <2>5. \A m \in DOMAIN deliveries[c] \ retried : rows[m] = deliveries[c][m]
    BY <1>3, <2>1 DEF Leased
  <2>6. rows = [m \in DOMAIN rows |-> rows[m]]
    BY <1>3, <2>1 DEF Leased
  <2> HIDE DEF rows
  <2>7. \A m \in retried : /\ deliveries[c][m].generation \in Nat
                           /\ deliveries[c][m].delivery_count \in Nat
                           /\ deliveries[c][m].lease \in Nat
    BY <1>3, RowTypes
  <2>8. \A m \in DOMAIN rows : rows[m] \in DeliveryRow
    <3> TAKE m \in DOMAIN rows
    <3>1. CASE m \in fresh
      BY <3>1, <2>1, <2>3 DEF DeliveryRow
    <3>2. CASE m \in retried
      <4> DEFINE g == deliveries[c][m].generation + 1
                 n == deliveries[c][m].delivery_count + 1
                 l == deliveries[c][m].lease + 1
      <4>1. g \in Nat /\ n \in Nat /\ l \in Nat
        BY <3>2, <2>7
      <4>2. rows[m] = [visible_at |-> deadline, generation |-> g,
                       delivery_count |-> n, lease |-> l]
        BY <3>2, <2>4
      <4> HIDE DEF g, n, l
      <4> QED BY <4>1, <4>2, <2>1 DEF DeliveryRow
    <3>3. CASE m \in DOMAIN deliveries[c] \ retried
      BY <3>3, <2>5, RowTypes
    <3> QED BY <2>2, <3>1, <3>2, <3>3
  <2>9. rows \in [DOMAIN rows -> DeliveryRow]
    BY <2>6, <2>8
  <2>10. \A m \in fresh :
          /\ rows[m].visible_at = deadline /\ rows[m].generation = 1
          /\ rows[m].delivery_count = 1 /\ rows[m].lease = 1
    BY <2>3
  <2>11. \A m \in retried :
          /\ rows[m].visible_at = deadline
          /\ rows[m].generation = deliveries[c][m].generation + 1
          /\ rows[m].delivery_count = deliveries[c][m].delivery_count + 1
          /\ rows[m].lease = deliveries[c][m].lease + 1
    <3> TAKE m \in retried
    <3> DEFINE g == deliveries[c][m].generation + 1
               n == deliveries[c][m].delivery_count + 1
               l == deliveries[c][m].lease + 1
    <3>1. rows[m] = [visible_at |-> deadline, generation |-> g,
                     delivery_count |-> n, lease |-> l]
      BY <2>4
    <3>2. rows[m].visible_at = deadline /\ rows[m].generation = g
          /\ rows[m].delivery_count = n /\ rows[m].lease = l
      <4> HIDE DEF g, n, l
      <4> QED BY <3>1
    <3> QED BY <3>2
  <2> QED BY <2>2, <2>5, <2>9, <2>10, <2>11
<1>9. /\ DOMAIN consumers' = DOMAIN consumers
      /\ consumers' = [d \in DOMAIN consumers |-> consumers'[d]]
      /\ consumers'[c] = [consumers[c] EXCEPT !.scan_cursor = k]
      /\ \A d \in DOMAIN consumers \ {c} : consumers'[d] = consumers[d]
      /\ DOMAIN deliveries' = DOMAIN deliveries
      /\ deliveries'[c] = rows
      /\ \A d \in DOMAIN consumers \ {c} : deliveries'[d] = deliveries[d]
      /\ receipts' = receipts \union Handed(c, rows, retried \union fresh, deadline)
      /\ UNCHANGED <<clock, messages, message_seq, consumer_seq, archives, archive_seq, outcomes>>
  BY <1>1 DEF TypeOK
<1> HIDE DEF remaining, rows, k, deadline
<1>10. /\ consumers'[c] \in ConsumerRow
       /\ consumers'[c].scan_cursor = k
       /\ consumers'[c].drain_cursor = consumers[c].drain_cursor
       /\ consumers'[c].draining = consumers[c].draining
  BY <1>5, <1>6, <1>9 DEF ConsumerRow
<1>11. \A r \in receipts' \ receipts :
         /\ r.consumer_id = c
         /\ r.message_id \in retried \union fresh
         /\ r.generation = rows[r.message_id].generation
         /\ r.lease = rows[r.message_id].lease
         /\ r.until = deadline
         /\ r = [consumer_id |-> c, message_id |-> r.message_id,
                 generation |-> rows[r.message_id].generation,
                 lease |-> rows[r.message_id].lease, until |-> deadline]
  BY <1>9 DEF Handed
<1>12. TypeOK'
  <2>1. consumers' \in [DOMAIN consumers' -> ConsumerRow]
    BY <1>9, <1>10 DEF TypeOK
  <2>2. \A d \in DOMAIN consumers' :
          /\ consumers'[d].drain_cursor # NULL =>
               consumers'[d].drain_cursor >= consumers'[d].scan_cursor
          /\ consumers'[d].draining <=> consumers'[d].drain_cursor # NULL
    BY <1>5, <1>6, <1>9, <1>10 DEF TypeOK
  <2>3. \A d \in DOMAIN consumers' :
          /\ deliveries'[d] \in [DOMAIN deliveries'[d] -> DeliveryRow]
          /\ archives'[d] \in [DOMAIN archives'[d] -> ArchiveRow]
    BY <1>8, <1>9 DEF TypeOK
  <2>4. receipts' \subseteq ReceiptRecord
    <3> SUFFICES ASSUME NEW r \in receipts', r \notin receipts PROVE r \in ReceiptRecord
      BY DEF TypeOK
    <3>1. r.message_id \in Nat /\ c \in Nat
      BY <1>3, <1>7, <1>11, ConsumerTypes DEF ClaimedBehindCursor
    <3>2. rows[r.message_id].generation \in Nat /\ rows[r.message_id].lease \in Nat \ {0}
      BY <1>3, <1>8, <1>11, RowTypes
    <3> QED BY <1>2, <1>11, <3>1, <3>2 DEF ReceiptRecord
  <2> QED BY <1>9, <2>1, <2>2, <2>3, <2>4 DEF TypeOK
<1>13. CursorBounds'
  BY <1>5, <1>9, <1>10 DEF CursorBounds
<1>14. ClaimedBehindCursor'
  <2> SUFFICES ASSUME NEW d \in DOMAIN consumers
               PROVE  /\ \A m \in DOMAIN deliveries'[d] \union DOMAIN archives[d] :
                           m \in Nat /\ m <= consumers'[d].scan_cursor
                      /\ DOMAIN deliveries'[d] \intersect DOMAIN archives[d] = {}
    BY <1>9 DEF ClaimedBehindCursor
  <2>1. CASE d # c
    BY <2>1, <1>9 DEF ClaimedBehindCursor
  <2>2. \A m \in DOMAIN deliveries[c] \union DOMAIN archives[c] : m \in Nat /\ m <= k
    BY <1>5, <1>6 DEF ClaimedBehindCursor
  <2>3. CASE d = c
    BY <2>2, <2>3, <1>5, <1>7, <1>8, <1>9, <1>10 DEF ClaimedBehindCursor
  <2> QED BY <2>1, <2>3
<1>15. MessagesAreReferenced'
  BY <1>7, <1>8, <1>9 DEF MessagesAreReferenced
<1>16. ReceiptsBehindCursor'
  <2>1. \A r \in receipts' :
          /\ r.consumer_id <= consumer_seq'
          /\ r.consumer_id \in DOMAIN consumers' =>
               r.message_id <= consumers'[r.consumer_id].scan_cursor
    <3> SUFFICES ASSUME NEW r \in receipts'
                 PROVE  /\ r.consumer_id <= consumer_seq
                        /\ r.consumer_id \in DOMAIN consumers =>
                             r.message_id <= consumers'[r.consumer_id].scan_cursor
      BY <1>9
    <3>1. CASE r \in receipts
      <4>1. r.message_id \in Nat
        BY <3>1, ReceiptTypes
      <4>2. CASE r.consumer_id = c
        BY <3>1, <4>1, <4>2, <1>5, <1>6, <1>10 DEF ReceiptsBehindCursor
      <4>3. CASE r.consumer_id # c
        BY <3>1, <4>3, <1>9 DEF ReceiptsBehindCursor
      <4> QED BY <4>2, <4>3
    <3>2. CASE r \notin receipts
      <4>1. r.consumer_id = c /\ c <= consumer_seq
        BY <3>2, <1>11 DEF TypeOK
      <4>2. r.message_id <= k
        BY <3>2, <1>3, <1>5, <1>6, <1>11 DEF ClaimedBehindCursor
      <4> QED BY <4>1, <4>2, <1>10
    <3> QED BY <3>1, <3>2
  <2>2. ASSUME NEW r \in receipts' \ receipts, NEW s \in receipts,
               r.consumer_id = s.consumer_id, r.message_id = s.message_id
        PROVE  r.lease # s.lease
    <3> DEFINE m == r.message_id
    <3>1. s.consumer_id = c /\ s.message_id = m /\ m \in retried \union fresh
          /\ r.lease = rows[m].lease
      BY <2>2, <1>11
    <3>2. m <= consumers[c].scan_cursor /\ m \in Nat
      BY <3>1, ReceiptTypes DEF ReceiptsBehindCursor
    <3>3. m \in retried
      BY <3>1, <3>2, <1>6, <1>7
    <3>4. s.lease <= deliveries[c][m].lease /\ deliveries[c][m].lease \in Nat /\ s.lease \in Nat
      BY <3>1, <3>3, <1>3, RowTypes, ReceiptTypes DEF ReceiptsFollowRows, RowOf
    <3> QED BY <3>1, <3>3, <3>4, <1>8
  <2>3. ASSUME NEW r \in receipts', NEW s \in receipts',
               r.consumer_id = s.consumer_id, r.message_id = s.message_id, r.lease = s.lease
        PROVE  r = s
    <3>1. CASE r \in receipts /\ s \in receipts
      BY <3>1, <2>3 DEF ReceiptsBehindCursor
    <3>2. CASE r \notin receipts /\ s \notin receipts
      BY <3>2, <2>3, <1>11
    <3> QED BY <2>2, <2>3, <3>1, <3>2
  <2> QED BY <2>1, <2>3 DEF ReceiptsBehindCursor
<1>17. ReceiptsFollowRows'
  <2>1. ASSUME NEW d \in DOMAIN consumers, NEW m \in DOMAIN deliveries'[d]
        PROVE  deliveries'[d][m].delivery_count <= deliveries'[d][m].lease
    BY <1>3, <1>8, <1>9, RowTypes DEF ReceiptsFollowRows
  <2>2. ASSUME NEW r \in receipts', r.consumer_id \in DOMAIN consumers,
               r.message_id \in DOMAIN archives[r.consumer_id]
        PROVE  r.lease <= archives[r.consumer_id][r.message_id].lease
    <3>1. r \in receipts
      BY <2>2, <1>3, <1>7, <1>11 DEF ClaimedBehindCursor
    <3> QED BY <2>2, <3>1 DEF ReceiptsFollowRows
  <2>3. ASSUME NEW r \in receipts', r.consumer_id \in DOMAIN consumers,
               r.message_id \in DOMAIN deliveries'[r.consumer_id]
        PROVE  LET row == deliveries'[r.consumer_id][r.message_id]
               IN  /\ r.lease <= row.lease
                   /\ r.lease > Archived(row) =>
                        /\ r.generation <= row.generation
                        /\ r.generation = row.generation => r.lease = row.lease /\ r.until # 0
    <3> DEFINE m == r.message_id
               row == deliveries'[r.consumer_id][m]
    <3>1. CASE r \notin receipts
      <4>1. r.consumer_id = c /\ m \in DOMAIN rows /\ row = rows[m] /\ m \in retried \union fresh
        BY <3>1, <1>3, <1>8, <1>9, <1>11
      <4>2. row.generation \in Nat /\ row.lease \in Nat
        BY <4>1, <1>8 DEF DeliveryRow
      <4> QED BY <3>1, <4>1, <4>2, <1>2, <1>11
    <3>2. CASE r \in receipts /\ r.consumer_id # c
      BY <2>3, <3>2, <1>9 DEF ReceiptsFollowRows, RowOf
    <3>3. CASE r \in receipts /\ r.consumer_id = c
      <4>1. m \in Nat /\ m <= consumers[c].scan_cursor
        BY <3>3, ReceiptTypes DEF ReceiptsBehindCursor
      <4>2. m \in DOMAIN deliveries[c] /\ row = rows[m]
        BY <2>3, <3>3, <4>1, <1>6, <1>7, <1>8, <1>9
      <4>3. CASE m \in retried
        <5> DEFINE old == deliveries[c][m]
        <5>1. /\ row.generation = old.generation + 1 /\ row.lease = old.lease + 1
              /\ Archived(row) = Archived(old)
          BY <4>2, <4>3, <1>8, RowTypes DEF Archived
        <5>2. /\ r.lease <= old.lease
              /\ r.lease > Archived(old) => r.generation <= old.generation
          BY <3>3, <4>2 DEF ReceiptsFollowRows, RowOf
        <5>3. /\ old.generation \in Nat /\ old.lease \in Nat
              /\ r.lease \in Nat /\ r.generation \in Nat
          BY <3>3, <4>2, RowTypes, ReceiptTypes
        <5> HIDE DEF m, row, old
        <5>4. r.lease <= row.lease
          BY <5>1, <5>2, <5>3
        <5>5. r.lease > Archived(row) => r.generation < row.generation
          BY <5>1, <5>2, <5>3
        <5>6. r.lease > Archived(row) => r.generation <= row.generation /\ r.generation # row.generation
          BY <5>1, <5>3, <5>5
        <5> QED BY <5>4, <5>6 DEF row, m
      <4>4. CASE m \notin retried
        BY <3>3, <4>2, <4>4, <1>8 DEF ReceiptsFollowRows, RowOf
      <4> QED BY <4>3, <4>4
    <3> QED BY <3>1, <3>2, <3>3
  <2> QED BY <2>1, <2>2, <2>3, <1>9 DEF ReceiptsFollowRows, RowOf, Archived
<1>18. RunningLeaseIsTheRows'
  <2> SUFFICES ASSUME NEW r \in receipts', r.consumer_id \in DOMAIN consumers,
                      r.message_id \in DOMAIN deliveries'[r.consumer_id],
                      Archived(deliveries'[r.consumer_id][r.message_id]) = 0,
                      r.until > clock
               PROVE  LET row == deliveries'[r.consumer_id][r.message_id]
                      IN  r.generation = row.generation /\ r.until <= row.visible_at
    BY <1>9 DEF RunningLeaseIsTheRows, RowOf, Archived
  <2> DEFINE m == r.message_id
  <2>1. CASE r \notin receipts
    <3>1. /\ r.consumer_id = c /\ m \in retried \union fresh
          /\ r.generation = rows[m].generation /\ r.until = deadline
      BY <2>1, <1>11
    <3>2. rows[m].visible_at = deadline
      BY <3>1, <1>8
    <3> QED BY <3>1, <3>2, <1>2, <1>9
  <2>2. CASE r \in receipts /\ r.consumer_id # c
    BY <2>2, <1>9 DEF RunningLeaseIsTheRows, RowOf
  <2>3. CASE r \in receipts /\ r.consumer_id = c
    <3>1. m \in Nat /\ m <= consumers[c].scan_cursor /\ r.until \in Nat
      BY <2>3, ReceiptTypes DEF ReceiptsBehindCursor
    <3>2. m \in DOMAIN deliveries[c]
      BY <2>3, <3>1, <1>6, <1>7, <1>8, <1>9
    <3>3. m \notin retried
      <4> SUFFICES ASSUME m \in retried PROVE FALSE
        OBVIOUS
      <4>1. Archived(deliveries[c][m]) = 0
        BY <2>3, <1>8, <1>9, RowTypes, <3>2 DEF Archived
      <4>2. r.until <= deliveries[c][m].visible_at
        BY <2>3, <3>2, <4>1 DEF RunningLeaseIsTheRows, RowOf
      <4>3. deliveries[c][m].visible_at \in Nat /\ deliveries[c][m].visible_at <= now
        BY <3>2, <1>3, RowTypes
      <4> QED BY <4>2, <4>3, <3>1, <1>2
    <3> QED BY <2>3, <3>2, <3>3, <1>8, <1>9 DEF RunningLeaseIsTheRows, RowOf
  <2> QED BY <2>1, <2>2, <2>3
<1> QED BY <1>12, <1>13, <1>14, <1>15, <1>16, <1>17, <1>18

\* Giving receipts back only changes until when their holders count on them.
LEMMA GivenBackReceipts ==
    ASSUME TypeOK, NEW c, NEW R \in SUBSET receipts, NEW g \in GivenBack(c, R)
    PROVE  \E r \in receipts :
             /\ g.consumer_id = r.consumer_id /\ g.message_id = r.message_id
             /\ g.generation = r.generation /\ g.lease = r.lease
             /\ g \in ReceiptRecord
             /\ r \in Accepted(c, R) => g = [r EXCEPT !.until = 0] /\ g.until = 0
             /\ r \notin Accepted(c, R) => g = r
<1>1. Accepted(c, R) \subseteq receipts
  BY DEF Accepted
<1>2. CASE g \in receipts \ Accepted(c, R)
  BY <1>2, ReceiptTypes
<1>3. CASE g \notin receipts \ Accepted(c, R)
  <2>1. PICK r \in Accepted(c, R) : g = [r EXCEPT !.until = 0]
    BY <1>3 DEF GivenBack
  <2>2. r \in ReceiptRecord /\ r \in receipts
    BY <1>1, ReceiptTypes
  <2>3. /\ g.consumer_id = r.consumer_id /\ g.message_id = r.message_id
        /\ g.generation = r.generation /\ g.lease = r.lease
        /\ g \in ReceiptRecord /\ g.until = 0
    BY <2>1, <2>2 DEF ReceiptRecord
  <2> QED BY <2>1, <2>2, <2>3
<1> QED BY <1>2, <1>3

\* So receipts stay behind the cursors, and one for each lease.
LEMMA GivenBackBehindCursor ==
    ASSUME TypeOK, ReceiptsBehindCursor, NEW c, NEW R \in SUBSET receipts,
           receipts' = GivenBack(c, R), UNCHANGED <<consumers, consumer_seq>>
    PROVE  receipts' \subseteq ReceiptRecord /\ ReceiptsBehindCursor'
<1>1. \A g \in receipts' :
        \E r \in receipts :
             /\ g.consumer_id = r.consumer_id /\ g.message_id = r.message_id
             /\ g.generation = r.generation /\ g.lease = r.lease
             /\ g \in ReceiptRecord
             /\ r \in Accepted(c, R) => g = [r EXCEPT !.until = 0]
             /\ r \notin Accepted(c, R) => g = r
  BY GivenBackReceipts
<1>2. \A g, h \in receipts' :
         /\ g.consumer_id = h.consumer_id
         /\ g.message_id = h.message_id
         /\ g.lease = h.lease
         => g = h
  <2> SUFFICES ASSUME NEW g \in receipts', NEW h \in receipts',
                      g.consumer_id = h.consumer_id, g.message_id = h.message_id,
                      g.lease = h.lease
               PROVE  g = h
    OBVIOUS
  <2>1. PICK r \in receipts :
             /\ g.consumer_id = r.consumer_id /\ g.message_id = r.message_id
             /\ g.lease = r.lease
             /\ r \in Accepted(c, R) => g = [r EXCEPT !.until = 0]
             /\ r \notin Accepted(c, R) => g = r
    BY <1>1
  <2>2. PICK s \in receipts :
             /\ h.consumer_id = s.consumer_id /\ h.message_id = s.message_id
             /\ h.lease = s.lease
             /\ s \in Accepted(c, R) => h = [s EXCEPT !.until = 0]
             /\ s \notin Accepted(c, R) => h = s
    BY <1>1
  <2>3. r = s
    BY <2>1, <2>2 DEF ReceiptsBehindCursor
  <2> QED BY <2>1, <2>2, <2>3
<1>3. \A g \in receipts' :
         /\ g.consumer_id <= consumer_seq'
         /\ g.consumer_id \in DOMAIN consumers' =>
              g.message_id <= consumers'[g.consumer_id].scan_cursor
  BY <1>1 DEF ReceiptsBehindCursor
<1> QED BY <1>1, <1>2, <1>3 DEF ReceiptsBehindCursor

\* A receipt that was given back names a row of Current(c, R).
LEMMA AcceptedIsCurrent ==
    ASSUME NEW c, NEW R, NEW r \in Accepted(c, R)
    PROVE  r.consumer_id = c /\ r.message_id \in Current(c, R) /\ r \in R
BY DEF Accepted, Current

\* An acknowledged delivery is gone, and no other changes.
LEMMA AckInv ==
    ASSUME Inv, NEW c \in DOMAIN consumers, NEW R \in SUBSET receipts, AckBatch(c, R)
    PROVE  Inv'
<1> USE DEF Inv, AckBatch
<1>1. /\ DOMAIN deliveries' = DOMAIN deliveries
      /\ DOMAIN deliveries'[c] = DOMAIN deliveries[c] \ Current(c, R)
      /\ deliveries'[c] = [m \in DOMAIN deliveries'[c] |-> deliveries[c][m]]
      /\ \A m \in DOMAIN deliveries'[c] : deliveries'[c][m] = deliveries[c][m]
      /\ \A d \in DOMAIN consumers \ {c} : deliveries'[d] = deliveries[d]
  BY DEF TypeOK, Without
<1>2. receipts' \subseteq ReceiptRecord /\ ReceiptsBehindCursor'
  BY GivenBackBehindCursor
<1>3. TypeOK'
  <2>1. \A d \in DOMAIN consumers : deliveries'[d] \in [DOMAIN deliveries'[d] -> DeliveryRow]
    BY <1>1, RowTypes DEF TypeOK
  <2> QED BY <1>1, <1>2, <2>1 DEF TypeOK
<1>4. CursorBounds' /\ ClaimedBehindCursor' /\ MessagesAreReferenced'
  BY <1>1 DEF CursorBounds, ClaimedBehindCursor, MessagesAreReferenced
<1>5. ASSUME NEW g \in receipts', g.consumer_id \in DOMAIN consumers,
             g.message_id \in DOMAIN deliveries'[g.consumer_id]
      PROVE  /\ g \in receipts /\ g.message_id \in DOMAIN deliveries[g.consumer_id]
             /\ RowOf(g)' = RowOf(g)
  <2>1. PICK r \in receipts :
             /\ g.consumer_id = r.consumer_id /\ g.message_id = r.message_id
             /\ r \notin Accepted(c, R) => g = r
    BY GivenBackReceipts
  <2>2. r \notin Accepted(c, R)
    BY <1>1, <1>5, <2>1, AcceptedIsCurrent
  <2> QED BY <1>1, <1>5, <2>1, <2>2 DEF RowOf
<1>6. ReceiptsFollowRows'
  <2>1. \A d \in DOMAIN consumers : \A m \in DOMAIN deliveries'[d] :
          deliveries'[d][m].delivery_count <= deliveries'[d][m].lease
    BY <1>1 DEF ReceiptsFollowRows
  <2>2. \A g \in receipts' : \E r \in receipts :
          g.consumer_id = r.consumer_id /\ g.message_id = r.message_id /\ g.lease = r.lease
    BY GivenBackReceipts
  <2>3. \A g \in receipts' : g.consumer_id \in DOMAIN consumers =>
          (g.message_id \in DOMAIN archives[g.consumer_id] =>
             g.lease <= archives[g.consumer_id][g.message_id].lease)
    BY <2>2 DEF ReceiptsFollowRows
  <2> QED BY <1>5, <2>1, <2>3 DEF ReceiptsFollowRows, Archived
<1>7. RunningLeaseIsTheRows'
  BY <1>5 DEF RunningLeaseIsTheRows, Archived
<1> QED BY <1>2, <1>3, <1>4, <1>6, <1>7

\* A released delivery has a generation that no receipt of its present life has.
LEMMA NackInv ==
    ASSUME Inv, NEW c \in DOMAIN consumers, NEW R \in SUBSET receipts,
           NEW now \in Now, NEW delay \in Delays, NackBatch(c, R, now, delay)
    PROVE  Inv'
<1> USE DEF Inv
<1> DEFINE nacked == Current(c, R)
<1>1. /\ DOMAIN deliveries' = DOMAIN deliveries
      /\ DOMAIN deliveries'[c] = DOMAIN deliveries[c]
      /\ deliveries'[c] = [m \in DOMAIN deliveries[c] |-> deliveries'[c][m]]
      /\ \A m \in DOMAIN deliveries[c] :
           /\ m \in nacked => deliveries'[c][m] = [deliveries[c][m] EXCEPT
                                                   !.visible_at = now + delay,
                                                   !.generation = @ + 1]
           /\ m \notin nacked => deliveries'[c][m] = deliveries[c][m]
      /\ \A d \in DOMAIN consumers \ {c} : deliveries'[d] = deliveries[d]
      /\ receipts' = GivenBack(c, R)
      /\ UNCHANGED <<clock, messages, message_seq, consumers, consumer_seq,
                     archives, archive_seq, outcomes>>
  BY DEF TypeOK, NackBatch
<1>2. \A m \in nacked : /\ m \in DOMAIN deliveries[c]
                        /\ deliveries'[c][m] \in DeliveryRow
                        /\ deliveries'[c][m].generation = deliveries[c][m].generation + 1
                        /\ deliveries'[c][m].lease = deliveries[c][m].lease
                        /\ deliveries'[c][m].delivery_count = deliveries[c][m].delivery_count
  <2> TAKE m \in nacked
  <2> DEFINE old == deliveries[c][m]
             at == now + delay
             g == old.generation + 1
  <2>1. m \in DOMAIN deliveries[c]
    BY DEF Current
  <2>2. now \in Nat /\ delay \in Nat /\ at \in Nat
    BY NowTypes, DurationAssumption
  <2>3. old \in DeliveryRow /\ old.generation \in Nat /\ g \in Nat
    BY <2>1, RowTypes
  <2>4. deliveries'[c][m] = [old EXCEPT !.visible_at = at, !.generation = g]
    BY <1>1, <2>1, <2>3 DEF DeliveryRow
  <2>5. /\ deliveries'[c][m] \in DeliveryRow
        /\ deliveries'[c][m].generation = g
        /\ deliveries'[c][m].lease = old.lease
        /\ deliveries'[c][m].delivery_count = old.delivery_count
    <3> HIDE DEF g, at, old
    <3> QED BY <2>2, <2>3, <2>4 DEF DeliveryRow
  <2> QED BY <2>1, <2>5
<1> HIDE DEF nacked
<1>3. receipts' \subseteq ReceiptRecord /\ ReceiptsBehindCursor'
  BY <1>1, GivenBackBehindCursor
<1>4. TypeOK'
  <2>1. \A m \in DOMAIN deliveries[c] : deliveries'[c][m] \in DeliveryRow
    BY <1>1, <1>2, RowTypes
  <2>2. \A d \in DOMAIN consumers : deliveries'[d] \in [DOMAIN deliveries'[d] -> DeliveryRow]
    BY <1>1, <2>1 DEF TypeOK
  <2> QED BY <1>1, <1>3, <2>2 DEF TypeOK
<1>5. CursorBounds' /\ ClaimedBehindCursor' /\ MessagesAreReferenced'
  BY <1>1 DEF CursorBounds, ClaimedBehindCursor, MessagesAreReferenced
<1>6. ASSUME NEW g \in receipts', g.consumer_id \in DOMAIN consumers,
             g.message_id \in DOMAIN deliveries'[g.consumer_id],
             ~ (g.consumer_id = c /\ g.message_id \in nacked)
      PROVE  /\ g \in receipts /\ g.message_id \in DOMAIN deliveries[g.consumer_id]
             /\ RowOf(g)' = RowOf(g)
  <2>1. PICK r \in receipts :
             /\ g.consumer_id = r.consumer_id /\ g.message_id = r.message_id
             /\ r \notin Accepted(c, R) => g = r
    BY <1>1, GivenBackReceipts
  <2>2. r \notin Accepted(c, R)
    BY <1>6, <2>1, AcceptedIsCurrent DEF nacked
  <2>3. g \in receipts /\ g.message_id \in DOMAIN deliveries[g.consumer_id]
    BY <1>1, <1>6, <2>1, <2>2
  <2>4. deliveries'[g.consumer_id][g.message_id] = deliveries[g.consumer_id][g.message_id]
    <3>1. CASE g.consumer_id = c
      BY <1>1, <1>6, <2>3, <3>1
    <3>2. CASE g.consumer_id # c
      <4>1. deliveries'[g.consumer_id] = deliveries[g.consumer_id]
        BY <1>1, <1>6, <3>2
      <4> QED BY <4>1
    <3> QED BY <3>1, <3>2
  <2> QED BY <2>3, <2>4 DEF RowOf
<1>7. ASSUME NEW g \in receipts', g.consumer_id = c, g.message_id \in nacked
      PROVE  /\ g.lease <= RowOf(g)'.lease
             /\ g.lease > Archived(RowOf(g)') => g.generation < RowOf(g)'.generation
             /\ Archived(RowOf(g)') = 0 => ~ (g.until > clock)
  <2> DEFINE m == g.message_id
             old == deliveries[c][m]
             row == deliveries'[c][m]
  <2>1. PICK r \in receipts :
             /\ g.consumer_id = r.consumer_id /\ g.message_id = r.message_id
             /\ g.generation = r.generation /\ g.lease = r.lease
             /\ r \in Accepted(c, R) => g.until = 0
             /\ r \notin Accepted(c, R) => g = r
    BY <1>1, GivenBackReceipts
  <2>2. /\ m \in DOMAIN deliveries[c] /\ RowOf(g)' = row /\ RowOf(r) = old
        /\ row.generation = old.generation + 1
        /\ row.lease = old.lease /\ Archived(row) = Archived(old)
    BY <1>2, <1>7, <2>1 DEF RowOf, Archived
  <2>3. /\ old.generation \in Nat /\ old.lease \in Nat
        /\ r.generation \in Nat /\ r.lease \in Nat /\ r.lease # 0 /\ r.until \in Nat
        /\ clock \in Nat
    BY <2>2, RowTypes, ReceiptTypes DEF TypeOK
  <2>4. /\ r.lease <= old.lease
        /\ r.lease > Archived(old) => r.generation <= old.generation
    BY <1>7, <2>1, <2>2 DEF ReceiptsFollowRows
  <2>5. Archived(old) = 0 => ~ (g.until > clock)
    <3> SUFFICES ASSUME Archived(old) = 0, g.until > clock PROVE FALSE
      OBVIOUS
    <3>1. r \notin Accepted(c, R) /\ g = r
      BY <2>1, <2>3
    <3>2. r.generation = old.generation
      BY <1>7, <2>1, <2>2, <3>1 DEF RunningLeaseIsTheRows
    <3>3. r.lease = old.lease
      BY <1>7, <2>1, <2>2, <2>3, <3>2 DEF ReceiptsFollowRows
    <3>4. PICK s \in R : s.consumer_id = c /\ s.message_id = m /\ s.generation = old.generation
      BY <1>7 DEF nacked, Current
    <3>5. RowOf(s) = old /\ s.lease \in Nat /\ s.lease # 0
      BY <3>4, ReceiptTypes DEF RowOf
    <3>6. s.lease = old.lease
      BY <2>2, <3>4, <3>5 DEF ReceiptsFollowRows
    <3>7. r = s
      BY <1>7, <2>1, <3>3, <3>4, <3>6 DEF ReceiptsBehindCursor
    <3>8. s \in Accepted(c, R)
      BY <2>2, <3>4 DEF Accepted
    <3> QED BY <3>1, <3>7, <3>8
  <2> HIDE DEF m, old, row
  <2> QED BY <2>1, <2>2, <2>3, <2>4, <2>5
<1>8. ReceiptsFollowRows'
  <2>1. \A d \in DOMAIN consumers : \A m \in DOMAIN deliveries'[d] :
          deliveries'[d][m].delivery_count <= deliveries'[d][m].lease
    BY <1>1, <1>2 DEF ReceiptsFollowRows
  <2>2. \A g \in receipts' : \E r \in receipts :
          /\ g.consumer_id = r.consumer_id /\ g.message_id = r.message_id /\ g.lease = r.lease
          /\ g.generation = r.generation
    <3> TAKE g \in receipts'
    <3>1. g \in GivenBack(c, R)
      BY <1>1
    <3> QED BY <3>1, GivenBackReceipts
  <2>3. \A g \in receipts' : g.consumer_id \in DOMAIN consumers =>
          (g.message_id \in DOMAIN archives[g.consumer_id] =>
             g.lease <= archives[g.consumer_id][g.message_id].lease)
    BY <2>2 DEF ReceiptsFollowRows
  <2>4. ASSUME NEW g \in receipts', g.consumer_id = c, g.message_id \in nacked
        PROVE  /\ g.lease <= RowOf(g)'.lease
               /\ g.lease > Archived(RowOf(g)') =>
                    g.generation <= RowOf(g)'.generation /\ g.generation # RowOf(g)'.generation
    <3>1. g.generation \in Nat /\ RowOf(g)'.generation \in Nat
      BY <1>2, <2>2, <2>4, ReceiptTypes DEF RowOf, DeliveryRow
    <3> QED BY <1>7, <2>4, <3>1
  <2>5. ASSUME NEW g \in receipts', g.consumer_id \in DOMAIN consumers,
               g.message_id \in DOMAIN deliveries'[g.consumer_id]
        PROVE  /\ g.lease <= RowOf(g)'.lease
               /\ g.lease > Archived(RowOf(g)') =>
                    /\ g.generation <= RowOf(g)'.generation
                    /\ g.generation = RowOf(g)'.generation =>
                         g.lease = RowOf(g)'.lease /\ g.until # 0
    <3>1. CASE g.consumer_id = c /\ g.message_id \in nacked
      BY <2>4, <2>5, <3>1
    <3>2. CASE ~ (g.consumer_id = c /\ g.message_id \in nacked)
      BY <1>6, <2>5, <3>2 DEF ReceiptsFollowRows
    <3> QED BY <3>1, <3>2
  <2> QED BY <1>1, <2>1, <2>3, <2>5 DEF ReceiptsFollowRows, Archived
<1>9. RunningLeaseIsTheRows'
  <2>1. ASSUME NEW g \in receipts', g.consumer_id \in DOMAIN consumers,
               g.message_id \in DOMAIN deliveries'[g.consumer_id],
               Archived(RowOf(g)') = 0, g.until > clock
        PROVE  g.generation = RowOf(g)'.generation /\ g.until <= RowOf(g)'.visible_at
    BY <1>6, <1>7, <2>1 DEF RunningLeaseIsTheRows
  <2> QED BY <1>1, <2>1 DEF RunningLeaseIsTheRows, Archived
<1> QED BY <1>3, <1>4, <1>5, <1>8, <1>9

\* A receipt whose lease now ends no earlier than deadline.
Longer(r, deadline) == [r EXCEPT !.until = Max({@, deadline})]

\* g is what an extension makes of the receipt r.
IsAfterExtension(g, r, c, R, deadline) ==
    /\ g.consumer_id = r.consumer_id /\ g.message_id = r.message_id
    /\ g.generation = r.generation /\ g.lease = r.lease
    /\ g \in ReceiptRecord
    /\ r \in Accepted(c, R) =>
         /\ g = Longer(r, deadline)
         /\ g.until # 0
         /\ g.until = r.until \/ g.until = deadline
    /\ r \notin Accepted(c, R) => g = r

\* Every receipt after an extension is one from before, possibly with a later end.
LEMMA ProlongedReceipts ==
    ASSUME TypeOK, NEW c, NEW R \in SUBSET receipts, NEW deadline \in Nat, deadline # 0,
           NEW g \in Prolonged(c, R, deadline)
    PROVE  \E r \in receipts : IsAfterExtension(g, r, c, R, deadline)
<1>1. Accepted(c, R) \subseteq receipts
  BY DEF Accepted
<1>2. CASE g \in receipts \ Accepted(c, R)
  BY <1>2, ReceiptTypes DEF IsAfterExtension
<1>3. CASE g \notin receipts \ Accepted(c, R)
  <2>1. PICK r \in Accepted(c, R) : g = [r EXCEPT !.until = Max({@, deadline})]
    BY <1>3 DEF Prolonged
  <2>2. r \in ReceiptRecord /\ r \in receipts /\ r.until \in Nat
    BY <1>1, ReceiptTypes
  <2>3. /\ Max({r.until, deadline}) \in Nat /\ Max({r.until, deadline}) # 0
        /\ Max({r.until, deadline}) = r.until \/ Max({r.until, deadline}) = deadline
    BY <2>2, MaxOfPair
  <2>4. g = [r EXCEPT !.until = Max({r.until, deadline})]
    BY <2>1, <2>2 DEF ReceiptRecord
  <2>5. /\ g.consumer_id = r.consumer_id /\ g.message_id = r.message_id
        /\ g.generation = r.generation /\ g.lease = r.lease
        /\ g \in ReceiptRecord /\ g.until = Max({r.until, deadline})
    BY <2>2, <2>3, <2>4 DEF ReceiptRecord
  <2>6. g = Longer(r, deadline)
    BY <2>1 DEF Longer
  <2> QED BY <2>1, <2>2, <2>3, <2>5, <2>6 DEF IsAfterExtension
<1> QED BY <1>2, <1>3

\* An extension never makes a delivery visible earlier than it promised its holder.
LEMMA ExtendInv ==
    ASSUME Inv, NEW c \in DOMAIN consumers, NEW R \in SUBSET receipts, NEW now \in Now,
           NEW timeout \in Leases, ExtendVisibilityBatch(c, R, now, timeout)
    PROVE  Inv'
<1> USE DEF Inv
<1> DEFINE extended == Current(c, R)
           deadline == now + timeout
<1>1. /\ DOMAIN deliveries' = DOMAIN deliveries
      /\ DOMAIN deliveries'[c] = DOMAIN deliveries[c]
      /\ deliveries'[c] = [m \in DOMAIN deliveries[c] |-> deliveries'[c][m]]
      /\ \A m \in DOMAIN deliveries[c] :
           /\ m \in extended => deliveries'[c][m] = [deliveries[c][m] EXCEPT
                                                     !.visible_at = Max({@, deadline})]
           /\ m \notin extended => deliveries'[c][m] = deliveries[c][m]
      /\ \A d \in DOMAIN consumers \ {c} : deliveries'[d] = deliveries[d]
      /\ receipts' = Prolonged(c, R, deadline)
      /\ UNCHANGED <<clock, messages, message_seq, consumers, consumer_seq,
                     archives, archive_seq, outcomes>>
  BY DEF TypeOK, ExtendVisibilityBatch
<1>2. deadline \in Nat /\ deadline # 0
  BY NowTypes, DurationAssumption
<1> HIDE DEF extended, deadline
<1>3. \A m \in DOMAIN deliveries[c] :
        /\ deliveries'[c][m] \in DeliveryRow
        /\ deliveries'[c][m].generation = deliveries[c][m].generation
        /\ deliveries'[c][m].lease = deliveries[c][m].lease
        /\ deliveries'[c][m].delivery_count = deliveries[c][m].delivery_count
        /\ deliveries'[c][m].visible_at >= deliveries[c][m].visible_at
        /\ m \in extended => deliveries'[c][m].visible_at >= deadline
  <2> TAKE m \in DOMAIN deliveries[c]
  <2> DEFINE old == deliveries[c][m]
             at == Max({old.visible_at, deadline})
  <2>1. old \in DeliveryRow /\ old.visible_at \in Nat
    BY RowTypes
  <2>2. at \in Nat /\ at >= old.visible_at /\ at >= deadline
    BY <1>2, <2>1, MaxOfPair
  <2>3. CASE m \notin extended
    <3>1. deliveries'[c][m] = old
      BY <1>1, <2>3
    <3>2. old.visible_at >= old.visible_at
      BY <2>1
    <3> QED BY <2>1, <2>3, <3>1, <3>2
  <2>4. CASE m \in extended
    <3>1. deliveries'[c][m] = [old EXCEPT !.visible_at = at]
      BY <1>1, <2>1, <2>4 DEF DeliveryRow
    <3> HIDE DEF old, at
    <3>2. /\ deliveries'[c][m] \in DeliveryRow
          /\ deliveries'[c][m].generation = old.generation
          /\ deliveries'[c][m].lease = old.lease
          /\ deliveries'[c][m].delivery_count = old.delivery_count
          /\ deliveries'[c][m].visible_at = at
      BY <2>1, <2>2, <3>1 DEF DeliveryRow
    <3>3. /\ old.visible_at = deliveries[c][m].visible_at /\ old.generation = deliveries[c][m].generation
          /\ old.lease = deliveries[c][m].lease
          /\ old.delivery_count = deliveries[c][m].delivery_count
      BY DEF old
    <3> QED BY <2>2, <3>2, <3>3
  <2> QED BY <2>3, <2>4
<1>4. \A g \in receipts' : \E r \in receipts : IsAfterExtension(g, r, c, R, deadline)
  <2> TAKE g \in receipts'
  <2>1. g \in Prolonged(c, R, deadline)
    BY <1>1
  <2> QED BY <1>2, <2>1, ProlongedReceipts
<1>5. TypeOK'
  <2>1. \A d \in DOMAIN consumers : deliveries'[d] \in [DOMAIN deliveries'[d] -> DeliveryRow]
    BY <1>1, <1>3 DEF TypeOK
  <2>2. receipts' \subseteq ReceiptRecord
    BY <1>4 DEF IsAfterExtension
  <2> QED BY <1>1, <2>1, <2>2 DEF TypeOK
<1>6. CursorBounds' /\ ClaimedBehindCursor' /\ MessagesAreReferenced'
  BY <1>1 DEF CursorBounds, ClaimedBehindCursor, MessagesAreReferenced
<1>7. ReceiptsBehindCursor'
  <2>1. \A g \in receipts' :
          /\ g.consumer_id <= consumer_seq'
          /\ g.consumer_id \in DOMAIN consumers' =>
               g.message_id <= consumers'[g.consumer_id].scan_cursor
    BY <1>1, <1>4 DEF ReceiptsBehindCursor, IsAfterExtension
  <2>2. ASSUME NEW g \in receipts', NEW h \in receipts',
               g.consumer_id = h.consumer_id, g.message_id = h.message_id, g.lease = h.lease
        PROVE  g = h
    <3>1. PICK r \in receipts : IsAfterExtension(g, r, c, R, deadline)
      BY <1>4
    <3>2. PICK s \in receipts : IsAfterExtension(h, s, c, R, deadline)
      BY <1>4
    <3>3. r = s
      BY <2>2, <3>1, <3>2 DEF ReceiptsBehindCursor, IsAfterExtension
    <3> QED BY <3>1, <3>2, <3>3 DEF IsAfterExtension
  <2> QED BY <2>1, <2>2 DEF ReceiptsBehindCursor
<1>8. ASSUME NEW g \in receipts', g.consumer_id \in DOMAIN consumers,
             g.message_id \in DOMAIN deliveries'[g.consumer_id]
      PROVE  /\ g.lease <= RowOf(g)'.lease
             /\ g.lease > Archived(RowOf(g)') =>
                  /\ g.generation <= RowOf(g)'.generation
                  /\ g.generation = RowOf(g)'.generation =>
                       g.lease = RowOf(g)'.lease /\ g.until # 0
             /\ Archived(RowOf(g)') = 0 /\ g.until > clock =>
                  g.generation = RowOf(g)'.generation /\ g.until <= RowOf(g)'.visible_at
  <2> DEFINE m == g.message_id
             d == g.consumer_id
             old == deliveries[d][m]
             row == deliveries'[d][m]
  <2>0. PICK r \in receipts : IsAfterExtension(g, r, c, R, deadline)
    BY <1>4
  <2>1. /\ r \in receipts
        /\ d = r.consumer_id /\ m = r.message_id
        /\ g.generation = r.generation /\ g.lease = r.lease
        /\ r \in Accepted(c, R) => g.until # 0 /\ (g.until = r.until \/ g.until = deadline)
        /\ r \notin Accepted(c, R) => g = r
    BY <2>0 DEF IsAfterExtension
  <2>2. m \in DOMAIN deliveries[d] /\ RowOf(r) = old /\ RowOf(g)' = row
    BY <1>1, <1>8, <2>1 DEF RowOf
  <2>3. /\ row.generation = old.generation /\ row.lease = old.lease
        /\ row.delivery_count = old.delivery_count /\ row.visible_at >= old.visible_at
        /\ d = c /\ m \in extended => row.visible_at >= deadline
        /\ old.visible_at \in Nat /\ row.visible_at \in Nat
    <3>1. CASE d = c
      BY <1>3, <2>2, <3>1, RowTypes DEF DeliveryRow
    <3>2. CASE d # c
      <4>1. row = old /\ old.visible_at \in Nat
        BY <1>1, <1>8, <2>2, <3>2, RowTypes
      <4> QED BY <4>1, <3>2
    <3> QED BY <3>1, <3>2
  <2>4. Archived(row) = Archived(old)
    BY <2>3 DEF Archived
  <2>5. /\ r.lease <= old.lease
        /\ r.lease > Archived(old) =>
             /\ r.generation <= old.generation
             /\ r.generation = old.generation => r.lease = old.lease /\ r.until # 0
    BY <1>8, <2>1, <2>2 DEF ReceiptsFollowRows
  <2>6. Archived(old) = 0 /\ r.until > clock =>
          r.generation = old.generation /\ r.until <= old.visible_at
    BY <1>8, <2>1, <2>2 DEF RunningLeaseIsTheRows
  <2>7. r \in Accepted(c, R) =>
          r.generation = old.generation /\ row.visible_at >= deadline
    BY <2>1, <2>3, AcceptedIsCurrent DEF Accepted, extended
  <2>8. r.until \in Nat /\ clock \in Nat
    BY ReceiptTypes DEF TypeOK
  <2> HIDE DEF m, d, old, row
  <2>9. Archived(row) = 0 /\ g.until > clock =>
          g.generation = row.generation /\ g.until <= row.visible_at
    <3>1. CASE r \notin Accepted(c, R)
      BY <2>1, <2>3, <2>4, <2>6, <2>8, <3>1
    <3>2. CASE r \in Accepted(c, R) /\ g.until = deadline
      BY <1>2, <2>1, <2>3, <2>7, <3>2
    <3>3. CASE r \in Accepted(c, R) /\ g.until = r.until
      BY <2>1, <2>3, <2>4, <2>6, <2>8, <3>3
    <3> QED BY <2>1, <3>1, <3>2, <3>3
  <2> QED BY <2>1, <2>2, <2>3, <2>4, <2>5, <2>9
<1>9. ReceiptsFollowRows'
  <2>1. \A d \in DOMAIN consumers : \A m \in DOMAIN deliveries'[d] :
          deliveries'[d][m].delivery_count <= deliveries'[d][m].lease
    BY <1>1, <1>3 DEF ReceiptsFollowRows
  <2>2. \A g \in receipts' : g.consumer_id \in DOMAIN consumers =>
          (g.message_id \in DOMAIN archives[g.consumer_id] =>
             g.lease <= archives[g.consumer_id][g.message_id].lease)
    BY <1>4 DEF ReceiptsFollowRows, IsAfterExtension
  <2> QED BY <1>1, <1>8, <2>1, <2>2 DEF ReceiptsFollowRows, Archived
<1>10. RunningLeaseIsTheRows'
  BY <1>1, <1>8 DEF RunningLeaseIsTheRows, Archived
<1> QED BY <1>5, <1>6, <1>7, <1>9, <1>10

-----------------------------------------------------------------------------
(* Archives.                                                               *)

\* An archive row keeps the last lease of its delivery, so that receipts stay behind it.
LEMMA ArchiveInv ==
    ASSUME Inv, NEW c \in DOMAIN consumers, NEW R \in SUBSET receipts, NEW now \in Now,
           ArchiveBatch(c, R, now)
    PROVE  Inv'
<1> USE DEF Inv
<1> DEFINE moved == Current(c, R)
           id(m) == archive_seq + Cardinality({n \in moved : n <= m})
<1>1. /\ DOMAIN deliveries' = DOMAIN deliveries /\ DOMAIN archives' = DOMAIN archives
      /\ DOMAIN deliveries'[c] = DOMAIN deliveries[c] \ moved
      /\ deliveries'[c] = [m \in DOMAIN deliveries'[c] |-> deliveries[c][m]]
      /\ \A m \in DOMAIN deliveries'[c] : deliveries'[c][m] = deliveries[c][m]
      /\ \A d \in DOMAIN consumers \ {c} : deliveries'[d] = deliveries[d]
      /\ DOMAIN archives'[c] = DOMAIN archives[c] \union moved
      /\ archives'[c] = [m \in DOMAIN archives'[c] |-> archives'[c][m]]
      /\ \A m \in DOMAIN archives'[c] :
           /\ m \in moved => archives'[c][m] =
                [id |-> id(m), archived_at |-> now,
                 delivery_count |-> deliveries[c][m].delivery_count,
                 last_generation |-> deliveries[c][m].generation,
                 lease |-> deliveries[c][m].lease]
           /\ m \notin moved => archives'[c][m] = archives[c][m]
      /\ \A d \in DOMAIN consumers \ {c} : archives'[d] = archives[d]
      /\ archive_seq' = archive_seq + Cardinality(moved)
      /\ receipts' = GivenBack(c, R)
      /\ UNCHANGED <<clock, messages, message_seq, consumers, consumer_seq, outcomes>>
  BY DEF TypeOK, ArchiveBatch, Without
<1>2. moved \subseteq DOMAIN deliveries[c]
  BY DEF Current
<1>3. archive_seq' \in Nat
  <2>1. archive_seq \in Nat
    BY DEF TypeOK
  <2>2. Cardinality(moved) \in Nat
    BY <1>2, DeliveriesFinite
  <2> QED BY <1>1, <2>1, <2>2
<1>4. \A m \in moved : id(m) \in Nat \ {0}
  <2> TAKE m \in moved
  <2> DEFINE upto == {n \in moved : n <= m}
  <2>1. IsFiniteSet(upto) /\ Cardinality(upto) \in Nat
    BY <1>2, DeliveriesFinite
  <2>2. m \in upto
    BY <1>2 DEF ClaimedBehindCursor
  <2>3. Cardinality(upto) # 0
    BY <2>1, <2>2, FS_EmptySet
  <2>4. archive_seq \in Nat
    BY DEF TypeOK
  <2> HIDE DEF upto
  <2>5. archive_seq + Cardinality(upto) \in Nat \ {0}
    BY <2>1, <2>3, <2>4
  <2> QED BY <2>5 DEF upto
<1> HIDE DEF moved, id
<1>5. receipts' \subseteq ReceiptRecord /\ ReceiptsBehindCursor'
  BY <1>1, GivenBackBehindCursor
<1>6. \A m \in moved : /\ archives'[c][m] \in ArchiveRow
                       /\ archives'[c][m].lease = deliveries[c][m].lease
  <2> TAKE m \in moved
  <2>1. archives'[c][m] =
                [id |-> id(m), archived_at |-> now,
                 delivery_count |-> deliveries[c][m].delivery_count,
                 last_generation |-> deliveries[c][m].generation,
                 lease |-> deliveries[c][m].lease]
    BY <1>1
  <2>2. /\ deliveries[c][m].delivery_count \in Nat /\ deliveries[c][m].generation \in Nat
        /\ deliveries[c][m].lease \in Nat
    BY <1>2, RowTypes
  <2>3. now \in Nat /\ id(m) \in Nat \ {0}
    BY <1>4, NowTypes
  <2> QED BY <2>1, <2>2, <2>3 DEF ArchiveRow
<1>7. TypeOK'
  <2>1. \A d \in DOMAIN consumers : deliveries'[d] \in [DOMAIN deliveries'[d] -> DeliveryRow]
    BY <1>1, RowTypes DEF TypeOK
  <2>2. \A m \in DOMAIN archives'[c] : archives'[c][m] \in ArchiveRow
    BY <1>1, <1>6, RowTypes
  <2>3. \A d \in DOMAIN consumers : archives'[d] \in [DOMAIN archives'[d] -> ArchiveRow]
    BY <1>1, <2>2 DEF TypeOK
  <2> QED BY <1>1, <1>3, <1>5, <2>1, <2>3 DEF TypeOK
<1>8. CursorBounds' /\ ClaimedBehindCursor' /\ MessagesAreReferenced'
  BY <1>1, <1>2 DEF CursorBounds, ClaimedBehindCursor, MessagesAreReferenced
<1>9. ASSUME NEW g \in receipts', g.consumer_id \in DOMAIN consumers,
             g.message_id \in DOMAIN deliveries'[g.consumer_id]
      PROVE  /\ g \in receipts /\ g.message_id \in DOMAIN deliveries[g.consumer_id]
             /\ RowOf(g)' = RowOf(g)
  <2>1. PICK r \in receipts :
             /\ g.consumer_id = r.consumer_id /\ g.message_id = r.message_id
             /\ r \notin Accepted(c, R) => g = r
    BY <1>1, GivenBackReceipts
  <2>2. r \notin Accepted(c, R)
    BY <1>1, <1>9, <2>1, AcceptedIsCurrent DEF moved
  <2> QED BY <1>1, <1>9, <2>1, <2>2 DEF RowOf
<1>10. ReceiptsFollowRows'
  <2>1. \A d \in DOMAIN consumers : \A m \in DOMAIN deliveries'[d] :
          deliveries'[d][m].delivery_count <= deliveries'[d][m].lease
    BY <1>1 DEF ReceiptsFollowRows
  <2>2. ASSUME NEW g \in receipts', g.consumer_id \in DOMAIN consumers,
               g.message_id \in DOMAIN archives'[g.consumer_id]
        PROVE  g.lease <= archives'[g.consumer_id][g.message_id].lease
    <3>1. PICK r \in receipts :
            g.consumer_id = r.consumer_id /\ g.message_id = r.message_id /\ g.lease = r.lease
      BY <1>1, GivenBackReceipts
    <3>2. CASE g.consumer_id = c /\ g.message_id \in moved
      <4>1. r.lease <= deliveries[c][r.message_id].lease
        BY <1>2, <3>1, <3>2 DEF ReceiptsFollowRows, RowOf
      <4> QED BY <1>6, <3>1, <3>2, <4>1
    <3>3. CASE g.consumer_id = c /\ g.message_id \notin moved
      <4>1. /\ g.message_id \in DOMAIN archives[c]
            /\ archives'[c][g.message_id] = archives[c][g.message_id]
        BY <1>1, <2>2, <3>3
      <4> QED BY <3>1, <3>3, <4>1 DEF ReceiptsFollowRows
    <3>4. CASE g.consumer_id # c
      <4>1. archives'[g.consumer_id] = archives[g.consumer_id]
        BY <1>1, <2>2, <3>4
      <4> QED BY <2>2, <3>1, <4>1 DEF ReceiptsFollowRows
    <3> QED BY <3>2, <3>3, <3>4
  <2> QED BY <1>1, <1>9, <2>1, <2>2 DEF ReceiptsFollowRows, Archived
<1>11. RunningLeaseIsTheRows'
  BY <1>1, <1>9 DEF RunningLeaseIsTheRows, Archived
<1> QED BY <1>5, <1>7, <1>8, <1>10, <1>11

\* A restored delivery counts no delivery since its redrive, so that every receipt of
\* it is of an earlier life: no promise made about it is older than the redrive.
LEMMA RedriveInv ==
    ASSUME Inv, NEW c \in DOMAIN consumers, NEW ids, NEW now \in Now, NEW delay \in Delays,
           RedriveBatch(c, ids, now, delay)
    PROVE  Inv'
<1> USE DEF Inv
<1> DEFINE restored == {m \in DOMAIN archives[c] : archives[c][m].id \in ids}
           at == now + delay
<1>1. at \in Nat
  BY NowTypes, DurationAssumption
<1>2. /\ DOMAIN deliveries' = DOMAIN deliveries /\ DOMAIN archives' = DOMAIN archives
      /\ DOMAIN deliveries'[c] = DOMAIN deliveries[c] \union restored
      /\ deliveries'[c] = [m \in DOMAIN deliveries'[c] |-> deliveries'[c][m]]
      /\ \A m \in DOMAIN deliveries'[c] :
           /\ m \in restored => deliveries'[c][m] =
                [visible_at |-> at, generation |-> 0, delivery_count |-> 0,
                 lease |-> archives[c][m].lease]
           /\ m \notin restored => deliveries'[c][m] = deliveries[c][m]
      /\ \A d \in DOMAIN consumers \ {c} : deliveries'[d] = deliveries[d]
      /\ DOMAIN archives'[c] = DOMAIN archives[c] \ restored
      /\ archives'[c] = [m \in DOMAIN archives'[c] |-> archives[c][m]]
      /\ \A d \in DOMAIN consumers \ {c} : archives'[d] = archives[d]
      /\ restored \subseteq DOMAIN archives[c]
      /\ UNCHANGED <<clock, messages, message_seq, consumers, consumer_seq,
                     archive_seq, receipts, outcomes>>
  BY DEF TypeOK, RedriveBatch, Without
<1> HIDE DEF restored, at
<1>3. \A m \in restored :
        /\ m \in DOMAIN deliveries'[c]
        /\ deliveries'[c][m] \in DeliveryRow
        /\ deliveries'[c][m].generation = 0 /\ deliveries'[c][m].delivery_count = 0
        /\ deliveries'[c][m].lease = archives[c][m].lease
        /\ archives[c][m].lease \in Nat
        /\ Archived(deliveries'[c][m]) = archives[c][m].lease
  <2> TAKE m \in restored
  <2>1. archives[c][m] \in ArchiveRow /\ archives[c][m].lease \in Nat
    BY <1>2 DEF TypeOK, ArchiveRow
  <2>2. m \in DOMAIN deliveries'[c] /\ deliveries'[c][m] =
                [visible_at |-> at, generation |-> 0, delivery_count |-> 0,
                 lease |-> archives[c][m].lease]
    BY <1>2
  <2> QED BY <1>1, <2>1, <2>2 DEF DeliveryRow, Archived
<1>4. TypeOK'
  <2>1. \A m \in DOMAIN deliveries'[c] : deliveries'[c][m] \in DeliveryRow
    BY <1>2, <1>3, RowTypes
  <2>2. \A d \in DOMAIN consumers : deliveries'[d] \in [DOMAIN deliveries'[d] -> DeliveryRow]
    BY <1>2, <2>1 DEF TypeOK
  <2>3. \A d \in DOMAIN consumers : archives'[d] \in [DOMAIN archives'[d] -> ArchiveRow]
    BY <1>2 DEF TypeOK
  <2> QED BY <1>2, <2>2, <2>3 DEF TypeOK
<1>5. CursorBounds' /\ ReceiptsBehindCursor'
  BY <1>2 DEF CursorBounds, ReceiptsBehindCursor
<1>6. ClaimedBehindCursor' /\ MessagesAreReferenced'
  BY <1>2 DEF ClaimedBehindCursor, MessagesAreReferenced
<1>7. ASSUME NEW r \in receipts, r.consumer_id \in DOMAIN consumers,
             r.message_id \in DOMAIN deliveries'[r.consumer_id]
      PROVE  \/ /\ r.message_id \in DOMAIN deliveries[r.consumer_id]
                /\ RowOf(r)' = RowOf(r)
             \/ /\ r.lease <= RowOf(r)'.lease /\ Archived(RowOf(r)') = RowOf(r)'.lease
                /\ RowOf(r)'.lease \in Nat /\ r.lease \in Nat \ {0}
  <2>1. CASE r.consumer_id = c /\ r.message_id \in restored
    <3>1. r.lease <= archives[c][r.message_id].lease
      BY <1>2, <2>1 DEF ReceiptsFollowRows
    <3>2. r.lease \in Nat \ {0}
      BY DEF TypeOK, ReceiptRecord
    <3> QED BY <1>2, <1>3, <2>1, <3>1, <3>2 DEF RowOf
  <2>2. CASE ~ (r.consumer_id = c /\ r.message_id \in restored)
    <3>1. CASE r.consumer_id = c
      BY <1>2, <1>7, <2>2, <3>1 DEF RowOf
    <3>2. CASE r.consumer_id # c
      <4>1. deliveries'[r.consumer_id] = deliveries[r.consumer_id]
        BY <1>2, <1>7, <3>2
      <4> QED BY <1>7, <4>1 DEF RowOf
    <3> QED BY <3>1, <3>2
  <2> QED BY <2>1, <2>2
<1>8. ReceiptsFollowRows'
  <2>1. \A d \in DOMAIN consumers : \A m \in DOMAIN deliveries'[d] :
          deliveries'[d][m].delivery_count <= deliveries'[d][m].lease
    <3>1. \A m \in restored : deliveries'[c][m].delivery_count <= deliveries'[c][m].lease
      BY <1>3
    <3>2. \A m \in DOMAIN deliveries'[c] : m \notin restored =>
             m \in DOMAIN deliveries[c] /\ deliveries'[c][m] = deliveries[c][m]
      BY <1>2
    <3>3. \A d \in DOMAIN consumers \ {c} : deliveries'[d] = deliveries[d]
      BY <1>2
    <3> QED BY <1>2, <3>1, <3>2, <3>3 DEF ReceiptsFollowRows
  <2>2. \A r \in receipts : r.consumer_id \in DOMAIN consumers =>
          (r.message_id \in DOMAIN archives'[r.consumer_id] =>
             r.lease <= archives'[r.consumer_id][r.message_id].lease)
    BY <1>2 DEF ReceiptsFollowRows
  <2> QED BY <1>2, <1>7, <2>1, <2>2 DEF ReceiptsFollowRows, Archived
<1>9. RunningLeaseIsTheRows'
  BY <1>2, <1>7 DEF RunningLeaseIsTheRows, Archived
<1> QED BY <1>4, <1>5, <1>6, <1>8, <1>9

\* Deleting archive rows changes no delivery and no receipt.
LEMMA PurgeInv ==
    ASSUME Inv, NEW c \in DOMAIN consumers, NEW before, NEW max,
           PurgeArchives(c, before, max)
    PROVE  Inv'
<1> USE DEF Inv
<1>1. /\ DOMAIN archives' = DOMAIN archives
      /\ DOMAIN archives'[c] \subseteq DOMAIN archives[c]
      /\ archives'[c] = [m \in DOMAIN archives'[c] |-> archives[c][m]]
      /\ \A d \in DOMAIN consumers \ {c} : archives'[d] = archives[d]
      /\ UNCHANGED <<clock, messages, message_seq, consumers, consumer_seq,
                     deliveries, archive_seq, receipts, outcomes>>
  BY DEF TypeOK, PurgeArchives, Without
<1>2. TypeOK'
  <2>1. \A d \in DOMAIN consumers : archives'[d] \in [DOMAIN archives'[d] -> ArchiveRow]
    BY <1>1 DEF TypeOK
  <2> QED BY <1>1, <2>1 DEF TypeOK
<1>3. /\ CursorBounds' /\ ReceiptsBehindCursor' /\ ClaimedBehindCursor'
      /\ MessagesAreReferenced'
  BY <1>1 DEF CursorBounds, ReceiptsBehindCursor, ClaimedBehindCursor, MessagesAreReferenced
<1>4. ReceiptsFollowRows'
  BY <1>1 DEF ReceiptsFollowRows, RowOf, Archived
<1>5. RunningLeaseIsTheRows'
  BY <1>1 DEF RunningLeaseIsTheRows, RowOf, Archived
<1> QED BY <1>2, <1>3, <1>4, <1>5

\* A deletion takes the consumer's rows and leaves every other consumer alone.
LEMMA DeleteInv ==
    ASSUME Inv, NEW c \in DOMAIN consumers, NEW mode, DeleteConsumer(c, mode)
    PROVE  Inv'
<1> USE DEF Inv
<1> DEFINE outstanding == Cardinality(DOMAIN deliveries[c]) + Cardinality(Pending(c))
           archived == Cardinality(DOMAIN archives[c])
<1>1. outstanding \in Nat /\ archived \in Nat
  <2>1. IsFiniteSet(DOMAIN deliveries[c]) /\ IsFiniteSet(DOMAIN archives[c])
    BY DeliveriesFinite
  <2>2. IsFiniteSet(Pending(c))
    BY MessagesFinite, FS_Subset DEF Pending
  <2> QED BY <2>1, <2>2, FS_CardinalityType
<1>2. /\ DOMAIN consumers' = DOMAIN consumers \ {c}
      /\ DOMAIN deliveries' = DOMAIN deliveries \ {c}
      /\ DOMAIN archives' = DOMAIN archives \ {c}
      /\ consumers' = [d \in DOMAIN consumers' |-> consumers[d]]
      /\ \A d \in DOMAIN consumers' :
           /\ consumers'[d] = consumers[d]
           /\ deliveries'[d] = deliveries[d]
           /\ archives'[d] = archives[d]
      /\ outcomes' = [d \in DOMAIN outcomes \union {c} |->
                        IF d = c
                        THEN [discarded_deliveries |-> outstanding,
                              discarded_archives |-> archived]
                        ELSE outcomes[d]]
      /\ UNCHANGED <<clock, messages, message_seq, consumer_seq, archive_seq, receipts>>
  BY DEF TypeOK, DeleteConsumer, Without
<1> HIDE DEF outstanding, archived
<1>3. TypeOK'
  <2>1. outcomes' \in [DOMAIN outcomes' -> [discarded_deliveries : Nat, discarded_archives : Nat]]
    BY <1>1, <1>2 DEF TypeOK
  <2>2. consumers' \in [DOMAIN consumers' -> ConsumerRow]
    BY <1>2 DEF TypeOK
  <2> QED BY <1>2, <2>1, <2>2 DEF TypeOK
<1>4. /\ CursorBounds' /\ ReceiptsBehindCursor' /\ ClaimedBehindCursor'
      /\ MessagesAreReferenced'
  BY <1>2 DEF CursorBounds, ReceiptsBehindCursor, ClaimedBehindCursor, MessagesAreReferenced
<1>5. ReceiptsFollowRows'
  BY <1>2 DEF ReceiptsFollowRows, RowOf, Archived
<1>6. RunningLeaseIsTheRows'
  BY <1>2 DEF RunningLeaseIsTheRows, RowOf, Archived
<1> QED BY <1>3, <1>4, <1>5, <1>6

\* Pruning takes no message that a delivery or an archive refers to.
LEMMA PruneInv ==
    ASSUME Inv, NEW before, NEW max, Prune(before, max)
    PROVE  Inv'
<1> USE DEF Inv
<1>1. PICK pruned \in SUBSET Prunable(before) : messages' = Without(messages, pruned)
  BY DEF Prune
<1>2. UNCHANGED <<clock, message_seq, consumers, consumer_seq,
                  deliveries, archives, archive_seq, receipts, outcomes>>
  BY DEF Prune
<1>3. /\ DOMAIN messages' = DOMAIN messages \ pruned
      /\ messages' = [m \in DOMAIN messages' |-> messages[m]]
  BY <1>1 DEF Without
<1>4. \A d \in DOMAIN consumers :
        (DOMAIN deliveries[d] \union DOMAIN archives[d]) \intersect pruned = {}
  BY <1>1 DEF Prunable
<1>5. TypeOK'
  <2>1. messages' \in [DOMAIN messages' -> Message]
    BY <1>3 DEF TypeOK
  <2> QED BY <1>2, <1>3, <2>1 DEF TypeOK
<1>6. MessagesAreReferenced'
  BY <1>2, <1>3, <1>4 DEF MessagesAreReferenced
<1>7. CursorBounds' /\ ReceiptsBehindCursor' /\ ClaimedBehindCursor'
  BY <1>2 DEF CursorBounds, ReceiptsBehindCursor, ClaimedBehindCursor
<1>8. ReceiptsFollowRows' /\ RunningLeaseIsTheRows'
  BY <1>2 DEF ReceiptsFollowRows, RunningLeaseIsTheRows, RowOf, Archived
<1> QED BY <1>5, <1>6, <1>7, <1>8

-----------------------------------------------------------------------------
(* Theorems about the specification.                                       *)

\* Every step of the store preserves the invariant.
LEMMA NextInv == Inv /\ [Next]_vars => Inv'
<1> SUFFICES ASSUME Inv, [Next]_vars PROVE Inv'
  OBVIOUS
<1>1. CASE UNCHANGED vars
  BY <1>1, StutterInv
<1>2. CASE Tick
  BY <1>2, TickInv
<1>3. CASE Open
  BY <1>3, OpenInv DEF Open
<1>4. CASE PublishBatch
  BY <1>4, PublishInv DEF PublishBatch
<1>5. CASE PruneMessages
  BY <1>5, PruneInv DEF PruneMessages
<1>6. ASSUME NEW c \in DOMAIN consumers, ConsumerStep(c) PROVE Inv'
  <2>1. Presented \subseteq SUBSET receipts
    BY DEF Presented
  <2>2. CASE BeginDraining(c)
    BY <2>2, BeginDrainingInv
  <2>3. CASE Poll(c)
    BY <2>3, ClaimInv DEF Poll
  <2>4. CASE Acknowledge(c)
    BY <2>1, <2>4, AckInv DEF Acknowledge
  <2>5. CASE Release(c)
    BY <2>1, <2>5, NackInv DEF Release
  <2>6. CASE Extend(c)
    BY <2>1, <2>6, ExtendInv DEF Extend
  <2>7. CASE Archive(c)
    BY <2>1, <2>7, ArchiveInv DEF Archive
  <2>8. CASE Redrive(c)
    BY <2>8, RedriveInv DEF Redrive
  <2>9. CASE Purge(c)
    BY <2>9, PurgeInv DEF Purge
  <2>10. CASE Delete(c)
    BY <2>10, DeleteInv DEF Delete
  <2> QED BY <1>6, <2>2, <2>3, <2>4, <2>5, <2>6, <2>7, <2>8, <2>9, <2>10 DEF ConsumerStep
<1> QED BY <1>1, <1>2, <1>3, <1>4, <1>5, <1>6 DEF Next

\* The inductive invariant: what the tables, the cursors and the receipts in the hands
\* of workers have to do with one another, in every reachable state.
THEOREM Invariance == Spec => []Inv
<1>1. Init => Inv
  BY InitInv
<1>2. Inv /\ [Next]_vars => Inv'
  BY NextInv
<1> QED BY <1>1, <1>2, PTL DEF Spec

\* Every column holds what the schema's types and CHECKs allow: no statement of any
\* transaction violates a constraint of litefan_consumers.
THEOREM TypeCorrect == Spec => []TypeOK
<1>1. Inv => TypeOK
  BY DEF Inv
<1> QED BY <1>1, Invariance, PTL

\* No INSERT of claim, archive_batch or redrive_batch meets its own key.
THEOREM OnePlace == Spec => []OnePlacePerMessage
<1>1. Inv => OnePlacePerMessage
  <2> SUFFICES ASSUME Inv, NEW c \in DOMAIN consumers
               PROVE  /\ DOMAIN deliveries[c] \intersect Unscanned(c) = {}
                      /\ DOMAIN archives[c] \intersect Unscanned(c) = {}
                      /\ DOMAIN deliveries[c] \intersect DOMAIN archives[c] = {}
    BY DEF OnePlacePerMessage
  <2>1. consumers[c].scan_cursor \in Nat
    BY ConsumerTypes DEF Inv
  <2>2. /\ \A m \in DOMAIN deliveries[c] \union DOMAIN archives[c] :
             m \in Nat /\ m <= consumers[c].scan_cursor
        /\ DOMAIN deliveries[c] \intersect DOMAIN archives[c] = {}
    BY DEF Inv, ClaimedBehindCursor
  <2>3. \A m \in Unscanned(c) : m > consumers[c].scan_cursor
    BY DEF Unscanned
  <2> QED BY <2>1, <2>2, <2>3
<1> QED BY <1>1, Invariance, PTL

\* prune_messages never takes a message that a delivery or an archive refers to.
THEOREM NothingDangles == Spec => []MessagesAreReferenced
<1>1. Inv => MessagesAreReferenced
  BY DEF Inv
<1> QED BY <1>1, Invariance, PTL

\* A receipt of an earlier lease is never accepted, until a redrive starts the
\* delivery's generations again.
THEOREM StaleReceipts == Spec => []StaleReceiptIsRejected
<1>1. Inv => StaleReceiptIsRejected
  BY DEF Inv, StaleReceiptIsRejected, IsCurrent, ReceiptsFollowRows, RowOf
<1> QED BY <1>1, Invariance, PTL

\* Two workers never both hold a running lease of a delivery that was never redriven.
THEOREM Exclusion == Spec => []LeaseIsExclusive
<1>1. Inv => LeaseIsExclusive
  <2> SUFFICES ASSUME Inv, NEW r \in receipts, NEW s \in receipts,
                      r.consumer_id = s.consumer_id, r.message_id = s.message_id,
                      r.until > clock, s.until > clock,
                      IsCurrent(r), Archived(RowOf(r)) = 0
               PROVE  r = s
    BY DEF LeaseIsExclusive
  <2>1. /\ r.consumer_id \in DOMAIN consumers
        /\ r.message_id \in DOMAIN deliveries[r.consumer_id]
        /\ RowOf(s) = RowOf(r)
    BY DEF IsCurrent, RowOf
  <2>2. r.generation = RowOf(r).generation /\ s.generation = RowOf(r).generation
    BY <2>1 DEF Inv, RunningLeaseIsTheRows
  <2>3. r.lease \in Nat /\ r.lease # 0 /\ s.lease \in Nat /\ s.lease # 0
    BY ReceiptTypes DEF Inv
  <2>4. r.lease > Archived(RowOf(r)) /\ s.lease > Archived(RowOf(s))
    BY <2>1, <2>3
  <2>5. r.lease = RowOf(r).lease /\ s.lease = RowOf(r).lease
    BY <2>1, <2>2, <2>4 DEF Inv, ReceiptsFollowRows
  <2> QED BY <2>5 DEF Inv, ReceiptsBehindCursor
<1> QED BY <1>1, Invariance, PTL

-----------------------------------------------------------------------------
(* What a step may not do.                                                 *)

\* The steps that write a row of litefan_consumers without creating or deleting it are
\* begin_draining and claim.
LEMMA CursorSteps ==
    ASSUME Inv, Next, NEW c \in DOMAIN consumers \intersect DOMAIN consumers'
    PROVE  \/ consumers'[c] = consumers[c]
           \/ /\ ~consumers[c].draining
              /\ consumers'[c].scan_cursor = consumers[c].scan_cursor
              /\ deliveries' = deliveries /\ archives' = archives
              /\ BeginDraining(c)
           \/ /\ consumers'[c] = [consumers[c] EXCEPT !.scan_cursor = consumers'[c].scan_cursor]
              /\ consumers'[c].scan_cursor >= consumers[c].scan_cursor
              /\ Poll(c)
<1> USE DEF Inv
<1>0. consumers[c] \in ConsumerRow /\ c \in Nat /\ c # consumer_seq + 1
  BY DEF TypeOK
<1>1. CASE Tick \/ PublishBatch \/ PruneMessages
  BY <1>1 DEF Tick, PublishBatch, Publish, PruneMessages, Prune
<1>2. CASE Open
  BY <1>0, <1>2 DEF Open, OpenConsumer
<1>3. ASSUME NEW d \in DOMAIN consumers, ConsumerStep(d)
      PROVE  \/ consumers'[c] = consumers[c]
             \/ /\ ~consumers[c].draining
                /\ consumers'[c].scan_cursor = consumers[c].scan_cursor
                /\ deliveries' = deliveries /\ archives' = archives
                /\ BeginDraining(c)
             \/ /\ consumers'[c] = [consumers[c] EXCEPT
                                      !.scan_cursor = consumers'[c].scan_cursor]
                /\ consumers'[c].scan_cursor >= consumers[c].scan_cursor
                /\ Poll(c)
  <2>1. CASE BeginDraining(d)
    <3>1. DOMAIN consumers' = DOMAIN consumers /\ UNCHANGED <<deliveries, archives>>
      BY <2>1 DEF BeginDraining, TypeOK
    <3>2. CASE c = d
      <4>1. consumers'[c] = [consumers[c] EXCEPT !.draining = TRUE,
                               !.drain_cursor = Max({consumers[c].scan_cursor, HighWater})]
        BY <2>1, <3>2 DEF BeginDraining, TypeOK
      <4>2. consumers'[c].scan_cursor = consumers[c].scan_cursor
        BY <1>0, <4>1 DEF ConsumerRow
      <4> QED BY <2>1, <3>1, <3>2, <4>2 DEF BeginDraining
    <3>3. CASE c # d
      BY <2>1, <3>3 DEF BeginDraining, TypeOK
    <3> QED BY <3>2, <3>3
  <2>2. CASE Poll(d)
    <3>1. CASE c = d
      <4>1. PICK now \in Now, max \in 1..MaxBatch, lease \in Leases : Claim(d, now, max, lease)
        BY <2>2 DEF Poll
      <4>2. PICK retried \in SUBSET Visible(c, now), fresh \in SUBSET Unscanned(c) :
              /\ FirstByDeadline(retried, Visible(c, now), max, deliveries[c])
              /\ FirstById(fresh, Unscanned(c), max - Cardinality(retried))
              /\ consumers' = [consumers EXCEPT
                   ![c].scan_cursor = NextCursor(c, fresh, max - Cardinality(retried))]
        BY <3>1, <4>1 DEF Claim
      <4> DEFINE k == NextCursor(c, fresh, max - Cardinality(retried))
      <4>3. max - Cardinality(retried) \in Nat
        <5>1. Cardinality(retried) \in Nat
          BY DeliveriesFinite DEF Visible
        <5>2. Cardinality(retried) <= max /\ max \in Nat
          BY <4>2, BoundsAssumption DEF FirstByDeadline, Limited
        <5> QED BY <5>1, <5>2
      <4>4. k \in Nat /\ consumers[c].scan_cursor <= k
        BY <4>2, <4>3, CursorSplitsTheLog
      <4>5. consumers[c].scan_cursor \in Nat
        BY ConsumerTypes
      <4> HIDE DEF k
      <4>6. consumers'[c] = [consumers[c] EXCEPT !.scan_cursor = k]
        BY <4>2 DEF TypeOK, k
      <4>7. consumers'[c].scan_cursor = k
        BY <1>0, <4>6 DEF ConsumerRow
      <4> QED BY <2>2, <3>1, <4>4, <4>5, <4>6, <4>7
    <3>2. CASE c # d
      BY <2>2, <3>2 DEF Poll, Claim, TypeOK
    <3> QED BY <3>1, <3>2
  <2>3. CASE Acknowledge(d) \/ Release(d) \/ Extend(d)
    BY <2>3 DEF Acknowledge, Release, Extend, AckBatch, NackBatch, ExtendVisibilityBatch
  <2>4. CASE Archive(d) \/ Redrive(d) \/ Purge(d)
    BY <2>4 DEF Archive, Redrive, Purge, ArchiveBatch, RedriveBatch, PurgeArchives
  <2>5. CASE Delete(d)
    BY <2>5 DEF Delete, DeleteConsumer, Without
  <2> QED BY <1>3, <2>1, <2>2, <2>3, <2>4, <2>5 DEF ConsumerStep
<1> QED BY <1>1, <1>2, <1>3 DEF Next

\* claim moves the cursor only forward, and nothing moves the end of a drain.
THEOREM Cursors == Spec => CursorsNeverRetreat
<1>1. Inv /\ [Next]_vars =>
        [\A c \in DOMAIN consumers \intersect DOMAIN consumers' :
           /\ consumers'[c].scan_cursor >= consumers[c].scan_cursor
           /\ consumers[c].draining =>
                /\ consumers'[c].draining
                /\ consumers'[c].drain_cursor = consumers[c].drain_cursor]_vars
  <2> SUFFICES ASSUME Inv, Next, NEW c \in DOMAIN consumers \intersect DOMAIN consumers'
               PROVE  /\ consumers'[c].scan_cursor >= consumers[c].scan_cursor
                      /\ consumers[c].draining =>
                           /\ consumers'[c].draining
                           /\ consumers'[c].drain_cursor = consumers[c].drain_cursor
    OBVIOUS
  <2>1. consumers[c] \in ConsumerRow /\ consumers[c].scan_cursor \in Nat
    BY ConsumerTypes DEF Inv, TypeOK
  <2>2. CASE consumers'[c] = consumers[c]
    BY <2>1, <2>2
  <2>3. CASE /\ ~consumers[c].draining
             /\ consumers'[c].scan_cursor = consumers[c].scan_cursor
    BY <2>1, <2>3
  <2>4. CASE /\ consumers'[c] = [consumers[c] EXCEPT !.scan_cursor = consumers'[c].scan_cursor]
             /\ consumers'[c].scan_cursor >= consumers[c].scan_cursor
    <3> DEFINE k == consumers'[c].scan_cursor
    <3>1. consumers'[c] = [consumers[c] EXCEPT !.scan_cursor = k]
      BY <2>4
    <3> HIDE DEF k
    <3>2. /\ consumers'[c].draining = consumers[c].draining
          /\ consumers'[c].drain_cursor = consumers[c].drain_cursor
      BY <2>1, <3>1 DEF ConsumerRow
    <3> QED BY <2>4, <3>2
  <2> QED BY <2>2, <2>3, <2>4, CursorSteps
<1> QED BY <1>1, Invariance, PTL DEF Spec, CursorsNeverRetreat

\* The set that claim and the snapshots count is the one that delete_consumer and
\* prune_messages count: COALESCE(drain_cursor, MAX(id)) or no bound at all.
LEMMA UnscannedIsPending ==
    ASSUME TypeOK, NEW c \in DOMAIN consumers
    PROVE  Unscanned(c) = Pending(c)
<1>1. \A m \in DOMAIN messages : m <= HighWater
  BY HighWaterBounds
<1> QED BY <1>1 DEF Unscanned, Pending, ScanLimit

\* A message that appears has an id above all that were given out before.
LEMMA MessageSteps ==
    ASSUME Inv, Next, NEW m \in DOMAIN messages'
    PROVE  \/ m \in DOMAIN messages /\ messages'[m] = messages[m]
           \/ m \in Nat /\ m > message_seq
<1> USE DEF Inv
<1>1. CASE messages' = messages
  BY <1>1
<1>2. CASE PublishBatch
  <2>1. PICK batch \in Batches, now \in Now : Publish(batch, now)
    BY <1>2 DEF PublishBatch
  <2>2. Len(batch) \in Nat /\ message_seq \in Nat
    BY BatchTypes DEF TypeOK
  <2> QED BY <2>1, <2>2 DEF Publish
<1>3. CASE PruneMessages
  BY <1>3 DEF PruneMessages, Prune, Without
<1>4. CASE Tick \/ Open
  BY <1>1, <1>4 DEF Tick, Open, OpenConsumer
<1>5. ASSUME NEW d \in DOMAIN consumers, ConsumerStep(d) PROVE messages' = messages
  BY <1>5 DEF ConsumerStep, BeginDraining, Poll, Claim, Acknowledge, AckBatch, Release,
     NackBatch, Extend, ExtendVisibilityBatch, Archive, ArchiveBatch, Redrive, RedriveBatch,
     Purge, PurgeArchives, Delete, DeleteConsumer
<1> QED BY <1>1, <1>2, <1>3, <1>4, <1>5 DEF Next

\* From an empty consumer with nothing to scan no operation makes a delivery or an archive.
LEMMA EmptySteps ==
    ASSUME Inv, Next, NEW c \in DOMAIN consumers \intersect DOMAIN consumers',
           DOMAIN deliveries[c] = {}, DOMAIN archives[c] = {}, Unscanned(c) = {}
    PROVE  DOMAIN deliveries'[c] = {} /\ DOMAIN archives'[c] = {}
<1> USE DEF Inv
<1>1. c # consumer_seq + 1 /\ DOMAIN deliveries = DOMAIN consumers
      /\ DOMAIN archives = DOMAIN consumers
  BY DEF TypeOK
<1>2. CASE Tick \/ PublishBatch \/ PruneMessages
  BY <1>2 DEF Tick, PublishBatch, Publish, PruneMessages, Prune
<1>3. CASE Open
  BY <1>1, <1>3 DEF Open, OpenConsumer
<1>4. \A R : Current(c, R) = {}
  BY DEF Current
<1>5. ASSUME NEW d \in DOMAIN consumers, ConsumerStep(d)
      PROVE  DOMAIN deliveries'[c] = {} /\ DOMAIN archives'[c] = {}
  <2>1. CASE BeginDraining(d)
    BY <2>1 DEF BeginDraining
  <2>2. CASE Poll(d)
    <3>1. PICK now \in Now, max \in 1..MaxBatch, lease \in Leases : Claim(d, now, max, lease)
      BY <2>2 DEF Poll
    <3> DEFINE deadline == now + lease
    <3>4. PICK retried \in SUBSET Visible(d, now), fresh \in SUBSET Unscanned(d) :
            /\ deliveries' = [deliveries EXCEPT ![d] = Leased(d, retried, fresh, deadline)]
            /\ archives' = archives
      BY <3>1 DEF Claim
    <3>5. retried \subseteq DOMAIN deliveries[d]
      BY DEF Visible
    <3> HIDE DEF deadline
    <3>2. CASE c = d
      <4>1. deliveries'[c] = Leased(c, {}, {}, deadline)
        BY <1>1, <3>2, <3>4, <3>5
      <4> QED BY <3>4, <4>1 DEF Leased
    <3>3. CASE c # d
      BY <1>1, <3>3, <3>4
    <3> QED BY <3>2, <3>3
  <2>3. CASE Acknowledge(d)
    <3>1. PICK R : AckBatch(d, R)
      BY <2>3 DEF Acknowledge
    <3> QED BY <1>1, <1>4, <3>1 DEF AckBatch, Without
  <2>4. CASE Release(d)
    <3>1. PICK R, now, delay : NackBatch(d, R, now, delay)
      BY <2>4 DEF Release
    <3> QED BY <1>1, <3>1 DEF NackBatch
  <2>5. CASE Extend(d)
    <3>1. PICK R, now, timeout : ExtendVisibilityBatch(d, R, now, timeout)
      BY <2>5 DEF Extend
    <3> QED BY <1>1, <3>1 DEF ExtendVisibilityBatch
  <2>6. CASE Archive(d)
    <3>1. PICK R, now : ArchiveBatch(d, R, now)
      BY <2>6 DEF Archive
    <3>2. CASE c = d
      <4>1. /\ DOMAIN deliveries'[c] = DOMAIN deliveries[c] \ Current(c, R)
            /\ DOMAIN archives'[c] = DOMAIN archives[c] \union Current(c, R)
        BY <1>1, <3>1, <3>2 DEF ArchiveBatch, Without
      <4> QED BY <1>4, <4>1
    <3>3. CASE c # d
      BY <1>1, <3>1, <3>3 DEF ArchiveBatch
    <3> QED BY <3>2, <3>3
  <2>7. CASE Redrive(d)
    <3>1. PICK ids, now, delay : RedriveBatch(d, ids, now, delay)
      BY <2>7 DEF Redrive
    <3>2. CASE c = d
      BY <1>1, <3>1, <3>2 DEF RedriveBatch, Without
    <3>3. CASE c # d
      BY <1>1, <3>1, <3>3 DEF RedriveBatch
    <3> QED BY <3>2, <3>3
  <2>8. CASE Purge(d)
    BY <1>1, <2>8 DEF Purge, PurgeArchives, Without
  <2>9. CASE Delete(d)
    BY <1>1, <2>9 DEF Delete, DeleteConsumer, Without
  <2> QED BY <1>5, <2>1, <2>2, <2>3, <2>4, <2>5, <2>6, <2>7, <2>8, <2>9 DEF ConsumerStep
<1> QED BY <1>2, <1>3, <1>5 DEF Next

\* A consumer that has drained stays drained: publishing puts every new message behind
\* the end that begin_draining set, and there is no delivery or archive to come back.
THEOREM DrainIsFinal == Spec => DrainedIsFinal
<1>1. Inv /\ [Next]_vars =>
        [\A c \in DOMAIN consumers \intersect DOMAIN consumers' :
           Drained(c) => Drained(c)']_vars
  <2> SUFFICES ASSUME Inv, Next, NEW c \in DOMAIN consumers \intersect DOMAIN consumers',
                      Drained(c)
               PROVE  Drained(c)'
    OBVIOUS
  <2>1. /\ consumers[c].draining /\ DOMAIN deliveries[c] = {} /\ DOMAIN archives[c] = {}
        /\ Pending(c) = {} /\ Unscanned(c) = {}
    BY UnscannedIsPending DEF Inv, Drained, Outstanding
  <2>2. consumers[c] \in ConsumerRow /\ message_seq \in Nat
    BY DEF Inv, TypeOK
  <2>3. /\ consumers[c].scan_cursor \in Nat /\ consumers[c].drain_cursor \in Nat
        /\ consumers[c].drain_cursor <= message_seq /\ consumers[c].drain_cursor # NULL
    BY <2>1, ConsumerTypes DEF Inv, CursorBounds
  <2> DEFINE k == consumers'[c].scan_cursor
  <2>4. /\ consumers'[c] = consumers[c] \/ consumers'[c] = [consumers[c] EXCEPT !.scan_cursor = k]
        /\ k >= consumers[c].scan_cursor
    BY <2>1, <2>3, CursorSteps
  <2> HIDE DEF k
  <2>5. /\ consumers'[c].draining
        /\ consumers'[c].drain_cursor = consumers[c].drain_cursor
        /\ consumers'[c].topic_filter = consumers[c].topic_filter
        /\ consumers'[c].scan_cursor = k /\ k \in Int
    <3>1. /\ consumers'[c].draining
          /\ consumers'[c].drain_cursor = consumers[c].drain_cursor
          /\ consumers'[c].topic_filter = consumers[c].topic_filter
      BY <2>1, <2>2, <2>4 DEF ConsumerRow
    <3>2. consumers'[c].scan_cursor \in Nat
      <4>1. TypeOK'
        BY NextInv DEF Inv
      <4> QED BY <4>1 DEF TypeOK, ConsumerRow
    <3> QED BY <3>1, <3>2 DEF k
  <2>6. Pending(c)' = {}
    <3> SUFFICES ASSUME NEW m \in Pending(c)' PROVE FALSE
      OBVIOUS
    <3>1. /\ m \in DOMAIN messages' /\ m > k /\ m <= consumers[c].drain_cursor
          /\ Matches(consumers[c].topic_filter, messages'[m].topic)
      BY <2>3, <2>5 DEF Pending, Matches
    <3>2. CASE m \in DOMAIN messages /\ messages'[m] = messages[m]
      <4>1. m \in Nat
        BY <3>2 DEF Inv, TypeOK
      <4>2. m > consumers[c].scan_cursor
        BY <2>3, <2>4, <2>5, <3>1, <4>1
      <4> QED BY <2>1, <3>1, <3>2, <4>2 DEF Pending
    <3>3. CASE m \in Nat /\ m > message_seq
      BY <2>2, <2>3, <3>1, <3>3
    <3> QED BY <3>2, <3>3, <3>1, MessageSteps
  <2>7. DOMAIN deliveries'[c] = {} /\ DOMAIN archives'[c] = {}
    BY <2>1, EmptySteps
  <2> QED BY <2>5, <2>6, <2>7 DEF Drained, Outstanding
<1> QED BY <1>1, Invariance, PTL DEF Spec, DrainedIsFinal

-----------------------------------------------------------------------------
(* What the queries say.                                                   *)

\* A snapshot counts every message a consumer still has to settle once.
THEOREM ExactSnapshots == Spec => []SnapshotsAreExact
<1>1. Inv /\ OnePlacePerMessage => SnapshotsAreExact
  <2> SUFFICES ASSUME Inv, OnePlacePerMessage, NEW c \in DOMAIN consumers
               PROVE  SnapshotOutstanding(c) = Cardinality(Outstanding(c))
    BY DEF SnapshotsAreExact
  <2>1. Unscanned(c) = Pending(c) /\ Unscanned(c) \subseteq DOMAIN messages
    BY UnscannedIsPending DEF Inv, Unscanned
  <2>2. IsFiniteSet(DOMAIN deliveries[c]) /\ IsFiniteSet(Unscanned(c))
    BY <2>1, DeliveriesFinite, MessagesFinite DEF Inv
  <2>3. DOMAIN deliveries[c] \intersect Unscanned(c) = {}
    BY DEF OnePlacePerMessage
  <2>4. /\ Cardinality(DOMAIN deliveries[c] \union Unscanned(c)) =
             Cardinality(DOMAIN deliveries[c]) + Cardinality(Unscanned(c))
               - Cardinality(DOMAIN deliveries[c] \intersect Unscanned(c))
    BY <2>2, FS_Union
  <2>5. /\ Cardinality(DOMAIN deliveries[c]) \in Nat /\ Cardinality(Unscanned(c)) \in Nat
        /\ Cardinality(DOMAIN deliveries[c] \intersect Unscanned(c)) = 0
    BY <2>2, <2>3, FS_CardinalityType, FS_EmptySet
  <2> QED BY <2>1, <2>4, <2>5 DEF SnapshotOutstanding, Outstanding
<1> QED BY <1>1, Invariance, OnePlace, PTL

\* A poll that goes to sleep without the writer lock had nothing to claim.
THEOREM ShortcutIsSafe == Spec => []ShortcutMissesNothing
<1>1. Inv => ShortcutMissesNothing
  <2> SUFFICES ASSUME Inv, NEW c \in DOMAIN consumers, NEW now \in Now, ~ReadOnlyCheck(c, now)
               PROVE  /\ SnapshotReady(c, now) = 0
                      /\ EarliestVisibleAt(c) = {} => Outstanding(c) = {}
    BY DEF ShortcutMissesNothing
  <2>1. /\ consumers[c].scan_cursor \in Nat /\ ScanLimit(c) \in Nat
        /\ DOMAIN messages \subseteq Nat
    BY ConsumerTypes DEF Inv, TypeOK
  <2>2. Unscanned(c) = {}
    BY <2>1 DEF Unscanned, ReadOnlyCheck
  <2>3. Visible(c, now) = {}
    BY DEF Visible, ReadOnlyCheck, EarliestVisibleAt
  <2>4. SnapshotReady(c, now) = 0
    BY <2>2, <2>3, FS_EmptySet DEF SnapshotReady
  <2>5. Pending(c) = {}
    BY <2>2, UnscannedIsPending DEF Inv
  <2>6. EarliestVisibleAt(c) = {} => DOMAIN deliveries[c] = {}
    BY DEF EarliestVisibleAt
  <2> QED BY <2>4, <2>5, <2>6 DEF Outstanding
<1> QED BY <1>1, Invariance, PTL

=============================================================================
