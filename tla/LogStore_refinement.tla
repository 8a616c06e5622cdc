------------------------- MODULE LogStore_refinement -------------------------
(* LogStore implements FanOut, for every value of its constants.           *)
EXTENDS LogStore_proofs

\* The store starts as a store with no message and no subscriber.
LEMMA InitRefines == Init => Abs!Init
BY DEF Init, Abs!Init, Retained, Subscribers, Inbox, Delivered, Dead, Nothing, Abs!Nothing

\* Without a step of the tables there is none of the abstract store.
LEMMA StutterRefines ==
    UNCHANGED <<messages, message_seq, consumers, consumer_seq, deliveries, archives,
                receipts, outcomes>> => UNCHANGED Abs!vars
BY DEF Abs!vars, Retained, Subscribers, Inbox, Delivered, Dead, DeliveredTo, Outstanding,
       Pending, Matches

\* What a consumer owes is its deliveries and its unread log entries, of which the
\* cursors and the log alone decide.
LEMMA OutstandingSame ==
    ASSUME NEW c, UNCHANGED messages, consumers'[c] = consumers[c],
           deliveries'[c] = deliveries[c]
    PROVE  Outstanding(c)' = Outstanding(c)
BY DEF Outstanding, Pending, Matches

\* Opening a consumer subscribes it, with an empty inbox.
LEMMA OpenRefines ==
    ASSUME Inv, NEW name \in Names, NEW filter \in Filters, OpenConsumer(name, filter)
    PROVE  Abs!Subscribe(name, filter)
<1> USE DEF Inv
<1> SUFFICES ASSUME NEW c, c = consumer_seq + 1
             PROVE  Abs!Subscribe(name, filter)
  OBVIOUS
<1>1. /\ c \in Nat /\ c \notin DOMAIN consumers /\ DOMAIN consumers' = DOMAIN consumers \union {c}
      /\ DOMAIN messages \subseteq Int
  BY DEF TypeOK, OpenConsumer
<1>2. /\ consumers'[c] = [name |-> name, topic_filter |-> filter, draining |-> FALSE,
                          scan_cursor |-> HighWater, drain_cursor |-> NULL]
      /\ deliveries'[c] = Nothing /\ archives'[c] = Nothing
      /\ \A d \in DOMAIN consumers : /\ consumers'[d] = consumers[d]
                                      /\ deliveries'[d] = deliveries[d]
                                      /\ archives'[d] = archives[d]
      /\ consumer_seq' = c
      /\ \A d \in DOMAIN consumers : consumers[d].name # name
      /\ UNCHANGED <<messages, message_seq, receipts, outcomes>>
  BY <1>1 DEF OpenConsumer
<1>3. Outstanding(c)' = {}
  <2>1. \A m \in DOMAIN messages : m <= HighWater /\ m \in Int /\ HighWater \in Int
    BY <1>1, HighWaterBounds
  <2>2. Pending(c)' = {}
    <3>1. consumers'[c].scan_cursor = HighWater
      BY <1>2
    <3> QED BY <1>2, <2>1, <3>1 DEF Pending
  <2>3. DOMAIN deliveries'[c] = {}
    BY <1>2 DEF Nothing
  <2> QED BY <2>2, <2>3 DEF Outstanding
<1>4. \A d \in DOMAIN consumers : Outstanding(d)' = Outstanding(d)
  BY <1>2, OutstandingSame
<1>5. DeliveredTo(c)' = {} /\ \A d \in DOMAIN consumers : DeliveredTo(d)' = DeliveredTo(d)
  <2>1. \A r \in receipts : r.consumer_id # c
    <3>1. consumer_seq \in Nat
      BY DEF TypeOK
    <3> QED BY <3>1, ReceiptTypes DEF ReceiptsBehindCursor
  <2> QED BY <1>2, <2>1 DEF DeliveredTo
<1>6. Inbox' = [t \in DOMAIN Subscribers \union {c} |-> IF t = c THEN {} ELSE Inbox[t]]
  BY <1>1, <1>3, <1>4 DEF Inbox, Subscribers
<1>7. Delivered' = [t \in DOMAIN Subscribers \union {c} |-> IF t = c THEN {} ELSE Delivered[t]]
  BY <1>1, <1>5 DEF Delivered, Subscribers
<1>8. Dead' = [t \in DOMAIN Subscribers \union {c} |-> IF t = c THEN {} ELSE Dead[t]]
  BY <1>1, <1>2 DEF Dead, Subscribers, Nothing
<1>9. Subscribers' = [t \in DOMAIN Subscribers \union {c} |->
                        IF t = c
                        THEN [name |-> name, topic_filter |-> filter, open |-> TRUE]
                        ELSE Subscribers[t]]
  <2>1. /\ consumers'[c].name = name /\ consumers'[c].topic_filter = filter
        /\ ~consumers'[c].draining
    BY <1>2
  <2>2. \A d \in DOMAIN consumers : consumers'[d] = consumers[d]
    BY <1>2
  <2> QED BY <1>1, <2>1, <2>2, Zenon DEF Subscribers
<1>10. Retained' = Retained
  BY <1>2 DEF Retained
<1>11. \A t \in DOMAIN Subscribers : Subscribers[t].name # name
  BY <1>2 DEF Subscribers
<1> QED BY <1>2, <1>6, <1>7, <1>8, <1>9, <1>10, <1>11 DEF Abs!Subscribe

\* Publishing puts a message in the inbox of every active consumer that it matches,
\* although it writes no row but the message's.
LEMMA PublishRefines ==
    ASSUME Inv, NEW batch \in Batches, NEW now \in Now, Publish(batch, now)
    PROVE  Abs!Publish(batch)
<1> USE DEF Inv
<1> DEFINE new == message_seq + 1 .. message_seq + Len(batch)
<1>1. message_seq \in Nat /\ Len(batch) \in Nat
  BY BatchTypes DEF TypeOK
<1>2. /\ message_seq' = message_seq + Len(batch)
      /\ DOMAIN messages' = DOMAIN messages \union new
      /\ \A m \in new : messages'[m] = [topic |-> batch[m - message_seq], published_at |-> now]
      /\ \A m \in DOMAIN messages \ new : messages'[m] = messages[m]
      /\ UNCHANGED <<consumers, consumer_seq, deliveries, archives, receipts, outcomes>>
  BY DEF Publish
<1>3. \A m \in new : m \in Int /\ m > message_seq /\ m \notin DOMAIN messages
  BY <1>1 DEF TypeOK
<1> HIDE DEF new
<1>4. ASSUME NEW c \in DOMAIN consumers
      PROVE  Outstanding(c)' = Outstanding(c) \union
               {m \in new : ~consumers[c].draining
                            /\ Matches(consumers[c].topic_filter, batch[m - message_seq])}
  <2>1. /\ consumers[c].scan_cursor \in Nat /\ consumers[c].scan_cursor <= message_seq
        /\ consumers[c].draining \in BOOLEAN
        /\ consumers[c].draining <=> consumers[c].drain_cursor # NULL
        /\ consumers[c].drain_cursor # NULL =>
             consumers[c].drain_cursor \in Nat /\ consumers[c].drain_cursor <= message_seq
    BY ConsumerTypes DEF CursorBounds
  <2>2. \A m \in new : m \in Pending(c)' <=>
          ~consumers[c].draining /\ Matches(consumers[c].topic_filter, batch[m - message_seq])
    BY <1>1, <1>2, <1>3, <2>1 DEF Pending, Matches
  <2>3. \A m \in DOMAIN messages : m \in Pending(c)' <=> m \in Pending(c)
    BY <1>2, <1>3 DEF Pending, Matches
  <2>4. Pending(c)' \subseteq DOMAIN messages \union new /\ Pending(c) \subseteq DOMAIN messages
    BY <1>2 DEF Pending
  <2> QED BY <1>2, <2>2, <2>3, <2>4 DEF Outstanding
<1>5. Inbox' = [s \in DOMAIN Subscribers |->
                  Inbox[s] \union
                    {m \in new : /\ Subscribers[s].open
                                 /\ Matches(Subscribers[s].topic_filter, batch[m - message_seq])}]
  BY <1>2, <1>4 DEF Inbox, Subscribers
<1>6. Retained' = [m \in DOMAIN Retained \union new |->
                     IF m \in new THEN batch[m - message_seq] ELSE Retained[m]]
  BY <1>2, <1>3 DEF Retained
<1>7. UNCHANGED <<Subscribers, Delivered, Dead>>
  BY <1>2 DEF Subscribers, Delivered, DeliveredTo, Dead
<1> QED BY <1>2, <1>5, <1>6, <1>7 DEF Abs!Publish, Abs!Matches, Matches, new

\* Draining closes a subscription and takes nothing from it.
LEMMA BeginDrainingRefines ==
    ASSUME Inv, NEW c \in DOMAIN consumers, BeginDraining(c)
    PROVE  Abs!Close(c)
<1> USE DEF Inv
<1> DEFINE drain == Max({consumers[c].scan_cursor, HighWater})
<1>1. /\ consumers[c].scan_cursor \in Nat /\ HighWater \in Nat
      /\ consumers[c].draining \in BOOLEAN
      /\ consumers[c].draining <=> consumers[c].drain_cursor # NULL
      /\ consumers[c] \in ConsumerRow
  BY ConsumerTypes, HighWaterBounds DEF TypeOK
<1>2. drain \in Nat /\ drain >= HighWater
  BY <1>1, MaxOfPair
<1>3. \A m \in DOMAIN messages : m \in Nat /\ m <= drain
  BY <1>1, <1>2, HighWaterBounds DEF TypeOK
<1>4. /\ ~consumers[c].draining
      /\ consumers'[c] = [consumers[c] EXCEPT !.draining = TRUE, !.drain_cursor = drain]
      /\ DOMAIN consumers' = DOMAIN consumers
      /\ \A d \in DOMAIN consumers \ {c} : consumers'[d] = consumers[d]
      /\ UNCHANGED <<messages, message_seq, consumer_seq, deliveries, archives,
                     receipts, outcomes>>
  BY DEF BeginDraining, TypeOK
<1> HIDE DEF drain
<1>5. /\ consumers'[c].draining /\ consumers'[c].drain_cursor = drain
      /\ consumers'[c].scan_cursor = consumers[c].scan_cursor
      /\ consumers'[c].topic_filter = consumers[c].topic_filter
      /\ consumers'[c].name = consumers[c].name
  BY <1>1, <1>4 DEF ConsumerRow
<1>6. Outstanding(c)' = Outstanding(c)
  <2>1. consumers[c].drain_cursor = NULL
    BY <1>1, <1>4
  <2>2. Pending(c)' = Pending(c)
    BY <1>3, <1>4, <1>5, <2>1 DEF Pending, Matches
  <2> QED BY <1>4, <2>2 DEF Outstanding
<1>7. \A d \in DOMAIN consumers : Outstanding(d)' = Outstanding(d)
  BY <1>4, <1>6, OutstandingSame
<1>8. Inbox' = Inbox /\ Delivered' = Delivered /\ Dead' = Dead /\ Retained' = Retained
  BY <1>4, <1>7 DEF Inbox, Delivered, DeliveredTo, Dead, Retained
<1>9. Subscribers' = [Subscribers EXCEPT ![c].open = FALSE] /\ Subscribers[c].open
  BY <1>4, <1>5 DEF Subscribers
<1> QED BY <1>4, <1>8, <1>9 DEF Abs!Close

-----------------------------------------------------------------------------
(* Settlements.                                                            *)

\* A message in one place is not in another.
LEMMA PlacesApart ==
    ASSUME Inv, NEW c \in DOMAIN consumers
    PROVE  /\ DOMAIN deliveries[c] \intersect Pending(c) = {}
           /\ DOMAIN archives[c] \intersect Pending(c) = {}
           /\ DOMAIN deliveries[c] \intersect DOMAIN archives[c] = {}
<1>1. consumers[c].scan_cursor \in Nat
  BY ConsumerTypes DEF Inv
<1>2. /\ \A m \in DOMAIN deliveries[c] \union DOMAIN archives[c] :
           m \in Nat /\ m <= consumers[c].scan_cursor
      /\ DOMAIN deliveries[c] \intersect DOMAIN archives[c] = {}
  BY DEF Inv, ClaimedBehindCursor
<1>3. \A m \in Pending(c) : m > consumers[c].scan_cursor
  BY DEF Pending
<1> QED BY <1>1, <1>2, <1>3

\* An accepted receipt is for a message that was delivered and is not settled.
LEMMA CurrentWasDelivered ==
    ASSUME NEW c, NEW R \in SUBSET receipts
    PROVE  Current(c, R) \subseteq Outstanding(c) \intersect DeliveredTo(c)
BY DEF Current, Outstanding, DeliveredTo

\* Which messages were delivered does not depend on the receipts' deadlines.
LEMMA DeliveredSame ==
    ASSUME \A g \in receipts' : \E r \in receipts :
             r.consumer_id = g.consumer_id /\ r.message_id = g.message_id,
           \A r \in receipts : \E g \in receipts' :
             r.consumer_id = g.consumer_id /\ r.message_id = g.message_id
    PROVE  \A d : DeliveredTo(d)' = DeliveredTo(d)
BY DEF DeliveredTo

\* Giving receipts back leaves what was delivered delivered.
LEMMA GivenBackDelivered ==
    ASSUME TypeOK, NEW c, NEW R \in SUBSET receipts, receipts' = GivenBack(c, R)
    PROVE  \A d : DeliveredTo(d)' = DeliveredTo(d)
<1>1. \A g \in receipts' : \E r \in receipts :
        r.consumer_id = g.consumer_id /\ r.message_id = g.message_id
  BY GivenBackReceipts
<1>2. ASSUME NEW r \in receipts
      PROVE  \E g \in receipts' : r.consumer_id = g.consumer_id /\ r.message_id = g.message_id
  <2>1. CASE r \in Accepted(c, R)
    <3> DEFINE g == [r EXCEPT !.until = 0]
    <3>1. g \in receipts' /\ r \in ReceiptRecord
      BY <2>1, ReceiptTypes DEF GivenBack
    <3>2. g.consumer_id = r.consumer_id /\ g.message_id = r.message_id
      BY <3>1 DEF ReceiptRecord
    <3> QED BY <3>1, <3>2
  <2>2. CASE r \notin Accepted(c, R)
    BY <2>2 DEF GivenBack
  <2> QED BY <2>1, <2>2
<1> QED BY <1>1, <1>2, DeliveredSame

\* So does an extension.
LEMMA ProlongedDelivered ==
    ASSUME TypeOK, NEW c, NEW R \in SUBSET receipts, NEW deadline \in Nat, deadline # 0,
           receipts' = Prolonged(c, R, deadline)
    PROVE  \A d : DeliveredTo(d)' = DeliveredTo(d)
<1>1. ASSUME NEW g \in receipts'
      PROVE  \E r \in receipts : r.consumer_id = g.consumer_id /\ r.message_id = g.message_id
  <2>1. PICK r \in receipts : IsAfterExtension(g, r, c, R, deadline)
    BY ProlongedReceipts
  <2> QED BY <2>1 DEF IsAfterExtension
<1>2. ASSUME NEW r \in receipts
      PROVE  \E g \in receipts' : r.consumer_id = g.consumer_id /\ r.message_id = g.message_id
  <2>1. CASE r \in Accepted(c, R)
    <3> DEFINE g == [r EXCEPT !.until = Max({@, deadline})]
    <3>1. g \in receipts' /\ r \in ReceiptRecord
      BY <2>1, ReceiptTypes DEF Prolonged
    <3>2. g.consumer_id = r.consumer_id /\ g.message_id = r.message_id
      BY <3>1 DEF ReceiptRecord
    <3> QED BY <3>1, <3>2
  <2>2. CASE r \notin Accepted(c, R)
    BY <2>2 DEF Prolonged
  <2> QED BY <2>1, <2>2
<1> QED BY <1>1, <1>2, DeliveredSame

\* Nothing is unread, or read, but by the consumer's own row and the log.
LEMMA PendingSame ==
    ASSUME NEW c, UNCHANGED messages, consumers'[c] = consumers[c]
    PROVE  Pending(c)' = Pending(c)
BY DEF Pending, Matches

\* An acknowledgement settles messages that were delivered.
LEMMA AckRefines ==
    ASSUME Inv, NEW c \in DOMAIN consumers, NEW R \in SUBSET receipts, AckBatch(c, R)
    PROVE  Abs!Settle(c, Current(c, R))
<1> USE DEF Inv
<1>1. /\ DOMAIN deliveries'[c] = DOMAIN deliveries[c] \ Current(c, R)
      /\ \A d \in DOMAIN consumers \ {c} : deliveries'[d] = deliveries[d]
      /\ UNCHANGED <<messages, message_seq, consumers, consumer_seq, archives, outcomes>>
      /\ receipts' = GivenBack(c, R)
  BY DEF AckBatch, Without, TypeOK
<1>2. Outstanding(c)' = Outstanding(c) \ Current(c, R)
  <2>1. Pending(c)' = Pending(c)
    BY <1>1, PendingSame
  <2> QED BY <1>1, <2>1, PlacesApart DEF Outstanding, Current
<1>3. \A d \in DOMAIN consumers \ {c} : Outstanding(d)' = Outstanding(d)
  BY <1>1, OutstandingSame
<1>4. Inbox' = [Inbox EXCEPT ![c] = @ \ Current(c, R)]
  BY <1>1, <1>2, <1>3 DEF Inbox
<1>5. Delivered' = Delivered
  BY <1>1, GivenBackDelivered DEF Delivered
<1>6. Current(c, R) \subseteq Inbox[c] \intersect Delivered[c]
  BY CurrentWasDelivered DEF Inbox, Delivered
<1>7. UNCHANGED <<message_seq, Retained, consumer_seq, Subscribers, Dead, outcomes>>
  BY <1>1 DEF Retained, Subscribers, Dead
<1> QED BY <1>4, <1>5, <1>6, <1>7 DEF Abs!Settle

\* What a consumer owes, and to whom it was delivered, is not changed by a nack.
LEMMA NackRefines ==
    ASSUME Inv, NEW c \in DOMAIN consumers, NEW R \in SUBSET receipts,
           NEW now, NEW delay, NackBatch(c, R, now, delay)
    PROVE  UNCHANGED Abs!vars
<1> USE DEF Inv
<1>1. /\ \A d \in DOMAIN consumers : DOMAIN deliveries'[d] = DOMAIN deliveries[d]
      /\ UNCHANGED <<messages, message_seq, consumers, consumer_seq, archives, outcomes>>
      /\ receipts' = GivenBack(c, R)
  BY DEF NackBatch, TypeOK
<1>2. \A d \in DOMAIN consumers : Outstanding(d)' = Outstanding(d)
  BY <1>1, PendingSame DEF Outstanding
<1>3. Inbox' = Inbox
  BY <1>1, <1>2 DEF Inbox
<1>4. Delivered' = Delivered
  BY <1>1, GivenBackDelivered DEF Delivered
<1>5. UNCHANGED <<message_seq, Retained, consumer_seq, Subscribers, Dead, outcomes>>
  BY <1>1 DEF Retained, Subscribers, Dead
<1> QED BY <1>3, <1>4, <1>5 DEF Abs!vars

\* Nor by an extension.
LEMMA ExtendRefines ==
    ASSUME Inv, NEW c \in DOMAIN consumers, NEW R \in SUBSET receipts,
           NEW now \in Now, NEW timeout \in Leases, ExtendVisibilityBatch(c, R, now, timeout)
    PROVE  UNCHANGED Abs!vars
<1> USE DEF Inv
<1> DEFINE deadline == now + timeout
<1>1. /\ \A d \in DOMAIN consumers : DOMAIN deliveries'[d] = DOMAIN deliveries[d]
      /\ UNCHANGED <<messages, message_seq, consumers, consumer_seq, archives, outcomes>>
      /\ receipts' = Prolonged(c, R, deadline)
  BY DEF ExtendVisibilityBatch, TypeOK
<1>2. deadline \in Nat /\ deadline # 0
  BY NowTypes, DurationAssumption
<1> HIDE DEF deadline
<1>3. \A d \in DOMAIN consumers : Outstanding(d)' = Outstanding(d)
  BY <1>1, PendingSame DEF Outstanding
<1>4. Inbox' = Inbox
  BY <1>1, <1>3 DEF Inbox
<1>5. Delivered' = Delivered
  BY <1>1, <1>2, ProlongedDelivered DEF Delivered
<1>6. UNCHANGED <<message_seq, Retained, consumer_seq, Subscribers, Dead, outcomes>>
  BY <1>1 DEF Retained, Subscribers, Dead
<1> QED BY <1>4, <1>5, <1>6 DEF Abs!vars

\* Archiving sets aside messages that were delivered.
LEMMA ArchiveRefines ==
    ASSUME Inv, NEW c \in DOMAIN consumers, NEW R \in SUBSET receipts, NEW now,
           ArchiveBatch(c, R, now)
    PROVE  Abs!Bury(c, Current(c, R))
<1> USE DEF Inv
<1>1. /\ DOMAIN deliveries'[c] = DOMAIN deliveries[c] \ Current(c, R)
      /\ DOMAIN archives'[c] = DOMAIN archives[c] \union Current(c, R)
      /\ \A d \in DOMAIN consumers \ {c} : /\ deliveries'[d] = deliveries[d]
                                            /\ archives'[d] = archives[d]
      /\ UNCHANGED <<messages, message_seq, consumers, consumer_seq, outcomes>>
      /\ receipts' = GivenBack(c, R)
  BY DEF ArchiveBatch, Without, TypeOK
<1>2. Outstanding(c)' = Outstanding(c) \ Current(c, R)
  <2>1. Pending(c)' = Pending(c)
    BY <1>1, PendingSame
  <2> QED BY <1>1, <2>1, PlacesApart DEF Outstanding, Current
<1>3. \A d \in DOMAIN consumers \ {c} : Outstanding(d)' = Outstanding(d)
  BY <1>1, OutstandingSame
<1>4. Inbox' = [Inbox EXCEPT ![c] = @ \ Current(c, R)]
  BY <1>1, <1>2, <1>3 DEF Inbox
<1>5. Dead' = [Dead EXCEPT ![c] = @ \union Current(c, R)]
  BY <1>1 DEF Dead
<1>6. Delivered' = Delivered
  BY <1>1, GivenBackDelivered DEF Delivered
<1>7. Current(c, R) \subseteq Inbox[c] \intersect Delivered[c]
  BY CurrentWasDelivered DEF Inbox, Delivered
<1>8. UNCHANGED <<message_seq, Retained, consumer_seq, Subscribers, outcomes>>
  BY <1>1 DEF Retained, Subscribers
<1> QED BY <1>4, <1>5, <1>6, <1>7, <1>8 DEF Abs!Bury

\* A redrive takes them back.
LEMMA RedriveRefines ==
    ASSUME Inv, NEW c \in DOMAIN consumers, NEW ids, NEW now, NEW delay,
           RedriveBatch(c, ids, now, delay)
    PROVE  \E again \in SUBSET Dead[c] : Abs!Revive(c, again)
<1> USE DEF Inv
<1> SUFFICES ASSUME NEW again, again = {m \in DOMAIN archives[c] : archives[c][m].id \in ids}
             PROVE  again \subseteq Dead[c] /\ Abs!Revive(c, again)
  OBVIOUS
<1>1. /\ DOMAIN deliveries'[c] = DOMAIN deliveries[c] \union again
      /\ DOMAIN archives'[c] = DOMAIN archives[c] \ again
      /\ \A d \in DOMAIN consumers \ {c} : /\ deliveries'[d] = deliveries[d]
                                            /\ archives'[d] = archives[d]
      /\ UNCHANGED <<messages, message_seq, consumers, consumer_seq, receipts, outcomes>>
  BY DEF RedriveBatch, Without, TypeOK
<1>2. Outstanding(c)' = Outstanding(c) \union again
  <2>1. Pending(c)' = Pending(c)
    BY <1>1, PendingSame
  <2> QED BY <1>1, <2>1 DEF Outstanding
<1>3. \A d \in DOMAIN consumers \ {c} : Outstanding(d)' = Outstanding(d)
  BY <1>1, OutstandingSame
<1>4. Inbox' = [Inbox EXCEPT ![c] = @ \union again]
  BY <1>1, <1>2, <1>3 DEF Inbox
<1>5. Dead' = [Dead EXCEPT ![c] = @ \ again]
  BY <1>1 DEF Dead
<1>6. again \subseteq Dead[c]
  BY DEF Dead
<1>7. UNCHANGED <<message_seq, Retained, consumer_seq, Subscribers, Delivered, outcomes>>
  BY <1>1 DEF Retained, Subscribers, Delivered, DeliveredTo
<1> QED BY <1>4, <1>5, <1>6, <1>7 DEF Abs!Revive

\* A purge forgets what was set aside, and only that.
LEMMA PurgeRefines ==
    ASSUME Inv, NEW c \in DOMAIN consumers, NEW before, NEW max,
           PurgeArchives(c, before, max)
    PROVE  \E old \in SUBSET Dead[c] : Abs!Drop(c, old)
<1> USE DEF Inv
<1>1. PICK old \in SUBSET DOMAIN archives[c] :
        archives' = [archives EXCEPT ![c] = Without(@, old)]
  BY DEF PurgeArchives
<1>2. /\ DOMAIN archives'[c] = DOMAIN archives[c] \ old
      /\ \A d \in DOMAIN consumers \ {c} : archives'[d] = archives[d]
  BY <1>1 DEF Without, TypeOK
<1>3. UNCHANGED <<messages, message_seq, consumers, consumer_seq, deliveries, receipts, outcomes>>
  BY DEF PurgeArchives
<1>4. Dead' = [Dead EXCEPT ![c] = @ \ old]
  BY <1>2, <1>3 DEF Dead
<1>5. \A d \in DOMAIN consumers : Outstanding(d)' = Outstanding(d)
  BY <1>3, OutstandingSame
<1>6. Inbox' = Inbox
  BY <1>3, <1>5 DEF Inbox
<1>7. UNCHANGED <<message_seq, Retained, consumer_seq, Subscribers, Delivered, outcomes>>
  BY <1>3 DEF Retained, Subscribers, Delivered, DeliveredTo
<1> QED BY <1>1, <1>4, <1>6, <1>7 DEF Abs!Drop, Dead

-----------------------------------------------------------------------------
(* Deletions.                                                              *)

\* A deletion respects its mode and says exactly what it discards.
LEMMA DeleteRefines ==
    ASSUME Inv, NEW c \in DOMAIN consumers, NEW mode, DeleteConsumer(c, mode)
    PROVE  Abs!Delete(c, mode)
<1> USE DEF Inv
<1>1. IsFiniteSet(DOMAIN deliveries[c]) /\ IsFiniteSet(DOMAIN archives[c])
      /\ IsFiniteSet(Pending(c))
  BY DeliveriesFinite, MessagesFinite DEF Pending
<1>2. Cardinality(Outstanding(c)) = Cardinality(DOMAIN deliveries[c]) + Cardinality(Pending(c))
  <2>1. Cardinality(DOMAIN deliveries[c] \union Pending(c)) =
          Cardinality(DOMAIN deliveries[c]) + Cardinality(Pending(c))
            - Cardinality(DOMAIN deliveries[c] \intersect Pending(c))
    BY <1>1, FS_Union
  <2>2. /\ Cardinality(DOMAIN deliveries[c]) \in Nat /\ Cardinality(Pending(c)) \in Nat
        /\ Cardinality(DOMAIN deliveries[c] \intersect Pending(c)) = 0
    BY <1>1, PlacesApart, FS_CardinalityType, FS_EmptySet
  <2> QED BY <2>1, <2>2 DEF Outstanding
<1>3. IsFiniteSet(Outstanding(c))
  BY <1>1, FS_Union DEF Outstanding
<1>4. /\ mode = "DrainedOnly" => consumers[c].draining /\ Outstanding(c) = {}
      /\ mode # "DiscardAll" => DOMAIN archives[c] = {}
  BY <1>1, <1>2, <1>3, FS_EmptySet DEF DeleteConsumer
<1>5. /\ DOMAIN consumers' = DOMAIN consumers \ {c}
      /\ \A d \in DOMAIN consumers \ {c} : /\ consumers'[d] = consumers[d]
                                            /\ deliveries'[d] = deliveries[d]
                                            /\ archives'[d] = archives[d]
      /\ UNCHANGED <<messages, message_seq, consumer_seq, receipts>>
  BY DEF DeleteConsumer, Without, TypeOK
<1>6. \A d \in DOMAIN consumers \ {c} : Outstanding(d)' = Outstanding(d)
  BY <1>5, OutstandingSame
<1>7. Inbox' = [t \in DOMAIN Inbox \ {c} |-> Inbox[t]]
  BY <1>5, <1>6 DEF Inbox
<1>8. /\ Dead' = [t \in DOMAIN Dead \ {c} |-> Dead[t]]
      /\ Subscribers' = [t \in DOMAIN Subscribers \ {c} |-> Subscribers[t]]
      /\ Delivered' = [t \in DOMAIN Delivered \ {c} |-> Delivered[t]]
      /\ UNCHANGED Retained
  BY <1>5 DEF Dead, Subscribers, Delivered, DeliveredTo, Retained
<1>9. outcomes' = [t \in DOMAIN outcomes \union {c} |->
                     IF t = c
                     THEN [discarded_deliveries |-> Cardinality(Inbox[c]),
                           discarded_archives |-> Cardinality(Dead[c])]
                     ELSE outcomes[t]]
  BY <1>2 DEF DeleteConsumer, Inbox, Dead
<1>10. /\ mode = "DrainedOnly" => ~Subscribers[c].open /\ Inbox[c] = {}
       /\ mode # "DiscardAll" => Dead[c] = {}
  BY <1>4 DEF Subscribers, Inbox, Dead
<1>11. UNCHANGED <<message_seq, Retained, consumer_seq>>
  BY <1>5, <1>8
<1>12. /\ Abs!Cardinality(Inbox[c]) = Cardinality(Inbox[c])
       /\ Abs!Cardinality(Dead[c]) = Cardinality(Dead[c])
  BY DEF Cardinality, Abs!Cardinality
<1> HIDE DEF Inv
<1> QED BY <1>7, <1>8, <1>9, <1>10, <1>11, <1>12 DEF Abs!Delete

\* Pruning forgets only messages that nobody has.
LEMMA PruneRefines ==
    ASSUME Inv, NEW before, NEW max, Prune(before, max)
    PROVE  \E gone \in SUBSET DOMAIN Retained : Abs!Forget(gone)
<1> USE DEF Inv
<1>1. PICK gone \in SUBSET Prunable(before) : messages' = Without(messages, gone)
  BY DEF Prune
<1>2. UNCHANGED <<message_seq, consumers, consumer_seq, deliveries, archives, receipts, outcomes>>
  BY DEF Prune
<1>3. /\ gone \subseteq DOMAIN messages
      /\ \A d \in DOMAIN consumers :
           gone \intersect (DOMAIN deliveries[d] \union DOMAIN archives[d] \union Pending(d)) = {}
  BY <1>1 DEF Prunable
<1>4. /\ DOMAIN messages' = DOMAIN messages \ gone
      /\ \A m \in DOMAIN messages' : messages'[m] = messages[m]
  BY <1>1 DEF Without
<1>5. ASSUME NEW d \in DOMAIN consumers
      PROVE  Outstanding(d)' = Outstanding(d)
  <2>1. Pending(d)' = Pending(d)
    BY <1>2, <1>3, <1>4 DEF Pending, Matches
  <2> QED BY <1>2, <2>1 DEF Outstanding
<1>6. Inbox' = Inbox
  BY <1>2, <1>5 DEF Inbox
<1>7. Retained' = [m \in DOMAIN Retained \ gone |-> Retained[m]]
  BY <1>4 DEF Retained
<1>8. \A s \in DOMAIN Subscribers : gone \intersect (Inbox[s] \union Dead[s]) = {}
  BY <1>3 DEF Subscribers, Inbox, Dead, Outstanding
<1>9. UNCHANGED <<message_seq, consumer_seq, Subscribers, Delivered, Dead, outcomes>>
  BY <1>2 DEF Subscribers, Delivered, DeliveredTo, Dead
<1> QED BY <1>3, <1>6, <1>7, <1>8, <1>9 DEF Abs!Forget, Retained

-----------------------------------------------------------------------------
(* Claims.                                                                 *)

\* A worker is handed a receipt for each message it claimed, and for no other.
LEMMA HandedReceipts ==
    ASSUME NEW c, NEW rows, NEW S, NEW deadline
    PROVE  /\ \A r \in Handed(c, rows, S, deadline) : r.consumer_id = c /\ r.message_id \in S
           /\ \A m \in S : \E r \in Handed(c, rows, S, deadline) : r.message_id = m
<1> DEFINE receipt(m) == [consumer_id |-> c, message_id |-> m, generation |-> rows[m].generation,
                          lease |-> rows[m].lease, until |-> deadline]
<1>1. Handed(c, rows, S, deadline) = {receipt(m) : m \in S}
  BY DEF Handed
<1>2. \A m \in S : receipt(m).consumer_id = c /\ receipt(m).message_id = m
  OBVIOUS
<1> HIDE DEF receipt
<1> QED BY <1>1, <1>2

\* Claiming delivers what the consumer was owed, and moves it from the log to the
\* deliveries without losing any of it.
LEMMA ClaimRefines ==
    ASSUME Inv, NEW c \in DOMAIN consumers, NEW now \in Now, NEW max \in 1..MaxBatch,
           NEW lease \in Leases, Claim(c, now, max, lease)
    PROVE  \E batch \in SUBSET Inbox[c] : Abs!Deliver(c, batch)
<1> USE DEF Inv
<1> SUFFICES ASSUME NEW deadline, deadline = now + lease
             PROVE  \E batch \in SUBSET Inbox[c] : Abs!Deliver(c, batch)
  OBVIOUS
<1>1. PICK retried \in SUBSET Visible(c, now), fresh \in SUBSET Unscanned(c) :
        LET remaining == max - Cardinality(retried)
            rows == Leased(c, retried, fresh, deadline)
        IN  /\ Cardinality(retried) <= max
            /\ FirstById(fresh, Unscanned(c), remaining)
            /\ deliveries' = [deliveries EXCEPT ![c] = rows]
            /\ consumers' = [consumers EXCEPT
                 ![c].scan_cursor = NextCursor(c, fresh, remaining)]
            /\ receipts' = receipts \union Handed(c, rows, retried \union fresh, deadline)
  BY DEF Claim, FirstByDeadline, Limited
<1>2. UNCHANGED <<messages, message_seq, consumer_seq, archives, outcomes>>
  BY DEF Claim
<1>3. retried \subseteq DOMAIN deliveries[c] /\ fresh \subseteq Pending(c)
  BY UnscannedIsPending DEF Visible
<1> SUFFICES ASSUME NEW remaining, remaining = max - Cardinality(retried),
                    NEW k, k = NextCursor(c, fresh, remaining)
             PROVE  \E batch \in SUBSET Inbox[c] : Abs!Deliver(c, batch)
  OBVIOUS
<1>4. remaining \in Nat
  <2>1. Cardinality(retried) \in Nat /\ Cardinality(retried) <= max /\ max \in Nat
    BY <1>1, <1>3, DeliveriesFinite, BoundsAssumption
  <2> QED BY <2>1
<1>5. /\ k \in Nat /\ consumers[c].scan_cursor <= k
      /\ \A m \in fresh : m <= k
      /\ \A m \in Pending(c) \ fresh : k < m
  BY <1>1, <1>4, CursorSplitsTheLog, UnscannedIsPending
<1>6. /\ consumers' = [consumers EXCEPT ![c].scan_cursor = k]
      /\ DOMAIN deliveries'[c] = DOMAIN deliveries[c] \union fresh
      /\ \A d \in DOMAIN consumers \ {c} : deliveries'[d] = deliveries[d]
  BY <1>1 DEF TypeOK, Leased
<1>7. /\ DOMAIN consumers' = DOMAIN consumers
      /\ \A d \in DOMAIN consumers \ {c} : consumers'[d] = consumers[d]
      /\ consumers'[c].scan_cursor = k
      /\ consumers'[c].drain_cursor = consumers[c].drain_cursor
      /\ consumers'[c].draining = consumers[c].draining
      /\ consumers'[c].topic_filter = consumers[c].topic_filter
      /\ consumers'[c].name = consumers[c].name
  <2>1. consumers[c] \in ConsumerRow
    BY DEF TypeOK
  <2> QED BY <1>6, <2>1 DEF ConsumerRow
<1>8. Pending(c)' = Pending(c) \ fresh
  <2>1. /\ consumers[c].scan_cursor \in Nat
        /\ \A m \in DOMAIN messages : m \in Nat
    BY ConsumerTypes DEF TypeOK
  <2>2. \A m \in DOMAIN messages : m \in Pending(c)' => m \in Pending(c) \ fresh
    BY <1>2, <1>5, <1>7, <2>1 DEF Pending, Matches
  <2>3. \A m \in DOMAIN messages : m \in Pending(c) \ fresh => m \in Pending(c)'
    BY <1>2, <1>5, <1>7, <2>1 DEF Pending, Matches
  <2>4. Pending(c)' \subseteq DOMAIN messages /\ Pending(c) \subseteq DOMAIN messages
    BY <1>2 DEF Pending
  <2> QED BY <2>2, <2>3, <2>4
<1>9. \A d \in DOMAIN consumers : Outstanding(d)' = Outstanding(d)
  <2>1. Outstanding(c)' = Outstanding(c)
    BY <1>3, <1>6, <1>8 DEF Outstanding
  <2> QED BY <1>2, <1>6, <1>7, <2>1, OutstandingSame
<1>10. /\ DeliveredTo(c)' = DeliveredTo(c) \union (retried \union fresh)
       /\ \A d \in DOMAIN consumers \ {c} : DeliveredTo(d)' = DeliveredTo(d)
  <2> DEFINE H == Handed(c, Leased(c, retried, fresh, deadline), retried \union fresh, deadline)
  <2>1. /\ \A r \in H : r.consumer_id = c /\ r.message_id \in retried \union fresh
        /\ \A m \in retried \union fresh : \E r \in H : r.message_id = m
    BY HandedReceipts
  <2>2. receipts' = receipts \union H
    BY <1>1
  <2> HIDE DEF H
  <2> QED BY <2>1, <2>2 DEF DeliveredTo
<1>11. Inbox' = Inbox
  BY <1>7, <1>9 DEF Inbox
<1>12. Delivered' = [Delivered EXCEPT ![c] = @ \union (retried \union fresh)]
  BY <1>7, <1>10 DEF Delivered
<1>13. UNCHANGED <<message_seq, Retained, consumer_seq, Subscribers, Dead, outcomes>>
  <2>1. \A d \in DOMAIN consumers : /\ consumers'[d].name = consumers[d].name
                                     /\ consumers'[d].topic_filter = consumers[d].topic_filter
                                     /\ consumers'[d].draining = consumers[d].draining
    BY <1>7
  <2> QED BY <1>2, <1>7, <2>1 DEF Retained, Subscribers, Dead
<1>14. retried \union fresh \subseteq Inbox[c]
  BY <1>3 DEF Inbox, Outstanding
<1> QED BY <1>11, <1>12, <1>13, <1>14 DEF Abs!Deliver

-----------------------------------------------------------------------------

\* Every step of the store is a step of the abstract store, or none.
LEMMA NextRefines == Inv /\ [Next]_vars => [Abs!Next]_(Abs!vars)
<1> SUFFICES ASSUME Inv, [Next]_vars PROVE Abs!Next \/ UNCHANGED Abs!vars
  OBVIOUS
<1>1. CASE UNCHANGED vars
  BY <1>1, StutterRefines DEF vars
<1>2. CASE Tick
  BY <1>2, StutterRefines DEF Tick
<1>3. CASE Open
  BY <1>3, OpenRefines DEF Open, Filters, Abs!Filters, Abs!Next
<1>4. CASE PublishBatch
  BY <1>4, PublishRefines DEF PublishBatch, Batches, Filters, Abs!Batches, Abs!Filters, Abs!Next
<1>5. CASE PruneMessages
  BY <1>5, PruneRefines DEF PruneMessages, Abs!Next
<1>6. ASSUME NEW c \in DOMAIN consumers, ConsumerStep(c)
      PROVE  Abs!Next \/ UNCHANGED Abs!vars
  <2>1. Presented \subseteq SUBSET receipts /\ c \in DOMAIN Subscribers
    BY DEF Presented, Subscribers
  <2>2. \A R \in SUBSET receipts : Current(c, R) \in SUBSET Inbox[c]
    BY CurrentWasDelivered DEF Inbox
  <2>3. Abs!SubscriberStep(c) => Abs!Next
    BY <2>1 DEF Abs!Next
  <2>4. CASE BeginDraining(c)
    BY <2>3, <2>4, BeginDrainingRefines DEF Abs!SubscriberStep
  <2>5. CASE Poll(c)
    BY <2>3, <2>5, ClaimRefines DEF Poll, Abs!SubscriberStep
  <2>6. CASE Acknowledge(c)
    BY <2>1, <2>2, <2>3, <2>6, AckRefines DEF Acknowledge, Abs!SubscriberStep
  <2>7. CASE Release(c)
    BY <2>1, <2>7, NackRefines DEF Release
  <2>8. CASE Extend(c)
    BY <2>1, <2>8, ExtendRefines DEF Extend
  <2>9. CASE Archive(c)
    BY <2>1, <2>2, <2>3, <2>9, ArchiveRefines DEF Archive, Abs!SubscriberStep
  <2>10. CASE Redrive(c)
    BY <2>3, <2>10, RedriveRefines DEF Redrive, Abs!SubscriberStep
  <2>11. CASE Purge(c)
    BY <2>3, <2>11, PurgeRefines DEF Purge, Abs!SubscriberStep
  <2>12. CASE Delete(c)
    BY <2>3, <2>12, DeleteRefines DEF Delete, Modes, Abs!Modes, Abs!SubscriberStep
  <2> QED BY <1>6, <2>4, <2>5, <2>6, <2>7, <2>8, <2>9, <2>10, <2>11, <2>12 DEF ConsumerStep
<1> QED BY <1>1, <1>2, <1>3, <1>4, <1>5, <1>6 DEF Next

\* The log with its cursors cannot be told from a store that, when it publishes, puts
\* each message in the inbox of every active consumer that it matches.
THEOREM Refinement == Spec => EagerFanOut
<1>1. Init => Abs!Init
  BY InitRefines
<1>2. Inv /\ [Next]_vars => [Abs!Next]_(Abs!vars)
  BY NextRefines
<1> QED BY <1>1, <1>2, Invariance, PTL DEF Spec, EagerFanOut, Abs!Spec

=============================================================================
