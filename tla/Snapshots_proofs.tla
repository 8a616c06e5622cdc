-------------------------- MODULE Snapshots_proofs ---------------------------
(* What TLAPS proves of Snapshots, for every value of the constants of     *)
(* LogStore, from its inductive invariant.                                 *)
EXTENDS Snapshots, LogStore_proofs

\* No message is published in the future.
PublishedInThePast == \A m \in DOMAIN messages : messages[m].published_at <= clock

-----------------------------------------------------------------------------
(* Minima and sums.                                                        *)

\* A set of numbers that is not empty has a least one.
LEMMA Least ==
    ASSUME NEW B \in SUBSET Nat, B # {}
    PROVE  \E n \in B : \A m \in B : n <= m
<1>1. PICK n \in B : \A m \in B : ~ (<<m, n>> \in OpToRel(<, Nat))
  BY NatLessThanWellFounded, WFMin
<1>2. \A m \in B : ~ (m < n)
  BY <1>1 DEF OpToRel
<1> QED BY <1>2

\* A sum of numbers is zero only if each of them is.
LEMMA SumIsZero ==
    ASSUME NEW f, f \in [DOMAIN f -> Nat], IsFiniteSet(DOMAIN f), SumFunction(f) = 0
    PROVE  \A x \in DOMAIN f : f[x] = 0
<1> DEFINE S == DOMAIN f
           pick(s) == CHOOSE x \in s : TRUE
           Upto(n) == {s \in SUBSET S : Cardinality(s) <= n}
           Rest(g, s) == IF s = {} THEN 0 ELSE f[pick(s)] + g[s \ {pick(s)}]
           SumsUpto(n) == \E g : g = [s \in Upto(n) |-> Rest(g, s)]
           total == CHOOSE g : g = [s \in SUBSET S |-> Rest(g, s)]
<1>1. SumFunction(f) = total[S]
  BY DEF SumFunction, SumFunctionOnSet, FoldFunctionOnSet, MapThenFoldSet
<1>2. ASSUME NEW s \in SUBSET S, s # {}
      PROVE  /\ pick(s) \in s /\ s \ {pick(s)} \in SUBSET S
             /\ Cardinality(s) \in Nat \ {0}
             /\ Cardinality(s \ {pick(s)}) = Cardinality(s) - 1
  <2>1. pick(s) \in s
    BY <1>2
  <2>2. IsFiniteSet(s)
    BY FS_Subset
  <2> HIDE DEF pick
  <2> QED BY <1>2, <2>1, <2>2, FS_RemoveElement, FS_CardinalityType, FS_EmptySet
<1>3. \A s \in SUBSET S : Cardinality(s) \in Nat /\ Cardinality(s) <= Cardinality(S)
  BY FS_Subset, FS_CardinalityType
<1>4. ASSUME NEW n \in Nat PROVE SumsUpto(n)
  <2> DEFINE B == {m \in Nat : ~SumsUpto(m)}
  <2> SUFFICES ASSUME B # {} PROVE FALSE
    OBVIOUS
  <2>1. PICK m \in B : \A k \in B : m <= k
    <3> HIDE DEF SumsUpto
    <3> QED BY Least
  <2>2. CASE m = 0
    <3> DEFINE g == [s \in Upto(0) |-> 0]
    <3>1. ASSUME NEW s \in Upto(0) PROVE s = {}
      <4> HIDE DEF pick
      <4>1. s \in SUBSET S /\ Cardinality(s) <= 0
        OBVIOUS
      <4>2. s # {} => Cardinality(s) \in Nat \ {0}
        BY <1>2, <4>1
      <4> HIDE DEF Upto
      <4> QED BY <4>1, <4>2
    <3>2. g = [s \in Upto(0) |-> Rest(g, s)]
      BY <3>1
    <3> QED BY <2>1, <2>2, <3>2
  <2>3. CASE m # 0
    <3>1. m - 1 \in Nat /\ m \in Nat /\ SumsUpto(m - 1)
      <4> HIDE DEF SumsUpto
      <4>1. m \in Nat /\ m - 1 \in Nat /\ m - 1 \notin B
        BY <2>1, <2>3
      <4> QED BY <4>1
    <3>2. PICK g : g = [s \in Upto(m - 1) |-> Rest(g, s)]
      BY <3>1
    <3> DEFINE h == [s \in Upto(m) |-> Rest(g, s)]
    <3>3. ASSUME NEW s \in Upto(m) PROVE Rest(g, s) = Rest(h, s)
      <4>1. CASE s = {}
        BY <4>1
      <4>2. CASE s # {}
        <5> DEFINE r == s \ {pick(s)}
        <5>1. r \in Upto(m - 1) /\ r \in Upto(m)
          <6> HIDE DEF pick
          <6> QED BY <1>2, <3>1, <4>2
        <5> HIDE DEF pick
        <5>2. g[r] = Rest(g, r) /\ h[r] = Rest(g, r)
          BY <3>2, <5>1
        <5> QED BY <4>2, <5>2
      <4> QED BY <4>1, <4>2
    <3>4. h = [s \in Upto(m) |-> Rest(h, s)]
      BY <3>3
    <3>5. SumsUpto(m)
      BY <3>4
    <3> HIDE DEF SumsUpto
    <3> QED BY <2>1, <3>5
  <2> QED BY <2>2, <2>3
<1>5. total = [s \in SUBSET S |-> Rest(total, s)]
  <2>1. Upto(Cardinality(S)) = SUBSET S
    BY <1>3
  <2>2. SumsUpto(Cardinality(S))
    BY <1>3, <1>4
  <2>3. \E g : g = [s \in SUBSET S |-> Rest(g, s)]
    BY <2>1, <2>2
  <2> QED BY <2>3
<1> HIDE DEF total
<1>6. ASSUME NEW s \in SUBSET S
      PROVE  total[s] \in Nat /\ (total[s] = 0 => \A x \in s : f[x] = 0)
  <2> DEFINE IsSum(r) == total[r] \in Nat /\ (total[r] = 0 => \A x \in r : f[x] = 0)
             B == {Cardinality(r) : r \in {t \in SUBSET S : ~IsSum(t)}}
  <2> SUFFICES ASSUME ~IsSum(s) PROVE FALSE
    OBVIOUS
  <2>1. B \in SUBSET Nat /\ B # {}
    BY <1>3
  <2>2. PICK n \in B : \A k \in B : n <= k
    <3> HIDE DEF B
    <3> QED BY <2>1, Least
  <2>3. PICK r \in SUBSET S : ~IsSum(r) /\ Cardinality(r) = n
    BY <2>2
  <2>4. r # {}
    BY <1>5, <2>3
  <2> DEFINE p == pick(r)
             q == r \ {p}
  <2>5. p \in r /\ q \in SUBSET S /\ Cardinality(q) < n
    <3> HIDE DEF pick, IsSum
    <3> QED BY <1>2, <2>3, <2>4
  <2>6. IsSum(q)
    <3> HIDE DEF IsSum, q
    <3>1. Cardinality(q) \in Nat /\ n \in Nat
      BY <2>1, <2>5, <1>3
    <3> QED BY <2>2, <2>5, <3>1
  <2>7. total[r] = f[p] + total[q]
    BY <1>5, <2>4
  <2>8. f[p] \in Nat
    BY <2>5
  <2> HIDE DEF p
  <2>9. IsSum(r)
    BY <2>5, <2>6, <2>7, <2>8
  <2> QED BY <2>3, <2>9
<1> QED BY <1>1, <1>6

\* MIN of some times is NULL only of none, and else the earliest.
LEMMA EarliestIsLeast ==
    ASSUME NEW times \in SUBSET Nat
    PROVE  /\ Earliest(times) = NULL <=> times = {}
           /\ times # {} => Earliest(times) \in times /\ \A t \in times : Earliest(times) <= t
<1>1. CASE times = {}
  BY <1>1 DEF Earliest
<1>2. CASE times # {}
  <2>1. \E n \in times : \A m \in times : n <= m
    BY <1>2, Least
  <2>2. Min(times) \in times /\ \A m \in times : Min(times) <= m
    BY <2>1 DEF Min
  <2>3. Earliest(times) = Min(times)
    BY <1>2 DEF Earliest
  <2>4. NULL # Min(times)
    <3>1. PICK least \in times : least = Min(times)
      BY <2>2
    <3>2. least \in Int
      BY SMT
    <3> QED BY <3>1, <3>2, NullAssumption
  <2> QED BY <1>2, <2>2, <2>3, <2>4
<1> QED BY <1>1, <1>2

-----------------------------------------------------------------------------
(* What a snapshot says of one consumer.                                   *)

\* What the fields are computed from is finite, and lies in the log.
LEMMA Parts ==
    ASSUME Inv, NEW c \in DOMAIN consumers, NEW now \in Nat
    PROVE  /\ DOMAIN deliveries[c] \union Unscanned(c) \subseteq DOMAIN messages
           /\ Visible(c, now) \subseteq DOMAIN deliveries[c]
           /\ IsFiniteSet(DOMAIN deliveries[c]) /\ IsFiniteSet(Unscanned(c))
           /\ IsFiniteSet(DOMAIN archives[c])
           /\ Cardinality(DOMAIN deliveries[c]) \in Nat /\ Cardinality(Unscanned(c)) \in Nat
           /\ Cardinality(DOMAIN archives[c]) \in Nat
           /\ IsFiniteSet(Visible(c, now)) /\ Cardinality(Visible(c, now)) \in Nat
<1>1. Visible(c, now) \subseteq DOMAIN deliveries[c]
  BY DEF Visible
<1>2. Unscanned(c) \subseteq DOMAIN messages
  BY DEF Unscanned
<1>3. DOMAIN deliveries[c] \subseteq DOMAIN messages
  BY DEF Inv, MessagesAreReferenced
<1> QED BY <1>1, <1>2, <1>3, MessagesFinite, DeliveriesFinite DEF Inv

\* What is ready at a time is all of the deliveries when none is due later, and more is
\* ready at the next time at which one is.
LEMMA ReadinessGrows ==
    ASSUME Inv, NEW c \in DOMAIN consumers, NEW now \in Nat
    PROVE  /\ SnapshotReady(c, now) < SnapshotOutstanding(c) <=> NextReadyAt(c, now) # NULL
           /\ NextReadyAt(c, now) # NULL =>
                SnapshotReady(c, NextReadyAt(c, now)) > SnapshotReady(c, now)
<1> DEFINE D == DOMAIN deliveries[c]
           later == {m \in D : deliveries[c][m].visible_at > now}
           times == {deliveries[c][m].visible_at : m \in later}
<1>1. \A m \in D : deliveries[c][m].visible_at \in Nat
  BY RowTypes DEF Inv
<1>2. times \in SUBSET Nat
  BY <1>1
<1>3. NextReadyAt(c, now) = Earliest(times)
  BY DEF NextReadyAt
<1>4. NextReadyAt(c, now) # NULL <=> later # {}
  BY <1>2, <1>3, EarliestIsLeast
<1>5. later # {} <=> Visible(c, now) # D
  BY <1>1 DEF Visible
<1>6. Visible(c, now) # D <=> Cardinality(Visible(c, now)) < Cardinality(D)
  <2>1. IsFiniteSet(D) /\ Visible(c, now) \in SUBSET D
    BY Parts
  <2>2. /\ Cardinality(Visible(c, now)) <= Cardinality(D)
        /\ Cardinality(Visible(c, now)) = Cardinality(D) => Visible(c, now) = D
    BY <2>1, FS_Subset
  <2> QED BY <2>2, Parts
<1>7. SnapshotReady(c, now) < SnapshotOutstanding(c) <=> NextReadyAt(c, now) # NULL
  BY <1>4, <1>5, <1>6, Parts DEF SnapshotReady, SnapshotOutstanding
<1>8. ASSUME NextReadyAt(c, now) # NULL
      PROVE  SnapshotReady(c, NextReadyAt(c, now)) > SnapshotReady(c, now)
  <2> DEFINE next == NextReadyAt(c, now)
  <2>1. next \in times /\ next \in Nat
    BY <1>2, <1>3, <1>4, <1>8, EarliestIsLeast
  <2>2. PICK m \in later : deliveries[c][m].visible_at = next
    BY <2>1
  <2> HIDE DEF next
  <2>3. m \in Visible(c, next) /\ m \notin Visible(c, now)
    BY <1>1, <2>1, <2>2 DEF Visible
  <2>4. Visible(c, now) \subseteq Visible(c, next)
    BY <1>1, <2>1, <2>2 DEF Visible
  <2>5. IsFiniteSet(Visible(c, next)) /\ Cardinality(Visible(c, next)) \in Nat
    BY <2>1, Parts
  <2>6. /\ Cardinality(Visible(c, now)) <= Cardinality(Visible(c, next))
        /\ Cardinality(Visible(c, now)) = Cardinality(Visible(c, next)) =>
             Visible(c, now) = Visible(c, next)
    BY <2>4, <2>5, FS_Subset
  <2>7. Cardinality(Visible(c, now)) < Cardinality(Visible(c, next))
    BY <2>3, <2>5, <2>6, Parts
  <2>8. SnapshotReady(c, next) > SnapshotReady(c, now)
    BY <2>5, <2>7, Parts DEF SnapshotReady
  <2> QED BY <2>8 DEF next
<1> QED BY <1>7, <1>8

\* Something is outstanding when there is an oldest message of it.
LEMMA OldestIsOutstanding ==
    ASSUME Inv, NEW c \in DOMAIN consumers
    PROVE  SnapshotOutstanding(c) > 0 <=> OldestOutstandingAt(c) # NULL
<1> DEFINE D == DOMAIN deliveries[c]
           all == (D \intersect DOMAIN messages) \union Unscanned(c)
           times == {messages[m].published_at : m \in all}
<1>1. all = D \union Unscanned(c) /\ all \subseteq DOMAIN messages
  BY Parts
<1>2. times \in SUBSET Nat
  BY <1>1 DEF Inv, TypeOK, Message
<1>3. OldestOutstandingAt(c) # NULL <=> all # {}
  <2>1. OldestOutstandingAt(c) = Earliest(times)
    BY DEF OldestOutstandingAt
  <2>2. all # {} <=> times # {}
    OBVIOUS
  <2> HIDE DEF times
  <2> QED BY <1>2, <2>1, <2>2, EarliestIsLeast
<1>4. /\ D = {} <=> Cardinality(D) = 0
      /\ Unscanned(c) = {} <=> Cardinality(Unscanned(c)) = 0
  BY Parts, FS_EmptySet
<1>5. SnapshotOutstanding(c) > 0 <=> D # {} \/ Unscanned(c) # {}
  BY <1>4, Parts DEF SnapshotOutstanding
<1> QED BY <1>1, <1>3, <1>5

\* Schedules computed from the fields of a snapshot are right whatever was claimed, nacked,
\* redriven or pruned before.
THEOREM SnapshotFields == Spec => []SnapshotsAgree
<1>1. Inv => SnapshotsAgree
  <2> SUFFICES ASSUME Inv, NEW c \in DOMAIN consumers, NEW now \in Now
               PROVE  LET s == Snapshot(c, now)
                      IN  /\ s.ready < s.outstanding <=> s.next_ready_at # NULL
                          /\ s.next_ready_at # NULL =>
                               Snapshot(c, s.next_ready_at).ready > s.ready
                          /\ s.outstanding > 0 <=> s.oldest_outstanding_at # NULL
    BY DEF SnapshotsAgree
  <2>1. now \in Nat
    BY NowTypes DEF Inv
  <2> QED BY <2>1, ReadinessGrows, OldestIsOutstanding DEF Snapshot
<1> QED BY <1>1, Invariance, PTL

-----------------------------------------------------------------------------
(* What operators decide from snapshots.                                   *)

\* The read query of a snapshot and the count under the lock of delete_consumer, which are
\* written differently, agree on what is drained.
THEOREM DrainedDeletes == Spec => DrainedSnapshotsDelete
<1>1. Inv /\ [Next]_vars =>
        [\A c \in DOMAIN consumers :
           LET s == Snapshot(c, clock)
           IN  DeleteConsumer(c, "DrainedOnly") <=>
                 IsDrained(s) /\ s.archived = 0 /\ DeleteConsumer(c, "DiscardAll")]_vars
  <2> SUFFICES ASSUME Inv, NEW c \in DOMAIN consumers
               PROVE  LET s == Snapshot(c, clock)
                      IN  DeleteConsumer(c, "DrainedOnly") <=>
                            IsDrained(s) /\ s.archived = 0 /\ DeleteConsumer(c, "DiscardAll")
    OBVIOUS
  <2>1. Unscanned(c) = Pending(c)
    BY UnscannedIsPending DEF Inv
  <2> QED BY <2>1 DEF DeleteConsumer, Snapshot, IsDrained, SnapshotOutstanding
<1> QED BY <1>1, Invariance, PTL DEF DrainedSnapshotsDelete, Spec

\* The times of messages are read before they are stored.
LEMMA PastInvariance == Spec => []PublishedInThePast
<1>1. Init => PublishedInThePast
  BY DEF Init, Nothing, PublishedInThePast
<1>2. Inv /\ PublishedInThePast /\ [Next]_vars => PublishedInThePast'
  <2> SUFFICES ASSUME Inv, PublishedInThePast, [Next]_vars, NEW m \in DOMAIN messages'
               PROVE  messages'[m].published_at <= clock'
    BY DEF PublishedInThePast
  <2> USE DEF Inv
  <2>1. clock \in Nat /\ \A n \in DOMAIN messages : messages[n].published_at \in Nat
    BY DEF TypeOK, Message
  <2>2. CASE m \in DOMAIN messages /\ messages'[m] = messages[m] /\ clock' \in {clock, clock + 1}
    BY <2>1, <2>2 DEF PublishedInThePast
  <2>3. CASE UNCHANGED vars
    BY <2>2, <2>3 DEF vars
  <2>4. CASE Tick
    BY <2>2, <2>4 DEF Tick
  <2>5. CASE Open
    BY <2>2, <2>5 DEF Open, OpenConsumer
  <2>6. CASE PublishBatch
    <3>1. PICK batch \in Batches, now \in Now : Publish(batch, now)
      BY <2>6 DEF PublishBatch
    <3>2. now \in Nat /\ now <= clock
      BY NowTypes
    <3>3. clock' = clock
      BY <3>1 DEF Publish
    <3>4. \/ m \in DOMAIN messages /\ messages'[m] = messages[m]
          \/ messages'[m].published_at = now
      BY <3>1 DEF Publish
    <3> QED BY <2>2, <3>2, <3>3, <3>4
  <2>7. CASE PruneMessages
    BY <2>2, <2>7 DEF PruneMessages, Prune, Without
  <2>8. ASSUME NEW c \in DOMAIN consumers, ConsumerStep(c)
        PROVE  messages' = messages /\ clock' = clock
    BY <2>8 DEF ConsumerStep, BeginDraining, Poll, Claim, Acknowledge, AckBatch, Release,
       NackBatch, Extend, ExtendVisibilityBatch, Archive, ArchiveBatch, Redrive, RedriveBatch,
       Purge, PurgeArchives, Delete, DeleteConsumer
  <2> QED BY <2>2, <2>3, <2>4, <2>5, <2>6, <2>7, <2>8 DEF Next
<1> QED BY <1>1, <1>2, Invariance, PTL DEF Spec

\* When the totals of a store are zero, retention may empty it.
THEOREM QuietMeansPrunable == Spec => []QuietStoreIsPrunable
<1>1. Inv /\ PublishedInThePast => QuietStoreIsPrunable
  <2> SUFFICES ASSUME Inv, PublishedInThePast,
                      StoreSnapshot(clock).outstanding_deliveries = 0,
                      StoreSnapshot(clock).archived_deliveries = 0
               PROVE  Cardinality(Prunable(clock + 1)) = StoreSnapshot(clock).retained_messages
    BY DEF QuietStoreIsPrunable
  <2> DEFINE f == [c \in DOMAIN consumers |-> SnapshotOutstanding(c)]
             g == [c \in DOMAIN consumers |-> Cardinality(DOMAIN archives[c])]
  <2>1. SumFunction(f) = 0 /\ SumFunction(g) = 0
    BY DEF StoreSnapshot, Snapshot
  <2>2. IsFiniteSet(DOMAIN consumers)
    <3>1. consumer_seq \in Int /\ DOMAIN consumers \subseteq 1 .. consumer_seq
      BY DEF Inv, TypeOK
    <3>2. IsFiniteSet(1 .. consumer_seq)
      BY <3>1, FS_Interval
    <3> QED BY <3>1, <3>2, FS_Subset
  <2>3. \A c \in DOMAIN consumers :
          SnapshotOutstanding(c) \in Nat /\ Cardinality(DOMAIN archives[c]) \in Nat
    <3>1. clock \in Nat
      BY DEF Inv, TypeOK
    <3> QED BY <3>1, Parts DEF SnapshotOutstanding
  <2>4. \A c \in DOMAIN consumers :
          SnapshotOutstanding(c) = 0 /\ Cardinality(DOMAIN archives[c]) = 0
    <3>1. f \in [DOMAIN f -> Nat] /\ IsFiniteSet(DOMAIN f)
      BY <2>2, <2>3
    <3>2. g \in [DOMAIN g -> Nat] /\ IsFiniteSet(DOMAIN g)
      BY <2>2, <2>3
    <3>3. \A x \in DOMAIN f : f[x] = 0
      <4> HIDE DEF f
      <4> QED BY <2>1, <3>1, SumIsZero
    <3>4. \A x \in DOMAIN g : g[x] = 0
      <4> HIDE DEF g
      <4> QED BY <2>1, <3>2, SumIsZero
    <3> QED BY <3>3, <3>4
  <2>5. ASSUME NEW c \in DOMAIN consumers
        PROVE  DOMAIN deliveries[c] = {} /\ DOMAIN archives[c] = {} /\ Pending(c) = {}
    <3>1. clock \in Nat
      BY DEF Inv, TypeOK
    <3>2. Cardinality(DOMAIN deliveries[c]) = 0 /\ Cardinality(Unscanned(c)) = 0
          /\ Cardinality(DOMAIN archives[c]) = 0
      BY <2>4, <3>1, Parts DEF SnapshotOutstanding
    <3>3. DOMAIN deliveries[c] = {} /\ Unscanned(c) = {} /\ DOMAIN archives[c] = {}
      BY <3>1, <3>2, Parts, FS_EmptySet
    <3> QED BY <3>3, UnscannedIsPending DEF Inv
  <2>6. \A m \in DOMAIN messages : messages[m].published_at < clock + 1
    BY DEF Inv, TypeOK, Message, PublishedInThePast
  <2>7. Prunable(clock + 1) = DOMAIN messages
    BY <2>5, <2>6 DEF Prunable
  <2> QED BY <2>7 DEF StoreSnapshot
<1> QED BY <1>1, PastInvariance, Invariance, PTL
=============================================================================
