-------------------------- MODULE Publishing_proofs --------------------------
(* What TLAPS proves of Publishing, for every value of its constants.      *)
EXTENDS Publishing, FiniteSetTheorems, SequenceTheorems, WellFoundedInduction, TLAPS

\* Times that were read or recorded are not ahead of the clock.
TimesArePast ==
    /\ \A p \in DOMAIN calls : calls[p].published_at <= clock
    /\ \A m \in DOMAIN publications : publications[m].committed <= clock

Inv == TypeOK /\ TimesArePast /\ LedgerIsExact /\ KeysAreSuppressed /\ AnswersAreTrue

-----------------------------------------------------------------------------
(* Positions in a batch and the ids they get.                              *)

\* A set of positions that is not empty has a first one.
LEMMA FirstPosition ==
    ASSUME NEW S \in SUBSET Nat, S # {}
    PROVE  \E i \in S : \A j \in S : i <= j
<1>1. PICK i \in S : \A j \in S : ~ (<<j, i>> \in OpToRel(<, Nat))
  BY NatLessThanWellFounded, WFMin
<1>2. \A j \in S : ~ (j < i)
  BY <1>1 DEF OpToRel
<1> QED BY <1>2

\* The rank of a position among some: each has one of its own, and they are 1, 2, ...
LEMMA Ranks ==
    ASSUME NEW n \in Nat, NEW S \in SUBSET (1 .. n),
           NEW rank, rank = [i \in S |-> Cardinality({j \in S : j <= i})]
    PROVE  /\ IsFiniteSet(S) /\ Cardinality(S) \in Nat /\ Cardinality(S) <= n
           /\ rank \in [S -> 1 .. Cardinality(S)]
           /\ \A i, j \in S : i < j => rank[i] < rank[j]
           /\ \A v \in 1 .. Cardinality(S) : \E i \in S : rank[i] = v
<1> DEFINE Below(i) == {j \in S : j <= i}
<1>1. IsFiniteSet(1 .. n) /\ Cardinality(1 .. n) = n
  BY FS_Interval
<1>2. IsFiniteSet(S) /\ Cardinality(S) \in Nat /\ Cardinality(S) <= n
  BY <1>1, FS_Subset, FS_CardinalityType
<1>3. ASSUME NEW i \in S
      PROVE  /\ IsFiniteSet(Below(i)) /\ i \in Below(i)
             /\ Cardinality(Below(i)) \in 1 .. Cardinality(S)
  <2>1. Below(i) \in SUBSET S /\ i \in Below(i)
    OBVIOUS
  <2>2. /\ IsFiniteSet(Below(i)) /\ Cardinality(Below(i)) \in Nat
        /\ Cardinality(Below(i)) <= Cardinality(S)
    BY <1>2, <2>1, FS_Subset, FS_CardinalityType
  <2>3. Cardinality(Below(i)) # 0
    BY <2>1, <2>2, FS_EmptySet
  <2> QED BY <1>2, <2>1, <2>2, <2>3
<1>4. ASSUME NEW i \in S, NEW j \in S, i < j
      PROVE  Cardinality(Below(i)) < Cardinality(Below(j))
  <2>1. Below(i) \in SUBSET Below(j) /\ j \in Below(j) /\ j \notin Below(i)
    <3>1. i \in Int /\ j \in Int /\ \A x \in S : x \in Int
      OBVIOUS
    <3>2. \A x \in S : x <= i => x <= j
      BY <1>4, <3>1
    <3>3. ~ (j <= i)
      BY <1>4, <3>1
    <3>4. Below(i) \subseteq Below(j)
      BY <3>2
    <3>5. j \in Below(j)
      BY <3>1
    <3>6. j \notin Below(i)
      BY <3>3
    <3> QED BY <3>4, <3>5, <3>6
  <2>2. /\ Cardinality(Below(i)) <= Cardinality(Below(j))
        /\ Cardinality(Below(j)) = Cardinality(Below(i)) => Below(j) = Below(i)
    BY <1>3, <2>1, FS_Subset
  <2>3. Cardinality(Below(i)) \in Nat /\ Cardinality(Below(j)) \in Nat
    BY <1>3, FS_CardinalityType
  <2> QED BY <2>1, <2>2, <2>3
<1>5. rank \in [S -> 1 .. Cardinality(S)] /\ \A i, j \in S : i < j => rank[i] < rank[j]
  BY <1>3, <1>4
<1>6. rank \in Injection(S, 1 .. Cardinality(S))
  <2>1. \A i, j \in S : rank[i] = rank[j] => i = j
    <3> SUFFICES ASSUME NEW i \in S, NEW j \in S, i # j PROVE rank[i] # rank[j]
      OBVIOUS
    <3>1. i < j \/ j < i
      OBVIOUS
    <3>2. rank[i] \in Nat /\ rank[j] \in Nat
      BY <1>2, <1>5
    <3> QED BY <1>5, <3>1, <3>2
  <2> QED BY <1>5, <2>1 DEF Injection, IsInjective
<1>7. IsFiniteSet(1 .. Cardinality(S)) /\ Cardinality(1 .. Cardinality(S)) = Cardinality(S)
  BY <1>2, FS_Interval
<1>8. rank \in Surjection(S, 1 .. Cardinality(S))
  BY <1>6, <1>7, FS_Injection
<1> QED BY <1>2, <1>5, <1>8 DEF Surjection

\* The ids that positions get follow the counter of the table without a gap, in the order
\* of the positions.
LEMMA AssignedIds ==
    ASSUME message_seq \in Nat, NEW n \in Nat, NEW S \in SUBSET (1 .. n),
           NEW ids, ids = Assigned(S)
    PROVE  /\ DOMAIN ids = S
           /\ Cardinality(S) \in Nat
           /\ Range(ids) = message_seq + 1 .. message_seq + Cardinality(S)
           /\ \A i \in S : ids[i] \in message_seq + 1 .. message_seq + Cardinality(S)
           /\ \A i, j \in S : ids[i] = ids[j] => i = j
<1> DEFINE rank == [i \in S |-> Cardinality({j \in S : j <= i})]
<1>1. rank = [i \in S |-> Cardinality({j \in S : j <= i})]
  OBVIOUS
<1>2. ids = [i \in S |-> message_seq + rank[i]]
  BY DEF Assigned
<1> HIDE DEF rank
<1>3. /\ Cardinality(S) \in Nat
      /\ rank \in [S -> 1 .. Cardinality(S)]
      /\ \A i, j \in S : i < j => rank[i] < rank[j]
      /\ \A v \in 1 .. Cardinality(S) : \E i \in S : rank[i] = v
  BY <1>1, Ranks
<1>4. \A i \in S : ids[i] \in message_seq + 1 .. message_seq + Cardinality(S)
  BY <1>3, <1>2
<1>5. ASSUME NEW m \in message_seq + 1 .. message_seq + Cardinality(S)
      PROVE  \E i \in S : ids[i] = m
  <2>1. m - message_seq \in 1 .. Cardinality(S)
    BY <1>3
  <2>2. PICK i \in S : rank[i] = m - message_seq
    BY <1>3, <2>1
  <2> QED BY <1>2, <2>2
<1>6. Range(ids) = message_seq + 1 .. message_seq + Cardinality(S)
  BY <1>2, <1>4, <1>5 DEF Range
<1>7. ASSUME NEW i \in S, NEW j \in S, ids[i] = ids[j] PROVE i = j
  <2>1. i \in Int /\ j \in Int /\ rank[i] \in Int /\ rank[j] \in Int /\ rank[i] = rank[j]
    BY <1>3, <1>2, <1>7
  <2> QED BY <1>3, <2>1
<1> QED BY <1>3, <1>2, <1>4, <1>6, <1>7
-----------------------------------------------------------------------------
(* The statements of the transaction.                                      *)

\* A batch is a sequence of requests, and positions in it are numbers.
LEMMA BatchType ==
    ASSUME NEW batch \in Batches
    PROVE  \E n \in Nat : DOMAIN batch = 1 .. n /\ batch \in [1 .. n -> Requests]
BY ConfigAssumption DEF Batches, ValidConfig

\* The positions S of the batch are new in the log, under these ids, which are above all
\* others; what was there is unchanged.
Appended(call, batch, S, ids) ==
    /\ message_seq' \in Nat /\ messages' \subseteq 1 .. message_seq'
    /\ publications' \in [1 .. message_seq' -> Publication]
    /\ DOMAIN publications \subseteq DOMAIN publications'
    /\ \A m \in DOMAIN publications : publications'[m] = publications[m]
    /\ \A m \in DOMAIN publications' : m \in DOMAIN publications \/ \E i \in S : ids[i] = m
    /\ DOMAIN ids = S
    /\ \A i \in S : ids[i] \in DOMAIN publications' /\ ids[i] \notin DOMAIN publications
    /\ \A i \in S : \A m \in DOMAIN publications : m < ids[i]
    /\ \A i, j \in S : ids[i] = ids[j] => i = j
    /\ \A i \in S :
         /\ publications'[ids[i]].key = batch[i].key
         /\ publications'[ids[i]].body = batch[i].body
         /\ publications'[ids[i]].at = call.published_at
         /\ publications'[ids[i]].until = call.expires_at
         /\ publications'[ids[i]].committed = clock

\* INSERT puts each position in the log under the id it was given, and changes nothing that
\* was there.
LEMMA InsertAppends ==
    ASSUME TypeOK, NEW call \in Call, NEW batch \in Batches,
           NEW S \in SUBSET DOMAIN batch, NEW ids, ids = Assigned(S),
           Insert(call, batch, ids)
    PROVE  Appended(call, batch, S, ids)
<1>1. PICK n \in Nat : DOMAIN batch = 1 .. n /\ batch \in [1 .. n -> Requests]
  BY BatchType
<1>2. message_seq \in Nat /\ messages \subseteq 1 .. message_seq
      /\ publications \in [1 .. message_seq -> Publication] /\ clock \in Nat
  BY DEF TypeOK
<1>3. /\ DOMAIN ids = S
      /\ Cardinality(S) \in Nat
      /\ Range(ids) = message_seq + 1 .. message_seq + Cardinality(S)
      /\ \A i \in S : ids[i] \in message_seq + 1 .. message_seq + Cardinality(S)
      /\ \A i, j \in S : ids[i] = ids[j] => i = j
  <2>1. S \in SUBSET (1 .. n)
    BY <1>1
  <2>2. message_seq \in Nat
    BY <1>2
  <2> QED BY <2>1, <2>2, AssignedIds, Zenon
<1>4. message_seq' = message_seq + Cardinality(S) /\ messages' = messages \union Range(ids)
  BY <1>3 DEF Insert
<1>5. /\ message_seq' \in Nat /\ message_seq <= message_seq'
      /\ messages' \subseteq 1 .. message_seq'
      /\ 1 .. message_seq' = (1 .. message_seq) \union Range(ids)
  <2>1. message_seq' \in Nat /\ message_seq <= message_seq'
    BY <1>2, <1>3, <1>4
  <2>2. 1 .. message_seq' = (1 .. message_seq) \union (message_seq + 1 .. message_seq')
    BY <1>2, <2>1
  <2> QED BY <1>2, <1>3, <1>4, <2>1, <2>2
<1> DEFINE row(i) == [key |-> batch[i].key, body |-> batch[i].body,
                      at |-> call.published_at, until |-> call.expires_at,
                      committed |-> clock]
<1>6. publications' = [m \in 1 .. message_seq' |->
                         IF m \in Range(ids) THEN row(CHOOSE j \in S : ids[j] = m)
                         ELSE publications[m]]
  <2>1. DOMAIN publications = 1 .. message_seq
    BY <1>2
  <2> QED BY <1>3, <1>5, <2>1 DEF Insert
<1>7. \A i \in S : row(i) \in Publication
  <2>1. \A i \in S : batch[i] \in Requests
    BY <1>1
  <2> QED BY <1>2, <2>1 DEF Requests, Publication, Call
<1>8. ASSUME NEW i \in S
      PROVE  /\ ids[i] \in message_seq + 1 .. message_seq'
             /\ publications'[ids[i]] = row(i)
  <2>1. (CHOOSE j \in S : ids[j] = ids[i]) = i
    BY <1>3
  <2>2. ids[i] \in message_seq + 1 .. message_seq' /\ ids[i] \in Range(ids)
    BY <1>3, <1>4
  <2>3. ids[i] \in 1 .. message_seq'
    BY <1>2, <2>2
  <2> HIDE DEF row
  <2> QED BY <1>6, <2>1, <2>2, <2>3
<1>9. \A m \in message_seq + 1 .. message_seq' : \E i \in S : ids[i] = m
  BY <1>3, <1>4 DEF Range
<1>10. \A m \in 1 .. message_seq : m \in 1 .. message_seq' /\ m \notin Range(ids)
  BY <1>2, <1>3, <1>5
<1>11. \A m \in 1 .. message_seq : publications'[m] = publications[m]
  BY <1>6, <1>10
<1>12. publications' \in [1 .. message_seq' -> Publication]
  <2>1. ASSUME NEW m \in 1 .. message_seq' PROVE publications'[m] \in Publication
    <3>1. CASE m \in 1 .. message_seq
      BY <1>2, <1>11, <3>1
    <3>2. CASE m \notin 1 .. message_seq
      <4>1. m \in message_seq + 1 .. message_seq'
        BY <1>2, <1>5, <3>2
      <4>2. PICK i \in S : ids[i] = m
        BY <1>9, <4>1
      <4> HIDE DEF row
      <4> QED BY <1>7, <1>8, <4>2
    <3> QED BY <3>1, <3>2
  <2> HIDE DEF row
  <2> QED BY <1>6, <2>1
<1>13. \A m \in DOMAIN publications' : m \in DOMAIN publications \/ \E i \in S : ids[i] = m
  BY <1>2, <1>3, <1>5, <1>12 DEF Range
<1>14. \A i \in S : /\ ids[i] \in DOMAIN publications' /\ ids[i] \notin DOMAIN publications
                     /\ \A m \in DOMAIN publications : m < ids[i]
  <2> TAKE i \in S
  <2>1. ids[i] \in Int /\ message_seq < ids[i] /\ ids[i] \in 1 .. message_seq'
    <3>1. ids[i] \in message_seq + 1 .. message_seq'
      BY <1>8
    <3>2. message_seq \in Nat /\ message_seq' \in Nat
      BY <1>2, <1>5
    <3> QED BY <3>1, <3>2
  <2>2. \A m \in 1 .. message_seq : m < ids[i]
    BY <1>2, <2>1
  <2> QED BY <1>2, <1>12, <2>1, <2>2
<1>15. \A i \in S : /\ publications'[ids[i]].key = batch[i].key
                     /\ publications'[ids[i]].body = batch[i].body
                     /\ publications'[ids[i]].at = call.published_at
                     /\ publications'[ids[i]].until = call.expires_at
                     /\ publications'[ids[i]].committed = clock
  <2> TAKE i \in S
  <2>1. /\ row(i).key = batch[i].key /\ row(i).body = batch[i].body
        /\ row(i).at = call.published_at /\ row(i).until = call.expires_at
        /\ row(i).committed = clock
    OBVIOUS
  <2>2. publications'[ids[i]] = row(i)
    BY <1>8
  <2> HIDE DEF row
  <2> QED BY <2>1, <2>2
<1> HIDE DEF row
<1> QED BY <1>2, <1>3, <1>5, <1>11, <1>12, <1>13, <1>14, <1>15 DEF Appended

\* What each statement of a transaction with keys computes.
Statements(call, batch, kept, rows, S, ids, filled) ==
    /\ kept = DOMAIN Purged(call.published_at)
    /\ rows = Claimed(Purged(call.published_at), batch, call.expires_at)
    /\ S = ToPublish(rows, batch)
    /\ ids = Assigned(S)
    /\ filled = Filled(rows, batch, ids)

\* Entries whose window is not over are as they were, and their keys are not published;
\* every other key of the batch is published once, and its entry is new.
LedgerRenewed(call, batch, kept, S, ids, filled) ==
    /\ S \in SUBSET DOMAIN batch
    /\ KeysOf(batch) \subseteq Keys
    /\ kept = {k \in DOMAIN ledger : ledger[k].expires_at > call.published_at}
    /\ filled = [k \in kept \union KeysOf(batch) |-> filled[k]]
    /\ \A k \in kept : filled[k] = ledger[k] /\ \A i \in S : batch[i].key # k
    /\ \A k \in KeysOf(batch) \ kept : \E i \in S :
         /\ batch[i].key = k
         /\ filled[k] = [message_id |-> ids[i], expires_at |-> call.expires_at]
         /\ \A j \in S : batch[j].key = k => j = i

\* That is what the statements leave in the ledger.
LEMMA LedgerStatements ==
    ASSUME TypeOK, NEW call \in Call, NEW batch \in Batches,
           NEW kept, NEW rows, NEW S, NEW ids, NEW filled,
           Statements(call, batch, kept, rows, S, ids, filled)
    PROVE  LedgerRenewed(call, batch, kept, S, ids, filled)
<1>1. PICK n \in Nat : DOMAIN batch = 1 .. n /\ batch \in [1 .. n -> Requests]
  BY BatchType
<1>2. S \in SUBSET DOMAIN batch /\ DOMAIN ids = S
  BY DEF Statements, ToPublish, Assigned
<1>3. KeysOf(batch) \subseteq Keys
  BY <1>1 DEF KeysOf, Requests
<1>4. /\ kept = {k \in DOMAIN ledger : ledger[k].expires_at > call.published_at}
      /\ \A k \in kept : Purged(call.published_at)[k] = ledger[k]
  BY DEF Statements, Purged
<1>5. /\ DOMAIN rows = kept \union KeysOf(batch)
      /\ \A k \in kept : rows[k] = ledger[k]
      /\ \A k \in KeysOf(batch) \ kept :
           rows[k] = [message_id |-> NULL, expires_at |-> call.expires_at]
  BY <1>4 DEF Statements, Claimed
<1>6. filled = [k \in kept \union KeysOf(batch) |-> filled[k]]
  BY <1>5 DEF Statements, Filled
<1>7. ASSUME NEW k \in kept
      PROVE  filled[k] = ledger[k] /\ \A i \in S : batch[i].key # k
  <2>1. rows[k].message_id # NULL /\ k # NULL
    BY <1>4, <1>5, KeyAssumption DEF TypeOK, LedgerRow
  <2>2. \A i \in S : batch[i].key # k
    BY <2>1 DEF Statements, ToPublish
  <2> QED BY <1>2, <1>5, <2>2 DEF Statements, Filled
<1>8. ASSUME NEW k \in KeysOf(batch) \ kept
      PROVE  \E i \in S :
               /\ batch[i].key = k
               /\ filled[k] = [message_id |-> ids[i], expires_at |-> call.expires_at]
               /\ \A j \in S : batch[j].key = k => j = i
  <2>1. {i \in DOMAIN batch : batch[i].key = k} # {} /\ k # NULL
    BY DEF KeysOf
  <2>2. PICK i \in DOMAIN batch :
          batch[i].key = k /\ \A j \in DOMAIN batch : batch[j].key = k => i <= j
    <3>1. {i \in DOMAIN batch : batch[i].key = k} \in SUBSET Nat
      BY <1>1
    <3> QED BY <2>1, <3>1, FirstPosition
  <2>3. i \in S
    <3>1. \A j \in 1 .. i - 1 : batch[j].key # batch[i].key
      BY <1>1, <2>2
    <3> QED BY <1>5, <2>2, <3>1 DEF Statements, ToPublish
  <2>4. ASSUME NEW j \in S, batch[j].key = k PROVE j = i
    <3>1. i \in Nat /\ j \in Nat /\ i <= j /\ 1 <= i
      BY <1>1, <1>2, <2>2, <2>4
    <3>2. \A l \in 1 .. j - 1 : batch[l].key # batch[j].key
      BY <2>1, <2>4 DEF Statements, ToPublish
    <3>3. ~ (i < j)
      BY <2>2, <2>4, <3>1, <3>2
    <3> QED BY <3>1, <3>3
  <2>5. (CHOOSE j \in DOMAIN ids : batch[j].key = k) = i
    BY <1>2, <2>2, <2>3, <2>4
  <2>6. filled[k] = [message_id |-> ids[i], expires_at |-> call.expires_at]
    BY <1>2, <1>5, <2>2, <2>3, <2>5 DEF Statements, Filled
  <2> QED BY <2>2, <2>3, <2>4, <2>6
<1> QED BY <1>2, <1>3, <1>4, <1>6, <1>7, <1>8 DEF LedgerRenewed

-----------------------------------------------------------------------------
(* The steps.                                                              *)

\* A key that has no entry, or one that is purged by the time a call began with, has no
\* window left: the last one is that of the entry, and those before it were over when the
\* next was published.
LEMMA WindowsAreOver ==
    ASSUME Inv, NEW at \in Nat, at <= clock, NEW k \in Keys,
           k \in DOMAIN ledger => ledger[k].expires_at <= at,
           NEW m \in With(k)
    PROVE  publications[m].until <= clock
<1>1. /\ clock \in Nat /\ m \in DOMAIN publications /\ publications[m].key = k
      /\ publications \in [1 .. message_seq -> Publication] /\ message_seq \in Nat
      /\ publications[m].until \in Nat
  BY DEF Inv, TypeOK, With, Publication
<1>2. CASE k \notin DOMAIN ledger
  BY <1>1, <1>2 DEF Inv, LedgerIsExact
<1>3. CASE k \in DOMAIN ledger
  <2>1. /\ LastWith(k, ledger[k].message_id)
        /\ publications[ledger[k].message_id].until = ledger[k].expires_at
        /\ ledger[k].expires_at \in Nat
    BY <1>3 DEF Inv, LedgerIsExact, TypeOK, LedgerRow
  <2>2. CASE m = ledger[k].message_id
    BY <1>1, <1>3, <2>1, <2>2
  <2>3. CASE m # ledger[k].message_id
    <3> DEFINE l == ledger[k].message_id
    <3>1. l \in 1 .. message_seq /\ publications[l].key = k /\ m <= l
      BY <1>1, <2>1 DEF LastWith, With
    <3>2. m < l /\ k # NULL
      BY <1>1, <2>3, <3>1, KeyAssumption
    <3>3. publications[l].committed >= publications[m].until
      BY <1>1, <3>1, <3>2 DEF Inv, KeysAreSuppressed
    <3>4. publications[l].committed \in Nat /\ publications[l].committed <= clock
      BY <1>1, <3>1 DEF Inv, TimesArePast, Publication
    <3> QED BY <1>1, <3>3, <3>4
  <2> QED BY <2>2, <2>3
<1> QED BY <1>2, <1>3

\* What any commit does to the log keeps the times in the past.
LEMMA CommitKeepsTimes ==
    ASSUME TypeOK, TimesArePast, NEW p \in DOMAIN calls, NEW batch, NEW S, NEW ids,
           Appended(calls[p], batch, S, ids), calls' = Without(calls, p), clock' = clock
    PROVE  TimesArePast' /\ calls' \in [DOMAIN calls' -> Call] /\ DOMAIN calls' \subseteq Publishers
<1>1. /\ calls' = [q \in DOMAIN calls \ {p} |-> calls[q]]
      /\ calls \in [DOMAIN calls -> Call] /\ DOMAIN calls \subseteq Publishers
      /\ clock \in Nat
  BY DEF Without, TypeOK
<1>2. /\ calls' \in [DOMAIN calls' -> Call] /\ DOMAIN calls' \subseteq Publishers
      /\ \A q \in DOMAIN calls' : calls'[q].published_at <= clock'
  BY <1>1 DEF TimesArePast
<1>3. ASSUME NEW m \in DOMAIN publications' PROVE publications'[m].committed <= clock'
  <2>1. CASE m \in DOMAIN publications
    BY <2>1 DEF TimesArePast, Appended
  <2>2. CASE m \notin DOMAIN publications
    BY <1>1, <2>2 DEF Appended
  <2> QED BY <2>1, <2>2
<1> QED BY <1>2, <1>3 DEF TimesArePast

\* A transaction without keys leaves the ledger and its keys alone.
LEMMA CommitUnkeyedPreserves ==
    ASSUME Inv, NEW p \in Publishers, NEW batch \in Batches, CommitUnkeyed(p, batch)
    PROVE  Inv'
<1> DEFINE S == DOMAIN batch
           ids == Assigned(S)
<1>1. /\ p \in DOMAIN calls /\ KeysOf(batch) = {} /\ Insert(calls[p], batch, ids)
      /\ answered' = batch /\ outcomes' = Outcomes(ledger, batch, ids)
      /\ calls' = Without(calls, p) /\ UNCHANGED <<clock, ledger>>
  BY DEF CommitUnkeyed
<1>2. calls[p] \in Call /\ S \in SUBSET DOMAIN batch /\ ids = Assigned(S)
  BY <1>1 DEF Inv, TypeOK
<1> HIDE DEF S, ids
<1>3. Appended(calls[p], batch, S, ids)
  BY <1>1, <1>2, InsertAppends DEF Inv
<1>4. TimesArePast' /\ calls' \in [DOMAIN calls' -> Call] /\ DOMAIN calls' \subseteq Publishers
  BY <1>1, <1>3, CommitKeepsTimes DEF Inv
<1>5. TypeOK'
  BY <1>1, <1>3, <1>4 DEF Inv, TypeOK, Appended
<1>6. ASSUME NEW m \in DOMAIN publications', m \notin DOMAIN publications
      PROVE  publications'[m].key = NULL
  <2>1. PICK i \in S : ids[i] = m
    BY <1>3, <1>6 DEF Appended
  <2>2. batch[i].key = NULL
    BY <1>1 DEF KeysOf, S
  <2> QED BY <1>3, <2>1, <2>2 DEF Appended
<1>7. /\ DOMAIN publications \subseteq DOMAIN publications'
      /\ \A m \in DOMAIN publications : publications'[m] = publications[m]
  BY <1>3 DEF Appended
<1>8. \A k \in Keys : With(k)' = With(k)
  BY <1>6, <1>7, KeyAssumption DEF With
<1>9. LedgerIsExact'
  <2>1. \A k \in DOMAIN ledger : k \in Keys
    BY DEF Inv, TypeOK
  <2> QED BY <1>1, <1>7, <1>8, <2>1 DEF Inv, LedgerIsExact, LastWith, With
<1>10. KeysAreSuppressed'
  BY <1>6, <1>7 DEF Inv, KeysAreSuppressed
<1>11. AnswersAreTrue'
  <2> SUFFICES ASSUME NEW i \in S
               PROVE  /\ outcomes'[i].id \in DOMAIN publications'
                      /\ publications'[outcomes'[i].id].key = batch[i].key
                      /\ outcomes'[i].published =>
                           publications'[outcomes'[i].id].body = batch[i].body
                      /\ outcomes'[i].published =>
                           \A j \in S \ {i} :
                             outcomes'[j].published => outcomes'[j].id # outcomes'[i].id
    BY <1>1 DEF AnswersAreTrue, S
  <2>1. \A j \in S : outcomes'[j].id = ids[j] /\ outcomes'[j].published = TRUE
    BY <1>1, <1>3 DEF Outcomes, S, Appended
  <2> QED BY <1>3, <2>1 DEF Appended
<1> QED BY <1>4, <1>5, <1>9, <1>10, <1>11 DEF Inv

\* A transaction with keys publishes only those whose windows are over, and records it.
LEMMA CommitKeyedPreserves ==
    ASSUME Inv, NEW p \in Publishers, NEW batch \in Batches, CommitKeyed(p, batch)
    PROVE  Inv'
<1> DEFINE at == calls[p].published_at
           expires_at == calls[p].expires_at
           kept == DOMAIN Purged(at)
           rows == Claimed(Purged(at), batch, expires_at)
           S == ToPublish(rows, batch)
           ids == Assigned(S)
           filled == Filled(rows, batch, ids)
<1>1. /\ p \in DOMAIN calls /\ Insert(calls[p], batch, ids)
      /\ ledger' = filled
      /\ answered' = batch /\ outcomes' = Outcomes(filled, batch, ids)
      /\ calls' = Without(calls, p) /\ UNCHANGED clock
  BY DEF CommitKeyed
<1>2. /\ calls[p] \in Call /\ at \in Nat /\ expires_at \in Nat /\ at <= clock
      /\ ledger \in [DOMAIN ledger -> LedgerRow] /\ DOMAIN ledger \subseteq Keys
      /\ message_seq \in Nat /\ DOMAIN publications = 1 .. message_seq /\ clock \in Nat
      /\ publications \in [1 .. message_seq -> Publication]
  BY <1>1 DEF Inv, TypeOK, Call, TimesArePast
<1>3. \A i \in DOMAIN batch \ S : batch[i].key # NULL
  BY DEF ToPublish
<1>4. Statements(calls[p], batch, kept, rows, S, ids, filled) /\ ids = Assigned(S)
  BY DEF Statements
<1> HIDE DEF kept, rows, S, ids, filled
<1>5. /\ S \in SUBSET DOMAIN batch
      /\ KeysOf(batch) \subseteq Keys
      /\ kept = {k \in DOMAIN ledger : ledger[k].expires_at > at}
      /\ filled = [k \in kept \union KeysOf(batch) |-> filled[k]]
      /\ \A k \in kept : filled[k] = ledger[k] /\ \A i \in S : batch[i].key # k
      /\ \A k \in KeysOf(batch) \ kept : \E i \in S :
           /\ batch[i].key = k
           /\ filled[k] = [message_id |-> ids[i], expires_at |-> expires_at]
           /\ \A j \in S : batch[j].key = k => j = i
  <2>1. TypeOK /\ calls[p] \in Call
    BY <1>2 DEF Inv
  <2>2. LedgerRenewed(calls[p], batch, kept, S, ids, filled)
    BY <1>4, <2>1, LedgerStatements
  <2> QED BY <2>2 DEF LedgerRenewed
<1> HIDE DEF at, expires_at
<1>6. Appended(calls[p], batch, S, ids)
  BY <1>1, <1>2, <1>5, <1>4, InsertAppends DEF Inv
<1>7. TimesArePast' /\ calls' \in [DOMAIN calls' -> Call] /\ DOMAIN calls' \subseteq Publishers
  BY <1>1, <1>6, CommitKeepsTimes DEF Inv
<1>8. TypeOK'
  <2>1. ASSUME NEW k \in kept \union KeysOf(batch) PROVE filled[k] \in LedgerRow /\ k \in Keys
    <3>1. CASE k \in kept
      BY <1>2, <1>5, <3>1
    <3>2. CASE k \in KeysOf(batch) \ kept
      BY <1>2, <1>5, <1>6, <3>2 DEF LedgerRow, Appended
    <3> QED BY <3>1, <3>2
  <2>2. ledger' \in [DOMAIN ledger' -> LedgerRow] /\ DOMAIN ledger' \subseteq Keys
    BY <1>1, <1>5, <2>1
  <2> QED BY <1>1, <1>2, <1>6, <1>7, <2>2 DEF TypeOK, Appended
<1>9. /\ DOMAIN publications \subseteq DOMAIN publications'
      /\ \A m \in DOMAIN publications : publications'[m] = publications[m]
  BY <1>6 DEF Appended
<1>10. \A k \in Keys : With(k) \subseteq With(k)'
  BY <1>9 DEF With
<1>11. \A k \in Keys : \A m \in With(k)' \ With(k) :
         \E i \in S : ids[i] = m /\ batch[i].key = k /\ k \in KeysOf(batch) \ kept
  <2> TAKE k \in Keys
  <2> TAKE m \in With(k)' \ With(k)
  <2>1. m \in DOMAIN publications' \ DOMAIN publications /\ publications'[m].key = k
    BY <1>9 DEF With
  <2>2. PICK i \in S : ids[i] = m
    BY <1>6, <2>1 DEF Appended
  <2>3. batch[i].key = k /\ k # NULL
    BY <1>6, <2>1, <2>2, KeyAssumption DEF Appended
  <2> QED BY <1>5, <2>2, <2>3 DEF KeysOf
<1>12. \A k \in Keys \ kept : \A m \in With(k) : publications[m].until <= clock
  BY <1>2, <1>5, WindowsAreOver DEF LedgerRow
<1>13. LedgerIsExact'
  <2>1. ASSUME NEW k \in DOMAIN ledger'
        PROVE  /\ LastWith(k, ledger[k].message_id)'
               /\ publications'[ledger'[k].message_id].until = ledger'[k].expires_at
    <3>1. k \in kept \union KeysOf(batch) /\ k \in Keys
      BY <1>1, <1>2, <1>5
    <3>2. CASE k \in kept
      <4>1. With(k)' = With(k)
        BY <1>10, <1>11, <3>1, <3>2
      <4>2. ledger'[k] = ledger[k] /\ k \in DOMAIN ledger
        BY <1>1, <1>5, <3>2
      <4> QED BY <1>9, <4>1, <4>2 DEF Inv, LedgerIsExact, LastWith, With
    <3>3. CASE k \in KeysOf(batch) \ kept
      <4>1. PICK i \in S :
              /\ batch[i].key = k
              /\ filled[k] = [message_id |-> ids[i], expires_at |-> expires_at]
              /\ \A j \in S : batch[j].key = k => j = i
        BY <1>5, <3>3
      <4>2. ledger'[k].message_id = ids[i] /\ ledger'[k].expires_at = expires_at
        BY <1>1, <4>1
      <4>3. ids[i] \in With(k)' /\ publications'[ids[i]].until = expires_at
        BY <1>6, <4>1 DEF With, Appended, expires_at
      <4>4. ASSUME NEW m \in With(k)' PROVE m <= ids[i]
        <5>1. CASE m \in With(k)
          BY <1>2, <1>6, <4>1, <5>1 DEF With, Appended
        <5>2. CASE m \notin With(k)
          <6>1. PICK j \in S : ids[j] = m /\ batch[j].key = k
            BY <1>11, <3>1, <5>2
          <6>2. j = i
            BY <4>1, <6>1
          <6>3. m \in Int
            BY <1>6 DEF With, Appended
          <6> QED BY <6>1, <6>2, <6>3
        <5> QED BY <5>1, <5>2
      <4> QED BY <4>2, <4>3, <4>4 DEF LastWith
    <3> QED BY <3>1, <3>2, <3>3
  <2>2. ASSUME NEW k \in Keys, NEW m \in With(k)', publications'[m].until > clock'
        PROVE  k \in DOMAIN ledger'
    <3>1. CASE m \in With(k)
      <4>1. publications'[m] = publications[m] /\ publications[m].until \in Nat
        BY <1>2, <1>9, <3>1 DEF With, Publication
      <4>2. k \in kept
        BY <1>1, <1>2, <1>12, <2>2, <3>1, <4>1
      <4> QED BY <1>1, <1>5, <4>2
    <3>2. CASE m \notin With(k)
      BY <1>1, <1>5, <1>11, <3>2
    <3> QED BY <3>1, <3>2
  <2> QED BY <2>1, <2>2 DEF LedgerIsExact
<1>14. KeysAreSuppressed'
  <2> SUFFICES ASSUME NEW m \in DOMAIN publications', NEW n \in DOMAIN publications', m < n,
                      publications'[m].key = publications'[n].key,
                      publications'[m].key # NULL
               PROVE  publications'[n].committed >= publications'[m].until
    BY DEF KeysAreSuppressed
  <2>1. CASE n \in DOMAIN publications
    <3>1. m \in DOMAIN publications
      BY <1>2, <1>6, <2>1 DEF Appended
    <3> QED BY <1>9, <2>1, <3>1 DEF Inv, KeysAreSuppressed
  <2>2. CASE n \notin DOMAIN publications
    <3>0. PICK k \in Keys : k = publications'[n].key /\ k = publications'[m].key
      BY <1>6 DEF Publication, Appended
    <3>1. m \in With(k)' /\ n \in With(k)' \ With(k)
      BY <2>2, <3>0 DEF With
    <3>2. PICK i \in S : ids[i] = n /\ batch[i].key = k /\ k \in KeysOf(batch) \ kept
      BY <1>11, <3>1
    <3>3. m \in With(k)
      <4> SUFFICES ASSUME m \notin With(k) PROVE FALSE
        OBVIOUS
      <4>1. PICK j \in S : ids[j] = m /\ batch[j].key = k
        BY <1>6, <1>11, <3>1
      <4>2. j = i
        BY <1>5, <3>2, <4>1
      <4>3. m \in Int /\ n \in Int
        BY <1>6 DEF Appended
      <4> QED BY <3>2, <4>1, <4>2, <4>3
    <3>4. publications[m].until <= clock /\ publications'[m] = publications[m]
      BY <1>9, <1>12, <3>1, <3>2, <3>3 DEF With
    <3>5. publications'[n].committed = clock
      BY <1>6, <3>2 DEF Appended
    <3>6. publications[m].until \in Nat
      BY <1>2, <3>3 DEF With, Publication
    <3> QED BY <1>2, <3>4, <3>5, <3>6
  <2> QED BY <2>1, <2>2
<1>15. AnswersAreTrue'
  <2> SUFFICES ASSUME NEW i \in DOMAIN batch
               PROVE  /\ outcomes'[i].id \in DOMAIN publications'
                      /\ publications'[outcomes'[i].id].key = batch[i].key
                      /\ outcomes'[i].published =>
                           publications'[outcomes'[i].id].body = batch[i].body
                      /\ outcomes'[i].published =>
                           \A j \in DOMAIN batch \ {i} :
                             outcomes'[j].published => outcomes'[j].id # outcomes'[i].id
    BY <1>1 DEF AnswersAreTrue
  <2>1. \A j \in DOMAIN batch :
          /\ j \in S => outcomes'[j].id = ids[j] /\ outcomes'[j].published = TRUE
          /\ j \notin S => /\ outcomes'[j].id = filled[batch[j].key].message_id
                          /\ outcomes'[j].published = FALSE
    BY <1>1, <1>6 DEF Outcomes, Appended
  <2>2. CASE i \in S
    <3>1. outcomes'[i].id = ids[i]
      BY <2>1, <2>2
    <3>2. /\ outcomes'[i].id \in DOMAIN publications'
          /\ publications'[outcomes'[i].id].key = batch[i].key
          /\ publications'[outcomes'[i].id].body = batch[i].body
      BY <1>6, <2>2, <3>1 DEF Appended
    <3>3. ASSUME NEW j \in DOMAIN batch \ {i}, outcomes'[j].published
          PROVE  outcomes'[j].id # outcomes'[i].id
      BY <1>6, <2>1, <2>2, <3>1, <3>3 DEF Appended
    <3> QED BY <3>2, <3>3
  <2>3. CASE i \notin S
    <3> DEFINE k == batch[i].key
    <3>1. k \in KeysOf(batch) /\ k \in Keys /\ k \in DOMAIN ledger'
      BY <1>1, <1>5, <1>3, <2>3 DEF KeysOf
    <3>2. LastWith(k, ledger[k].message_id)'
      BY <1>13, <3>1 DEF LedgerIsExact
    <3>3. ledger'[k].message_id \in DOMAIN publications'
          /\ publications'[ledger'[k].message_id].key = k
      BY <3>2 DEF LastWith, With
    <3> QED BY <1>1, <2>1, <2>3, <3>3
  <2> QED BY <2>2, <2>3
<1> QED BY <1>7, <1>8, <1>13, <1>14, <1>15 DEF Inv

\* Everything but a commit leaves the log and the ledger alone.
LEMMA HistoryUnchanged ==
    ASSUME Inv, clock' \in Nat, clock <= clock', UNCHANGED <<message_seq, ledger, history>>,
           messages' \subseteq messages,
           calls' \in [DOMAIN calls' -> Call] /\ DOMAIN calls' \subseteq Publishers,
           \A q \in DOMAIN calls' : calls'[q].published_at <= clock'
    PROVE  Inv'
<1>1. UNCHANGED <<publications, answered, outcomes>>
  BY DEF history
<1>2. /\ clock \in Nat /\ message_seq \in Nat
      /\ publications \in [1 .. message_seq -> Publication]
  BY DEF Inv, TypeOK
<1>3. TypeOK'
  BY <1>1 DEF Inv, TypeOK
<1>4. ASSUME NEW m \in DOMAIN publications
      PROVE  /\ publications[m].committed \in Nat /\ publications[m].until \in Nat
             /\ publications[m].committed <= clock'
  BY <1>2 DEF Inv, TimesArePast, Publication
<1>5. TimesArePast'
  BY <1>1, <1>4 DEF TimesArePast
<1>6. LedgerIsExact'
  <2>1. \A k \in Keys : With(k)' = With(k)
    BY <1>1 DEF With
  <2>2. ASSUME NEW k \in Keys, NEW m \in With(k), publications[m].until > clock'
        PROVE  publications[m].until > clock
    BY <1>2, <1>4, <2>2 DEF With
  <2>3. DOMAIN ledger \subseteq Keys
    BY DEF Inv, TypeOK
  <2> QED BY <1>1, <2>1, <2>2, <2>3 DEF Inv, LedgerIsExact, LastWith
<1>7. KeysAreSuppressed' /\ AnswersAreTrue'
  BY <1>1 DEF Inv, KeysAreSuppressed, AnswersAreTrue
<1> QED BY <1>3, <1>5, <1>6, <1>7 DEF Inv

\* A call begins: it reads the time.
LEMMA BeginPreserves ==
    ASSUME Inv, NEW p \in Publishers, Begin(p)
    PROVE  Inv'
<1>1. PICK window \in Windows :
        calls' = [q \in DOMAIN calls \union {p} |->
                    IF q = p THEN [published_at |-> clock, expires_at |-> clock + window]
                    ELSE calls[q]]
  BY DEF Begin
<1>2. UNCHANGED <<clock, messages, message_seq, ledger, history>>
  BY DEF Begin, tables
<1>3. /\ window \in Nat /\ clock \in Nat
      /\ calls \in [DOMAIN calls -> Call] /\ DOMAIN calls \subseteq Publishers
      /\ \A q \in DOMAIN calls : calls[q].published_at <= clock
  BY ConfigAssumption DEF ValidConfig, Inv, TypeOK, TimesArePast
<1>4. [published_at |-> clock, expires_at |-> clock + window] \in Call
  BY <1>3 DEF Call
<1>5. /\ calls' \in [DOMAIN calls' -> Call] /\ DOMAIN calls' \subseteq Publishers
      /\ \A q \in DOMAIN calls' : calls'[q].published_at <= clock
  BY <1>1, <1>3, <1>4
<1> QED BY <1>2, <1>3, <1>5, HistoryUnchanged

\* A call fails, a message is pruned, time passes.
LEMMA OthersPreserve ==
    ASSUME Inv, Tick \/ (\E m \in messages : Prune(m)) \/ (\E p \in Publishers : Fail(p))
    PROVE  Inv'
<1>1. /\ clock \in Nat
      /\ calls \in [DOMAIN calls -> Call] /\ DOMAIN calls \subseteq Publishers
      /\ \A q \in DOMAIN calls : calls[q].published_at \in Nat /\ calls[q].published_at <= clock
  BY DEF Inv, TypeOK, TimesArePast, Call
<1>2. CASE Tick
  <2>1. clock' = clock + 1 /\ UNCHANGED <<messages, message_seq, ledger, history, calls>>
    BY <1>2 DEF Tick, tables
  <2>2. \A q \in DOMAIN calls : calls[q].published_at <= clock'
    BY <1>1, <2>1
  <2> QED BY <1>1, <2>1, <2>2, HistoryUnchanged
<1>3. CASE \E m \in messages : Prune(m)
  BY <1>1, <1>3, HistoryUnchanged DEF Prune
<1>4. ASSUME NEW p \in Publishers, Fail(p) PROVE Inv'
  <2>1. UNCHANGED <<clock, messages, message_seq, ledger, history>>
    BY <1>4 DEF Fail, tables
  <2>2. calls' = [q \in DOMAIN calls \ {p} |-> calls[q]]
    BY <1>4 DEF Fail, Without
  <2>3. /\ calls' \in [DOMAIN calls' -> Call] /\ DOMAIN calls' \subseteq Publishers
        /\ \A q \in DOMAIN calls' : calls'[q].published_at <= clock
    BY <1>1, <2>2
  <2> QED BY <1>1, <2>1, <2>3, HistoryUnchanged
<1> QED BY <1>2, <1>3, <1>4

\* A new store has published nothing.
LEMMA InitEstablishes == Init => Inv
<1> SUFFICES ASSUME Init PROVE Inv
  OBVIOUS
<1>1. /\ DOMAIN ledger = {} /\ DOMAIN calls = {} /\ DOMAIN answered = {}
      /\ ledger = [k \in {} |-> k] /\ calls = [q \in {} |-> q]
  BY DEF Init, Nothing
<1>2. publications = << >> /\ message_seq = 0 /\ messages = {} /\ clock = 0
  BY DEF Init
<1>3. publications \in [1 .. message_seq -> Publication] /\ DOMAIN publications = {}
  BY <1>2
<1>4. TypeOK
  BY <1>1, <1>2, <1>3 DEF TypeOK
<1>5. \A k \in Keys : With(k) = {}
  BY <1>3 DEF With
<1> QED BY <1>1, <1>3, <1>4, <1>5 DEF Inv, TimesArePast, LedgerIsExact, KeysAreSuppressed,
                                      AnswersAreTrue

\* No step of a call, of time or of pruning breaks the invariant.
LEMMA StepPreserves == Inv /\ [Next]_vars => Inv'
<1> SUFFICES ASSUME Inv, [Next]_vars PROVE Inv'
  OBVIOUS
<1>1. CASE UNCHANGED vars
  <2>1. UNCHANGED <<clock, messages, message_seq, ledger, history, calls>>
    BY <1>1 DEF vars, tables
  <2> QED BY <2>1, HistoryUnchanged DEF Inv, TypeOK, TimesArePast
<1>2. CASE Next
  BY <1>2, BeginPreserves, OthersPreserve, CommitUnkeyedPreserves, CommitKeyedPreserves
  DEF Next
<1> QED BY <1>1, <1>2

-----------------------------------------------------------------------------

\* The log, the ledger and the answers agree at every step of any number of calls.
THEOREM Invariance == Spec => []Inv
BY InitEstablishes, StepPreserves, PTL DEF Spec

\* The tables have their types; no committed entry of the ledger lacks its message id.
THEOREM TypeCorrect == Spec => []TypeOK
<1>1. Inv => TypeOK
  BY DEF Inv
<1> QED BY <1>1, Invariance, PTL

\* The ledger names the last message of each of its keys, with that message's window, and
\* has every key whose window is not over.
THEOREM ExactLedger == Spec => []LedgerIsExact
<1>1. Inv => LedgerIsExact
  BY DEF Inv
<1> QED BY <1>1, Invariance, PTL

\* No key is published twice within a window, whoever retries and however late.
THEOREM Suppression == Spec => []KeysAreSuppressed
<1>1. Inv => KeysAreSuppressed
  BY DEF Inv
<1> QED BY <1>1, Invariance, PTL

\* Every outcome names a message of the request it answers.
THEOREM TrueAnswers == Spec => []AnswersAreTrue
<1>1. Inv => AnswersAreTrue
  BY DEF Inv
<1> QED BY <1>1, Invariance, PTL

-----------------------------------------------------------------------------
(* One message after another.                                              *)

\* How many positions are up to one, as the position goes up.
RanksUpTo(S, n) == [i \in 0 .. n |-> Cardinality({j \in S : j <= i})]

LEMMA RanksGrow ==
    ASSUME NEW n \in Nat, NEW S \in SUBSET (1 .. n), NEW rank, rank = RanksUpTo(S, n)
    PROVE  /\ rank \in [0 .. n -> Nat] /\ rank[0] = 0 /\ rank[n] = Cardinality(S)
           /\ \A i \in 1 .. n : rank[i] = IF i \in S THEN rank[i - 1] + 1 ELSE rank[i - 1]
           /\ \A i, j \in 0 .. n : i <= j => rank[i] <= rank[j]
<1> DEFINE Upto(i) == {j \in S : j <= i}
<1>0. \A j \in S : j \in Int /\ 1 <= j /\ j <= n
  OBVIOUS
<1>1. IsFiniteSet(S)
  <2>1. IsFiniteSet(1 .. n)
    BY FS_Interval
  <2> QED BY <2>1, FS_Subset
<1>2. \A i \in 0 .. n : IsFiniteSet(Upto(i)) /\ Cardinality(Upto(i)) \in Nat
  <2> TAKE i \in 0 .. n
  <2>1. Upto(i) \in SUBSET S
    OBVIOUS
  <2> QED BY <1>1, <2>1, FS_Subset, FS_CardinalityType
<1>3. Upto(0) = {} /\ Upto(n) = S
  <2>1. \A j \in S : ~ (j <= 0) /\ j <= n
    BY <1>0
  <2>2. Upto(0) = {}
    BY <2>1
  <2>3. Upto(n) = S
    BY <2>1
  <2> QED BY <2>2, <2>3
<1>4. rank = [i \in 0 .. n |-> Cardinality(Upto(i))]
  BY DEF RanksUpTo
<1>5. ASSUME NEW i \in 1 .. n
      PROVE  rank[i] = IF i \in S THEN rank[i - 1] + 1 ELSE rank[i - 1]
  <2>1. i - 1 \in 0 .. n /\ i \in 0 .. n
    OBVIOUS
  <2>2. CASE i \in S
    <3>1. Upto(i) = Upto(i - 1) \union {i} /\ i \notin Upto(i - 1)
      <4>1. \A j \in S : j <= i <=> j <= i - 1 \/ j = i
        BY <1>0
      <4>2. ~ (i <= i - 1)
        OBVIOUS
      <4>3. Upto(i) = Upto(i - 1) \union {i}
        BY <2>2, <4>1
      <4>4. i \notin Upto(i - 1)
        BY <4>2
      <4> QED BY <4>3, <4>4
    <3> HIDE DEF Upto
    <3>2. Cardinality(Upto(i)) = Cardinality(Upto(i - 1)) + 1
      BY <1>2, <2>1, <3>1, FS_AddElement
    <3> QED BY <1>4, <2>1, <2>2, <3>2
  <2>3. CASE i \notin S
    <3>1. Upto(i) = Upto(i - 1)
      <4>1. \A j \in S : j <= i <=> j <= i - 1
        BY <2>3
      <4> QED BY <4>1
    <3> HIDE DEF Upto
    <3> QED BY <1>4, <2>1, <2>3, <3>1
  <2> QED BY <2>2, <2>3
<1>6. ASSUME NEW i \in 0 .. n, NEW j \in 0 .. n, i <= j PROVE rank[i] <= rank[j]
  <2>1. Upto(i) \in SUBSET Upto(j)
    <3>1. \A k \in S : k \in Int
      OBVIOUS
    <3>2. \A k \in S : k <= i => k <= j
      BY <1>6, <3>1
    <3> QED BY <3>2
  <2> HIDE DEF Upto
  <2> QED BY <1>2, <1>4, <2>1, FS_Subset
<1> HIDE DEF Upto
<1>7. rank \in [0 .. n -> Nat]
  BY <1>2, <1>4
<1>8. rank[0] = 0 /\ rank[n] = Cardinality(S)
  <2>1. 0 \in 0 .. n /\ n \in 0 .. n
    OBVIOUS
  <2> QED BY <1>3, <1>4, <2>1, FS_EmptySet
<1> QED BY <1>5, <1>6, <1>7, <1>8

\* What has been seen before the first message.
Start(suppressed) == [log |-> publications, keys |-> suppressed, outcomes |-> << >>]

\* Whatever starts there and goes on message by message is what PublishAll computes.
LEMMA Unrolled ==
    ASSUME NEW n \in Nat, NEW batch, Len(batch) = n, NEW suppressed, NEW at, NEW until,
           NEW G, G = [i \in 0 .. n |->
                         IF i = 0 THEN Start(suppressed)
                         ELSE Abs!PublishOne(G[i - 1], batch[i], at, until)]
    PROVE  Abs!PublishAll(suppressed, batch, at, until) = G[n]
<1> DEFINE One(f, i) == IF i = 0 THEN Start(suppressed)
                        ELSE Abs!PublishOne(f[i - 1], batch[i], at, until)
           seen == CHOOSE f : f = [i \in 0 .. n |-> One(f, i)]
<1>1. Abs!PublishAll(suppressed, batch, at, until) = seen[n]
  BY DEF Abs!PublishAll, Start
<1>2. G = [i \in 0 .. n |-> One(G, i)]
  OBVIOUS
<1>3. seen = [i \in 0 .. n |-> One(seen, i)]
  <2>1. \E f : f = [i \in 0 .. n |-> One(f, i)]
    BY <1>2
  <2> QED BY <2>1
<1> HIDE DEF seen
<1>4. \A i \in 0 .. n : seen[i] = G[i]
  <2> DEFINE B == {i \in 0 .. n : seen[i] # G[i]}
  <2> SUFFICES ASSUME B # {} PROVE FALSE
    OBVIOUS
  <2>1. B \in SUBSET Nat
    OBVIOUS
  <2>2. PICK i \in B : \A j \in B : i <= j
    <3> HIDE DEF B
    <3> QED BY <2>1, FirstPosition
  <2>3. i # 0
    BY <1>2, <1>3
  <2>4. i - 1 \in 0 .. n /\ i - 1 \notin B
    BY <2>2, <2>3
  <2>5. seen[i - 1] = G[i - 1]
    BY <2>4
  <2>6. One(seen, i) = One(G, i)
    BY <2>3, <2>5
  <2> QED BY <1>2, <1>3, <2>6
<1> QED BY <1>1, <1>4

\* What a transaction makes of a batch, of which it finds some keys suppressed: the others
\* are published at their first position, and every answer names the last message of its key.
Handled(call, batch, suppressed, S, ids) ==
    /\ suppressed \subseteq Keys
    /\ S \in SUBSET DOMAIN batch /\ ids = Assigned(S)
    /\ \A i \in DOMAIN batch :
         i \in S <=> /\ batch[i].key \notin suppressed
                     /\ \/ batch[i].key = NULL
                        \/ \A j \in 1 .. i - 1 : batch[j].key # batch[i].key
    /\ Appended(call, batch, S, ids) /\ message_seq' = message_seq + Cardinality(S)
    /\ outcomes' = [i \in DOMAIN batch |-> outcomes'[i]]
    /\ \A i \in S : outcomes'[i] = [id |-> ids[i], published |-> TRUE]
    /\ \A i \in DOMAIN batch \ S : \E l :
         outcomes'[i] = [id |-> l, published |-> FALSE] /\ LastWith(batch[i].key, l)'

\* The first of a sequence are a sequence, and one more of them is an Append.
LEMMA Prefixes ==
    ASSUME NEW T, NEW N \in Nat, NEW f, \A i \in 1 .. N : f[i] \in T, NEW n \in Nat, n <= N
    PROVE  /\ [i \in 1 .. n |-> f[i]] \in Seq(T) /\ Len([i \in 1 .. n |-> f[i]]) = n
           /\ n # 0 => [i \in 1 .. n |-> f[i]] = Append([i \in 1 .. n - 1 |-> f[i]], f[n])
<1> DEFINE s == [i \in 1 .. n |-> f[i]]
           r == [i \in 1 .. n - 1 |-> f[i]]
<1>1. s \in [1 .. n -> T]
  OBVIOUS
<1>2. s \in Seq(T) /\ Len(s) = n
  BY <1>1
<1>3. ASSUME n # 0 PROVE s = Append(r, f[n])
  <2>1. n - 1 \in Nat /\ r \in [1 .. n - 1 -> T] /\ f[n] \in T
    BY <1>3
  <2>2. r \in Seq(T) /\ Len(r) = n - 1
    BY <2>1
  <2>3. \A i \in 1 .. n - 1 : r[i] = s[i]
    OBVIOUS
  <2>4. s[n] = f[n]
    BY <1>3
  <2> HIDE DEF r, s
  <2>5. /\ Append(r, f[n]) \in Seq(T) /\ Len(Append(r, f[n])) = n
        /\ \A i \in 1 .. n - 1 : Append(r, f[n])[i] = r[i]
        /\ Append(r, f[n])[n] = f[n]
    <3>1. /\ Append(r, f[n]) \in Seq(T) /\ Len(Append(r, f[n])) = Len(r) + 1
          /\ \A i \in 1 .. Len(r) : Append(r, f[n])[i] = r[i]
          /\ Append(r, f[n])[Len(r) + 1] = f[n]
      BY <2>1, <2>2, AppendProperties
    <3> QED BY <2>2, <3>1
  <2>6. \A i \in 1 .. n : s[i] = Append(r, f[n])[i]
    <3> TAKE i \in 1 .. n
    <3>1. i = n \/ i \in 1 .. n - 1
      OBVIOUS
    <3> QED BY <2>3, <2>4, <2>5, <3>1
  <2> QED BY <1>2, <2>5, <2>6, SeqEqual
<1> QED BY <1>2, <1>3

\* The last of some messages is the one that no other is after.
LEMMA LastOfPrefix ==
    ASSUME NEW log, NEW N \in Nat, DOMAIN log = 1 .. N, NEW k, NEW l \in 1 .. N,
           log[l].key = k, \A m \in 1 .. N : log[m].key = k => m <= l
    PROVE  Abs!LastOf(log, k) = l
<1> DEFINE S == {m \in 1 .. N : log[m].key = k}
<1>1. l \in S /\ \A m \in S : l >= m
  OBVIOUS
<1>2. \A m \in S : (\A j \in S : m >= j) => m = l
  BY <1>1
<1>3. Abs!Max(S) = l
  <2> HIDE DEF S
  <2> QED BY <1>1, <1>2 DEF Abs!Max
<1>4. Abs!Of(log, k) = S
  BY DEF Abs!Of
<1> QED BY <1>3, <1>4 DEF Abs!LastOf

\* What becomes of a message after what was seen before it.
Seen(log, keys, out) == [log |-> log, keys |-> keys, outcomes |-> out]

AlsoSuppressed(keys, key) == keys \union ({key} \ {NULL})

AnEntry(request, at, until) ==
    [key |-> request.key, body |-> request.body, at |-> at, until |-> until, committed |-> clock]

Fresh(id) == [id |-> id, published |-> TRUE]

Known(id) == [id |-> id, published |-> FALSE]

LEMMA OneMore ==
    ASSUME NEW log, NEW keys, NEW out, NEW request, NEW at, NEW until
    PROVE  /\ request.key \in keys =>
                Abs!PublishOne(Seen(log, keys, out), request, at, until)
                  = Seen(log, keys, Append(out, Known(Abs!LastOf(log, request.key))))
           /\ request.key \notin keys =>
                Abs!PublishOne(Seen(log, keys, out), request, at, until)
                  = Seen(Append(log, AnEntry(request, at, until)),
                         AlsoSuppressed(keys, request.key),
                         Append(out, Fresh(Len(log) + 1)))
<1> DEFINE seen == Seen(log, keys, out)
<1>1. seen.log = log /\ seen.keys = keys /\ seen.outcomes = out
  BY DEF Seen
<1>2. CASE request.key \in keys
  <2> DEFINE answer == Known(Abs!LastOf(log, request.key))
  <2> HIDE DEF seen
  <2>1. Abs!PublishOne(seen, request, at, until)
          = [seen EXCEPT !.outcomes = Append(seen.outcomes, answer)]
    BY <1>1, <1>2, Zenon DEF Abs!PublishOne, Known
  <2> HIDE DEF answer
  <2>2. Abs!PublishOne(seen, request, at, until) = Seen(log, keys, Append(out, answer))
    BY <1>1, <2>1 DEF Seen, seen
  <2> QED BY <1>2, <2>2 DEF answer, seen
<1>3. CASE request.key \notin keys
  <2> HIDE DEF seen
  <2>1. Abs!PublishOne(seen, request, at, until)
          = Seen(Append(log, AnEntry(request, at, until)), AlsoSuppressed(keys, request.key),
                 Append(out, Fresh(Len(log) + 1)))
    BY <1>1, <1>3, Zenon DEF Abs!PublishOne, Seen, Fresh, AnEntry, AlsoSuppressed
  <2> QED BY <1>3, <2>1 DEF seen
<1> QED BY <1>2, <1>3

\* A transaction answers and leaves behind what one message after another would.
LEMMA OneAfterAnother ==
    ASSUME TypeOK, NEW call \in Call, NEW batch \in Batches, NEW suppressed, NEW S, NEW ids,
           Handled(call, batch, suppressed, S, ids)
    PROVE  LET done == Abs!PublishAll(suppressed, batch, call.published_at, call.expires_at)
           IN  publications' = done.log /\ outcomes' = done.outcomes
<1>1. PICK n \in Nat : DOMAIN batch = 1 .. n /\ batch \in [1 .. n -> Requests]
  BY BatchType
<1>2. Len(batch) = n
  <2>1. batch \in Seq(Requests)
    BY <1>1
  <2> QED BY <1>1, <2>1
<1>3. /\ S \in SUBSET (1 .. n) /\ suppressed \subseteq Keys
      /\ message_seq \in Nat /\ publications \in [1 .. message_seq -> Publication]
      /\ message_seq' = message_seq + Cardinality(S)
  BY <1>1 DEF Handled, TypeOK
<1> DEFINE rank == RanksUpTo(S, n)
<1>4. /\ rank \in [0 .. n -> Nat] /\ rank[0] = 0 /\ rank[n] = Cardinality(S)
      /\ \A i \in 1 .. n : rank[i] = IF i \in S THEN rank[i - 1] + 1 ELSE rank[i - 1]
      /\ \A i, j \in 0 .. n : i <= j => rank[i] <= rank[j]
  BY <1>3, RanksGrow
<1>5. \A i \in S : ids[i] = message_seq + rank[i]
  BY <1>3 DEF Handled, Assigned, RanksUpTo
<1> HIDE DEF rank
<1>0. PICK P, Q, M : P = publications' /\ Q = outcomes' /\ M = message_seq'
  OBVIOUS
<1> DEFINE top(i) == message_seq + rank[i]
           log(i) == [m \in 1 .. top(i) |-> P[m]]
           keys(i) == suppressed \union ({batch[j].key : j \in 1 .. i} \ {NULL})
           out(i) == [j \in 1 .. i |-> Q[j]]
           G == [i \in 0 .. n |-> Seen(log(i), keys(i), out(i))]
           Answer == [id : Nat, published : {TRUE, FALSE}]
           at == call.published_at
           until == call.expires_at
           record(i) == AnEntry(batch[i], at, until)
<1>6. /\ P \in [1 .. M -> Publication] /\ M \in Nat
      /\ \A m \in 1 .. message_seq : P[m] = publications[m]
      /\ M = top(n)
  BY <1>0, <1>3, <1>4 DEF Handled, Appended
<1>7. \A i \in 0 .. n : top(i) \in Nat /\ message_seq <= top(i) /\ top(i) <= M
  <2> TAKE i \in 0 .. n
  <2>1. rank[i] \in Nat /\ rank[n] \in Nat /\ rank[i] <= rank[n]
    <3>1. i <= n /\ n \in 0 .. n
      OBVIOUS
    <3> QED BY <1>4, <3>1
  <2> QED BY <1>3, <1>4, <1>6, <2>1
<1>8. \A i \in S : P[ids[i]] = record(i)
  <2> TAKE i \in S
  <2>1. ids[i] \in DOMAIN P
    BY <1>0 DEF Handled, Appended
  <2>2. P[ids[i]] \in Publication
    BY <1>6, <2>1
  <2>3. /\ P[ids[i]].key = batch[i].key /\ P[ids[i]].body = batch[i].body
        /\ P[ids[i]].at = at /\ P[ids[i]].until = until
        /\ P[ids[i]].committed = clock
    BY <1>0 DEF Handled, Appended
  <2> HIDE DEF at, until
  <2> QED BY <2>2, <2>3 DEF Publication, AnEntry
<1>9. /\ \A i \in S : Q[i] = [id |-> ids[i], published |-> TRUE]
      /\ \A i \in 1 .. n \ S : \E l :
           /\ Q[i] = [id |-> l, published |-> FALSE]
           /\ l \in 1 .. M /\ P[l].key = batch[i].key
           /\ \A m \in 1 .. M : P[m].key = batch[i].key => m <= l
  <2>1. DOMAIN P = 1 .. M
    BY <1>6
  <2> QED BY <1>0, <1>1, <2>1 DEF Handled, LastWith, With
<1>10. \A i \in 1 .. n : Q[i] \in Answer
  <2>1. \A i \in S : ids[i] \in Nat
    BY <1>3, <1>4, <1>5
  <2>2. \A i \in S : Q[i] \in Answer
    <3> TAKE i \in S
    <3>1. [id |-> ids[i], published |-> TRUE] \in Answer
      BY <2>1
    <3> HIDE DEF Answer
    <3> QED BY <1>9, <3>1
  <2>3. \A i \in 1 .. n \ S : Q[i] \in Answer
    <3> TAKE i \in 1 .. n \ S
    <3>1. PICK l \in 1 .. M : Q[i] = [id |-> l, published |-> FALSE]
      BY <1>9
    <3>2. [id |-> l, published |-> FALSE] \in Answer
      BY <1>6
    <3> HIDE DEF Answer
    <3> QED BY <3>1, <3>2
  <2> QED BY <2>2, <2>3
<1>11. \A i \in 1 .. n : i \in S <=> batch[i].key \notin keys(i - 1)
  <2> TAKE i \in 1 .. n
  <2>1. i \in S <=> /\ batch[i].key \notin suppressed
                    /\ \/ batch[i].key = NULL
                       \/ \A j \in 1 .. i - 1 : batch[j].key # batch[i].key
    BY <1>1 DEF Handled
  <2> QED BY <2>1
<1>12. G[0] = Start(suppressed)
  <2>1. top(0) = message_seq
    BY <1>3, <1>4
  <2>2. log(0) = publications
    BY <1>3, <1>6, <2>1
  <2>3. keys(0) = suppressed
    OBVIOUS
  <2>4. out(0) = << >>
    OBVIOUS
  <2> HIDE DEF log, keys, out
  <2>5. G[0] = Seen(log(0), keys(0), out(0))
    OBVIOUS
  <2> QED BY <2>2, <2>3, <2>4, <2>5 DEF Start, Seen
<1>13. ASSUME NEW i \in 1 .. n
       PROVE  G[i] = Abs!PublishOne(G[i - 1], batch[i], at, until)
  <2>1. i - 1 \in 0 .. n /\ i \in 0 .. n /\ i \in Nat /\ i <= n /\ i # 0
    OBVIOUS
  <2>2. top(i) \in Nat /\ top(i - 1) \in Nat /\ top(i) <= M /\ top(i - 1) <= M
    BY <1>7, <2>1
  <2>3. out(i) = Append(out(i - 1), Q[i])
    BY <1>10, <2>1, Prefixes
  <2>4. \A m \in 1 .. M : P[m] \in Publication
    BY <1>6
  <2>5. log(i - 1) \in Seq(Publication) /\ Len(log(i - 1)) = top(i - 1)
    <3> HIDE DEF top
    <3> QED BY <1>6, <2>2, <2>4, Prefixes
  <2>6. keys(i) = AlsoSuppressed(keys(i - 1), batch[i].key)
    <3>1. \A j : j \in 1 .. i <=> j \in 1 .. i - 1 \/ j = i
      OBVIOUS
    <3> QED BY <3>1 DEF AlsoSuppressed
  <2>7. /\ G[i] = Seen(log(i), keys(i), out(i))
        /\ G[i - 1] = Seen(log(i - 1), keys(i - 1), out(i - 1))
    BY <2>1
  <2>8. CASE i \in S
    <3>1. batch[i].key \notin keys(i - 1)
      BY <1>11, <2>8
    <3>2. top(i) = top(i - 1) + 1 /\ ids[i] = top(i)
      BY <1>3, <1>4, <1>5, <2>1, <2>8
    <3>3. log(i) = Append(log(i - 1), P[top(i)])
      <4>1. top(i) # 0 /\ top(i) - 1 = top(i - 1)
        BY <2>2, <3>2
      <4> HIDE DEF top
      <4>2. [m \in 1 .. top(i) |-> P[m]]
              = Append([m \in 1 .. top(i) - 1 |-> P[m]], P[top(i)])
        BY <1>6, <2>2, <2>4, <4>1, Prefixes
      <4> QED BY <4>1, <4>2
    <3>4. P[top(i)] = record(i)
      BY <1>8, <2>8, <3>2
    <3>5. Q[i] = Fresh(top(i - 1) + 1)
      BY <1>9, <2>8, <3>2 DEF Fresh
    <3> HIDE DEF log, keys, out, G, top
    <3>6. Abs!PublishOne(G[i - 1], batch[i], at, until)
            = Seen(Append(log(i - 1), record(i)), AlsoSuppressed(keys(i - 1), batch[i].key),
                   Append(out(i - 1), Fresh(top(i - 1) + 1)))
      <4>1. PICK lg, ks, ot, rq : /\ lg = log(i - 1) /\ ks = keys(i - 1) /\ ot = out(i - 1)
                                  /\ rq = batch[i]
        OBVIOUS
      <4>2. G[i - 1] = Seen(lg, ks, ot) /\ rq.key \notin ks /\ Len(lg) = top(i - 1)
        BY <2>5, <2>7, <3>1, <4>1
      <4>3. rq.key \notin ks =>
              Abs!PublishOne(Seen(lg, ks, ot), rq, at, until)
                = Seen(Append(lg, AnEntry(rq, at, until)), AlsoSuppressed(ks, rq.key),
                       Append(ot, Fresh(Len(lg) + 1)))
        BY OneMore
      <4> QED BY <4>1, <4>2, <4>3
    <3> QED BY <2>3, <2>6, <2>7, <3>3, <3>4, <3>5, <3>6
  <2>9. CASE i \notin S
    <3>1. batch[i].key \in keys(i - 1)
      BY <1>11, <2>9
    <3>2. top(i) = top(i - 1)
      BY <1>4, <2>1, <2>9
    <3>3. batch[i].key # NULL
      BY <1>3, <3>1, KeyAssumption
    <3>4. PICK l \in 1 .. M :
            /\ Q[i] = Known(l)
            /\ P[l].key = batch[i].key
            /\ \A m \in 1 .. M : P[m].key = batch[i].key => m <= l
      BY <1>9, <2>9 DEF Known
    <3>5. l \in 1 .. top(i - 1)
      <4>1. CASE l \in DOMAIN publications
        <5>1. l \in 1 .. message_seq /\ message_seq <= top(i - 1)
          BY <1>3, <1>7, <2>1, <4>1
        <5> QED BY <1>3, <2>2, <5>1
      <4>2. CASE l \notin DOMAIN publications
        <5>1. PICK j \in S : ids[j] = l
          BY <1>0, <1>6, <3>4, <4>2 DEF Handled, Appended
        <5>2. batch[j].key = batch[i].key
          BY <1>0, <3>4, <5>1 DEF Handled, Appended
        <5>3. j \in 1 .. n /\ j # i
          BY <1>3, <2>9, <5>1
        <5>4. \A k \in 1 .. j - 1 : batch[k].key # batch[j].key
          BY <1>1, <3>3, <5>2, <5>3 DEF Handled
        <5>5. j <= i - 1
          BY <5>2, <5>3, <5>4
        <5>6. rank[j] <= rank[i - 1] /\ j \in 0 .. n
          BY <1>4, <2>1, <5>3, <5>5
        <5>7. rank[j] \in Nat /\ rank[i - 1] \in Nat
          BY <1>4, <2>1, <5>6
        <5>8. l = message_seq + rank[j] /\ l \in Nat /\ 1 <= l
          BY <1>5, <1>6, <3>4, <5>1
        <5> QED BY <1>3, <5>6, <5>7, <5>8
      <4> QED BY <4>1, <4>2
    <3>6. Abs!LastOf(log(i - 1), batch[i].key) = l
      <4>1. DOMAIN log(i - 1) = 1 .. top(i - 1)
        OBVIOUS
      <4>2. \A m \in 1 .. top(i - 1) : m \in 1 .. M /\ log(i - 1)[m] = P[m]
        BY <1>6, <2>2
      <4> HIDE DEF log, top
      <4> QED BY <2>2, <3>4, <3>5, <4>1, <4>2, LastOfPrefix
    <3>7. log(i) = log(i - 1)
      BY <3>2
    <3>8. keys(i) = keys(i - 1)
      <4> HIDE DEF keys
      <4> QED BY <2>6, <3>1 DEF AlsoSuppressed
    <3> HIDE DEF log, keys, out, G, top
    <3>9. Abs!PublishOne(G[i - 1], batch[i], at, until)
            = Seen(log(i - 1), keys(i - 1), Append(out(i - 1), Known(l)))
      <4>1. PICK lg, ks, ot, rq : /\ lg = log(i - 1) /\ ks = keys(i - 1) /\ ot = out(i - 1)
                                  /\ rq = batch[i]
        OBVIOUS
      <4>2. G[i - 1] = Seen(lg, ks, ot) /\ rq.key \in ks /\ Abs!LastOf(lg, rq.key) = l
        BY <2>7, <3>1, <3>6, <4>1
      <4>3. rq.key \in ks =>
              Abs!PublishOne(Seen(lg, ks, ot), rq, at, until)
                = Seen(lg, ks, Append(ot, Known(Abs!LastOf(lg, rq.key))))
        BY OneMore
      <4> QED BY <4>1, <4>2, <4>3
    <3> QED BY <2>3, <2>7, <3>4, <3>7, <3>8, <3>9
  <2> QED BY <2>8, <2>9
<1>14. log(n) = P /\ out(n) = Q
  <2>1. Q = [j \in 1 .. n |-> Q[j]]
    BY <1>0, <1>1 DEF Handled
  <2> QED BY <1>6, <2>1
<1>15. Abs!PublishAll(suppressed, batch, at, until) = G[n]
  <2>1. \A i \in 0 .. n : G[i] = IF i = 0 THEN Start(suppressed)
                                 ELSE Abs!PublishOne(G[i - 1], batch[i], at, until)
    <3> TAKE i \in 0 .. n
    <3>1. i # 0 => i \in 1 .. n
      OBVIOUS
    <3> HIDE DEF G
    <3> QED BY <1>12, <1>13, <3>1
  <2>2. G = [i \in 0 .. n |-> G[i]]
    OBVIOUS
  <2> HIDE DEF G, at, until
  <2>3. G = [i \in 0 .. n |-> IF i = 0 THEN Start(suppressed)
                              ELSE Abs!PublishOne(G[i - 1], batch[i], at, until)]
    BY <2>1, <2>2
  <2> QED BY <1>2, <2>3, Unrolled
<1>16. G[n] = Seen(log(n), keys(n), out(n))
  OBVIOUS
<1> HIDE DEF G, log, keys, out, at, until
<1>17. G[n].log = P /\ G[n].outcomes = Q
  BY <1>14, <1>16 DEF Seen
<1> QED BY <1>0, <1>15, <1>17 DEF at, until

-----------------------------------------------------------------------------
(* The transactions do that.                                               *)

\* A key that was published has a last message.
LEMMA LastExists ==
    ASSUME NEW k, message_seq \in Nat, DOMAIN publications = 1 .. message_seq, With(k) # {}
    PROVE  \E l : LastWith(k, l)
<1> DEFINE Distances == {message_seq - m : m \in With(k)}
<1>1. \A m \in With(k) : m \in 1 .. message_seq
  BY DEF With
<1>2. Distances \in SUBSET Nat /\ Distances # {}
  BY <1>1
<1>3. PICK d \in Distances : \A e \in Distances : d <= e
  <2> HIDE DEF Distances
  <2> QED BY <1>2, FirstPosition
<1>4. PICK l \in With(k) : d = message_seq - l
  BY <1>3
<1>5. \A m \in With(k) : message_seq - l <= message_seq - m
  BY <1>3, <1>4
<1>6. \A m \in With(k) : m <= l
  BY <1>1, <1>5
<1> QED BY <1>6 DEF LastWith

\* The entries that a transaction keeps are those of keys that may be found suppressed.
LEMMA KeptMayBeSuppressed ==
    ASSUME Inv, NEW at \in Nat, at <= clock, NEW kept, kept = DOMAIN Purged(at)
    PROVE  kept \in SUBSET Keys /\ Abs!MaySuppress(kept, at)
<1>1. /\ message_seq \in Nat /\ clock \in Nat
      /\ publications \in [1 .. message_seq -> Publication]
      /\ DOMAIN publications = 1 .. message_seq
      /\ ledger \in [DOMAIN ledger -> LedgerRow] /\ DOMAIN ledger \subseteq Keys
  BY DEF Inv, TypeOK
<1>2. kept = {k \in DOMAIN ledger : ledger[k].expires_at > at}
  BY DEF Purged
<1>3. \A k \in Keys : Abs!Of(publications, k) = With(k)
  BY DEF Abs!Of, With
<1>4. ASSUME NEW k \in Keys, NEW l, LastWith(k, l) PROVE Abs!LastOf(publications, k) = l
  <2>1. /\ l \in 1 .. message_seq /\ publications[l].key = k
        /\ \A m \in 1 .. message_seq : publications[m].key = k => m <= l
    BY <1>1, <1>4 DEF LastWith, With
  <2>2. PICK log : log = publications
    OBVIOUS
  <2>3. PICK N \in Nat : N = message_seq
    BY <1>1
  <2>4. Abs!LastOf(log, k) = l
    BY <1>1, <2>1, <2>2, <2>3, LastOfPrefix
  <2> QED BY <2>2, <2>4
<1>5. ASSUME NEW k \in kept
      PROVE  /\ Abs!Of(publications, k) # {}
             /\ publications[Abs!LastOf(publications, k)].until > at
  <2>1. /\ k \in Keys /\ ledger[k].expires_at > at /\ LastWith(k, ledger[k].message_id)
        /\ publications[ledger[k].message_id].until = ledger[k].expires_at
    BY <1>1, <1>2 DEF Inv, LedgerIsExact
  <2>2. PICK l : l = ledger[k].message_id
    OBVIOUS
  <2>3. Abs!LastOf(publications, k) = l
    BY <1>4, <2>1, <2>2
  <2> QED BY <1>3, <2>1, <2>2, <2>3 DEF LastWith
<1>6. ASSUME NEW k \in Keys, k \notin kept, With(k) # {}
      PROVE  publications[Abs!LastOf(publications, k)].until <= clock
  <2>1. PICK l : LastWith(k, l)
    BY <1>1, <1>6, LastExists
  <2>2. l \in With(k) /\ Abs!LastOf(publications, k) = l
    BY <1>4, <2>1 DEF LastWith
  <2>3. k \in DOMAIN ledger => ledger[k].expires_at <= at
    BY <1>1, <1>2, <1>6 DEF LedgerRow
  <2> QED BY <2>2, <2>3, WindowsAreOver
<1> QED BY <1>1, <1>2, <1>3, <1>5, <1>6 DEF Abs!MaySuppress

\* A transaction without keys inserts the whole batch.
LEMMA UnkeyedHandles ==
    ASSUME Inv, NEW p \in Publishers, NEW batch \in Batches, CommitUnkeyed(p, batch),
           NEW kept \in SUBSET Keys
    PROVE  \E S, ids : Handled(calls[p], batch, kept, S, ids)
<1> DEFINE S == DOMAIN batch
           ids == Assigned(S)
<1>1. /\ p \in DOMAIN calls /\ KeysOf(batch) = {} /\ Insert(calls[p], batch, ids)
      /\ outcomes' = Outcomes(ledger, batch, ids)
  BY DEF CommitUnkeyed
<1>2. calls[p] \in Call /\ S \in SUBSET DOMAIN batch /\ ids = Assigned(S)
  BY <1>1 DEF Inv, TypeOK
<1>3. \A i \in DOMAIN batch : i \in S /\ batch[i].key = NULL
  BY <1>1 DEF KeysOf
<1> HIDE DEF S, ids
<1>4. Appended(calls[p], batch, S, ids)
  BY <1>1, <1>2, InsertAppends DEF Inv
<1>5. DOMAIN ids = S /\ message_seq' = message_seq + Cardinality(S)
  BY <1>1, <1>4 DEF Insert, Appended
<1>6. /\ outcomes' = [i \in DOMAIN batch |-> outcomes'[i]]
      /\ \A i \in S : outcomes'[i] = [id |-> ids[i], published |-> TRUE]
  BY <1>1, <1>2, <1>3, <1>5 DEF Outcomes
<1>7. Handled(calls[p], batch, kept, S, ids)
  BY <1>2, <1>3, <1>4, <1>5, <1>6, KeyAssumption DEF Handled
<1> QED BY <1>7

\* A transaction with keys inserts the first of each that it did not keep, and answers the
\* rest from the ledger it leaves.
LEMMA KeyedHandles ==
    ASSUME Inv, Inv', NEW p \in Publishers, NEW batch \in Batches, CommitKeyed(p, batch),
           NEW kept, kept = DOMAIN Purged(calls[p].published_at)
    PROVE  \E S, ids : Handled(calls[p], batch, kept, S, ids)
<1> DEFINE at == calls[p].published_at
           expires_at == calls[p].expires_at
           rows == Claimed(Purged(at), batch, expires_at)
           S == ToPublish(rows, batch)
           ids == Assigned(S)
           filled == Filled(rows, batch, ids)
<1>1. /\ p \in DOMAIN calls /\ Insert(calls[p], batch, ids)
      /\ ledger' = filled
      /\ outcomes' = Outcomes(filled, batch, ids)
  BY DEF CommitKeyed
<1>2. /\ calls[p] \in Call /\ TypeOK /\ ledger \in [DOMAIN ledger -> LedgerRow]
      /\ DOMAIN ledger \subseteq Keys
  BY <1>1 DEF Inv, TypeOK
<1>3. /\ DOMAIN rows = kept \union KeysOf(batch)
      /\ \A k \in kept : rows[k] = ledger[k] /\ k \in DOMAIN ledger
      /\ \A k \in KeysOf(batch) \ kept : rows[k].message_id = NULL
  BY DEF Claimed, Purged
<1>4. \A k \in kept : rows[k].message_id # NULL
  BY <1>2, <1>3, KeyAssumption DEF LedgerRow
<1>5. Statements(calls[p], batch, kept, rows, S, ids, filled) /\ ids = Assigned(S)
  BY DEF Statements
<1>6. LedgerRenewed(calls[p], batch, kept, S, ids, filled)
  <2> HIDE DEF rows, S, ids, filled
  <2> QED BY <1>2, <1>5, LedgerStatements
<1>7. S \in SUBSET DOMAIN batch /\ kept \subseteq Keys
  BY <1>2, <1>3, <1>6 DEF LedgerRenewed
<1>8. \A i \in DOMAIN batch :
        i \in S <=> /\ batch[i].key \notin kept
                    /\ \/ batch[i].key = NULL
                       \/ \A j \in 1 .. i - 1 : batch[j].key # batch[i].key
  <2> TAKE i \in DOMAIN batch
  <2>1. batch[i].key = NULL \/ batch[i].key \in KeysOf(batch)
    BY DEF KeysOf
  <2>2. i \in S <=> \/ batch[i].key = NULL
                    \/ /\ rows[batch[i].key].message_id = NULL
                       /\ \A j \in 1 .. i - 1 : batch[j].key # batch[i].key
    BY DEF ToPublish
  <2> HIDE DEF rows, S
  <2> QED BY <1>3, <1>4, <1>7, <2>1, <2>2, KeyAssumption
<1>9. \A i \in DOMAIN batch \ S : batch[i].key \in KeysOf(batch)
  BY DEF ToPublish, KeysOf
<1> HIDE DEF rows, S, ids, filled
<1>10. Appended(calls[p], batch, S, ids)
  BY <1>1, <1>2, <1>5, <1>7, InsertAppends
<1>11. DOMAIN ids = S /\ message_seq' = message_seq + Cardinality(S)
  BY <1>1, <1>10 DEF Insert, Appended
<1>12. /\ outcomes' = [i \in DOMAIN batch |-> outcomes'[i]]
       /\ \A i \in S : outcomes'[i] = [id |-> ids[i], published |-> TRUE]
       /\ \A i \in DOMAIN batch \ S :
            outcomes'[i] = [id |-> filled[batch[i].key].message_id, published |-> FALSE]
  BY <1>1, <1>7, <1>11 DEF Outcomes
<1>13. \A i \in DOMAIN batch \ S : \E l :
         /\ outcomes'[i] = [id |-> l, published |-> FALSE]
         /\ LastWith(batch[i].key, l)'
  <2> TAKE i \in DOMAIN batch \ S
  <2>1. PICK l : l = ledger'[batch[i].key].message_id
    OBVIOUS
  <2>2. LastWith(batch[i].key, l)'
    <3>1. batch[i].key \in DOMAIN ledger'
      BY <1>1, <1>6, <1>9 DEF LedgerRenewed
    <3> QED BY <2>1, <3>1 DEF Inv, LedgerIsExact, LastWith, With
  <2> QED BY <1>1, <1>12, <2>1, <2>2
<1>14. Handled(calls[p], batch, kept, S, ids)
  BY <1>5, <1>7, <1>8, <1>10, <1>11, <1>12, <1>13 DEF Handled
<1> QED BY <1>14

\* The window of a call is that of its process, from the time that it read.
CallsAreTimed ==
    \A p \in DOMAIN calls : \E window \in Windows :
      calls[p].expires_at = calls[p].published_at + window

LEMMA TimedAtFirst == Init => CallsAreTimed
BY DEF Init, Nothing, CallsAreTimed

LEMMA TimedAlways == CallsAreTimed /\ [Next]_vars => CallsAreTimed'
<1> SUFFICES ASSUME CallsAreTimed, [Next]_vars PROVE CallsAreTimed'
  OBVIOUS
<1>1. CASE UNCHANGED calls
  BY <1>1 DEF CallsAreTimed
<1>2. ASSUME NEW p, calls' = Without(calls, p) PROVE CallsAreTimed'
  BY <1>2 DEF CallsAreTimed, Without
<1>3. ASSUME NEW p, Begin(p) PROVE CallsAreTimed'
  <2>1. PICK window \in Windows :
          calls' = [q \in DOMAIN calls \union {p} |->
                      IF q = p THEN [published_at |-> clock, expires_at |-> clock + window]
                      ELSE calls[q]]
    BY <1>3 DEF Begin
  <2>2. calls'[p].expires_at = calls'[p].published_at + window
    BY <2>1
  <2>3. \A q \in DOMAIN calls' : q = p \/ (q \in DOMAIN calls /\ calls'[q] = calls[q])
    BY <2>1
  <2> QED BY <2>2, <2>3 DEF CallsAreTimed
<1> QED BY <1>1, <1>2, <1>3
  DEF Next, vars, Tick, Prune, Fail, CommitUnkeyed, CommitKeyed

\* A commit publishes one message after another.
LEMMA CommitPublishes ==
    ASSUME Inv, Inv', CallsAreTimed, NEW p \in Publishers, NEW batch \in Batches,
           CommitUnkeyed(p, batch) \/ CommitKeyed(p, batch)
    PROVE  Abs!Next
<1>1. /\ p \in DOMAIN calls /\ answered' = batch /\ UNCHANGED clock
  BY DEF CommitUnkeyed, CommitKeyed
<1>2. /\ TypeOK /\ calls[p] \in Call
      /\ calls[p].published_at \in Nat /\ calls[p].published_at <= clock /\ clock \in Nat
  BY <1>1 DEF Inv, TypeOK, TimesArePast, Call
<1>3. PICK window \in Windows : calls[p].expires_at = calls[p].published_at + window
  BY <1>1 DEF CallsAreTimed
<1>4. PICK call : call = calls[p]
  OBVIOUS
<1>5. PICK kept : kept = DOMAIN Purged(calls[p].published_at)
  OBVIOUS
<1>6. PICK at \in Nat : at = calls[p].published_at /\ at <= clock
  BY <1>2
<1>7. kept \in SUBSET Keys /\ Abs!MaySuppress(kept, at)
  BY <1>5, <1>6, KeptMayBeSuppressed
<1>8. PICK S, ids : Handled(calls[p], batch, kept, S, ids)
  BY <1>5, <1>7, UnkeyedHandles, KeyedHandles
<1>9. LET done == Abs!PublishAll(kept, batch, call.published_at, call.expires_at)
      IN  publications' = done.log /\ outcomes' = done.outcomes
  <2>1. Handled(call, batch, kept, S, ids) /\ call \in Call
    BY <1>2, <1>4, <1>8
  <2> QED BY <1>2, <2>1, OneAfterAnother
<1>10. at = call.published_at /\ at + window = call.expires_at
  BY <1>3, <1>4, <1>6
<1>11. Abs!Publish(batch, at, window)
  BY <1>1, <1>7, <1>9, <1>10 DEF Abs!Publish
<1>12. at \in 0 .. clock
  BY <1>2, <1>6
<1>13. batch \in Abs!Calls
  BY DEF Batches, Requests, Abs!Calls, Abs!Requests
<1> QED BY <1>11, <1>12, <1>13 DEF Abs!Next

\* Every step is a step of the abstract specification, or one it does not see.
LEMMA StepRefines ==
    Inv /\ Inv' /\ CallsAreTimed /\ [Next]_vars => [Abs!Next]_(Abs!vars)
<1> SUFFICES ASSUME Inv, Inv', CallsAreTimed, [Next]_vars PROVE [Abs!Next]_(Abs!vars)
  OBVIOUS
<1>1. CASE Tick
  BY <1>1 DEF Tick, history, Abs!Next, Abs!Tick
<1>2. CASE UNCHANGED <<clock, history>>
  BY <1>2 DEF history, Abs!vars
<1>3. ASSUME NEW p \in Publishers, NEW batch \in Batches,
             CommitUnkeyed(p, batch) \/ CommitKeyed(p, batch)
      PROVE  Abs!Next
  BY <1>3, CommitPublishes
<1>4. \/ \E m \in messages : Prune(m)
      \/ \E p \in Publishers : Begin(p) \/ Fail(p)
      \/ UNCHANGED vars
      => UNCHANGED <<clock, history>>
  BY DEF Prune, Begin, Fail, vars
<1> QED BY <1>1, <1>2, <1>3, <1>4 DEF Next

\* The transactions answer and leave behind what handling the messages of each batch one
\* after another would, with no ledger: Publishing implements Deduplication.
THEOREM OneByOneHolds == Spec => OneByOne
<1>1. Init => Abs!Init
  BY DEF Init, Abs!Init
<1> QED BY <1>1, InitEstablishes, StepPreserves, TimedAtFirst, TimedAlways, StepRefines, PTL
  DEF Spec, OneByOne, Abs!Spec

=============================================================================
