------------------------ MODULE ReceiptBatches_proofs ------------------------
(***************************************************************************)
(* Proofs about ReceiptBatches, for batches and chunks of every length.    *)
(*                                                                         *)
(* Between two statements, the transaction's view of the tables is what    *)
(* one statement for the items so far would have made of them: so much is  *)
(* inductive, since two statements in a row hit what one for the items of  *)
(* both would hit, each row once.  The two ways out of that, a nack that   *)
(* mixes two lives and an extension that repeats an item, are those of     *)
(* the properties.                                                         *)
(***************************************************************************)
EXTENDS ReceiptBatches, FiniteSetTheorems, TLAPS

-----------------------------------------------------------------------------
(* The inductive invariant.                                                *)

Ops == {"ack", "archive", "nack", "extend", "redrive"}

PairOf(r) == <<r.consumer_id, r.message_id>>

\* A table of deliveries.
IsDeliveries(rows) ==
    /\ rows \in [DOMAIN rows -> Row]
    /\ DOMAIN rows \subseteq Entries /\ IsFiniteSet(DOMAIN rows)

\* A table of archives, where no delivery is archived twice.
IsShelf(shelf) ==
    /\ shelf \in [DOMAIN shelf -> [consumer_id : Consumers, message_id : Messages]]
    /\ DOMAIN shelf \subseteq 1..archive_seq
    /\ \A i \in DOMAIN shelf : PairOf(shelf[i]) \in Entries
    /\ \A i, j \in DOMAIN shelf : PairOf(shelf[i]) = PairOf(shelf[j]) => i = j

\* A delivery is in one of the two tables, and its receipt in somebody's hands.
Tables ==
    /\ archive_seq \in Nat
    /\ IsDeliveries(deliveries) /\ IsShelf(archives)
    /\ \A i \in DOMAIN archives : PairOf(archives[i]) \notin DOMAIN deliveries
    /\ receipts \subseteq Receipt
    /\ \A i \in DOMAIN archives : \E r \in receipts : PairOf(r) = PairOf(archives[i])
    /\ \A row \in DOMAIN deliveries : \E r \in receipts : PairOf(r) = row

\* A batch under way.
IsBatch(t) ==
    /\ t = [op |-> t.op, consumer |-> t.consumer, batch |-> t.batch, at |-> t.at,
            done |-> t.done, view |-> t.view]
    /\ t.op \in Ops /\ t.consumer \in Consumers
    /\ t.op \in {"nack", "extend", "redrive"} => t.at \in Nat
    /\ Len(t.batch) \in Nat /\ DOMAIN t.batch = 1..Len(t.batch)
    /\ t.done \in 0..Len(t.batch)

\* A view has four fields.
IsView(v) ==
    v = [deliveries |-> v.deliveries, archives |-> v.archives, moved |-> v.moved,
         applied |-> v.applied]

\* The view has lost no more than was moved, and it moved only what it has lost.
ViewOfTables(op, c, v) ==
    /\ IsView(v)
    /\ IsDeliveries(v.deliveries) /\ DOMAIN v.deliveries \subseteq DOMAIN deliveries
    /\ DOMAIN v.archives \subseteq DOMAIN archives
    /\ v.archives = [i \in DOMAIN v.archives |-> archives[i]]
    /\ IsFiniteSet(v.moved)
    /\ op = "redrive" =>
         \A m \in v.moved : \E i \in DOMAIN archives \ DOMAIN v.archives :
           archives[i] = [consumer_id |-> c, message_id |-> m]
    /\ op = "archive" =>
         \A m \in v.moved : <<c, m>> \in DOMAIN deliveries \ DOMAIN v.deliveries

\* What the tables were when the transaction began.
Before == [deliveries |-> deliveries, archives |-> archives, moved |-> {}, applied |-> 0]

\* The items of the chunks that are done.
Covered(t) == {t.batch[i] : i \in 1..t.done}

\* The rows that a statement touches.
Hit(v, op, c, items) ==
    IF op = "redrive" THEN Archived(v.archives, c, items) ELSE Current(v.deliveries, c, items)

SameTables(v, w) ==
    v.deliveries = w.deliveries /\ v.archives = w.archives /\ v.moved = w.moved

\* So far, the chunks are one statement.
OneStatementSoFar(t) ==
    \/ t.op = "nack" /\ MixesLives(t)
    \/ SameTables(t.view, Statement(Before, t.op, t.consumer, t.at, Covered(t)))

\* So far, each row was counted once.
CountedSoFar(t) ==
    \/ t.op = "extend" /\ RepeatsAcrossChunks(t)
    \/ t.op = "nack" /\ MixesLives(t)
    \/ t.view.applied = Cardinality(Hit(Before, t.op, t.consumer, Covered(t)))

\* Whole chunks are done.
AtBoundary(t) == t.done = Len(t.batch) \/ \E k \in Nat : t.done = k * ChunkSize

InTransaction ==
    transaction # NULL =>
      /\ IsBatch(transaction) /\ AtBoundary(transaction)
      /\ ViewOfTables(transaction.op, transaction.consumer, transaction.view)
      /\ OneStatementSoFar(transaction) /\ CountedSoFar(transaction)

Inv == Tables /\ InTransaction

-----------------------------------------------------------------------------
(* Arithmetic.                                                             *)

LEMMA MaxOfTwo ==
    ASSUME NEW a \in Nat, NEW b \in Nat
    PROVE  Max({a, b}) = IF a >= b THEN a ELSE b
<1>1. \E x \in {a, b} : \A y \in {a, b} : x >= y
  OBVIOUS
<1>2. Max({a, b}) \in {a, b} /\ \A y \in {a, b} : Max({a, b}) >= y
  BY <1>1 DEF Max
<1>3. a >= b => Max({a, b}) = a
  BY <1>2
<1>4. ~(a >= b) => Max({a, b}) = b
  BY <1>2
<1> QED BY <1>3, <1>4

LEMMA MinOfTwo ==
    ASSUME NEW a \in Nat, NEW b \in Nat
    PROVE  Min({a, b}) = IF a <= b THEN a ELSE b
<1>1. \E x \in {a, b} : \A y \in {a, b} : x <= y
  OBVIOUS
<1>2. Min({a, b}) \in {a, b} /\ \A y \in {a, b} : Min({a, b}) <= y
  BY <1>1 DEF Min
<1>3. a <= b => Min({a, b}) = a
  BY <1>2
<1>4. ~(a <= b) => Min({a, b}) = b
  BY <1>2
<1> QED BY <1>3, <1>4

\* Items on the two sides of a boundary are in different chunks.
LEMMA ChunksApart ==
    ASSUME NEW k \in Nat, NEW i \in Nat, NEW j \in Nat,
           1 <= i, i <= k * ChunkSize, k * ChunkSize < j
    PROVE  (i - 1) \div ChunkSize < (j - 1) \div ChunkSize
<1> DEFINE p == (i - 1) \div ChunkSize
           q == (j - 1) \div ChunkSize
<1>1. ChunkSize \in Nat /\ ChunkSize > 0
  BY BatchAssumption
<1>2. p \in Int /\ q \in Int
  BY <1>1
<1>3. p * ChunkSize <= i - 1
  BY <1>1
<1>4. j - 1 < (q + 1) * ChunkSize
  BY <1>1
<1> HIDE DEF p, q
<1>5. p < k
  <2>1. SUFFICES ASSUME p >= k PROVE FALSE
    BY <1>2
  <2>2. p * ChunkSize >= k * ChunkSize
    BY <1>1, <1>2, <2>1
  <2> QED BY <1>1, <1>2, <1>3, <2>2
<1>6. q >= k
  <2>1. SUFFICES ASSUME q + 1 <= k PROVE FALSE
    BY <1>2
  <2>2. (q + 1) * ChunkSize <= k * ChunkSize
    BY <1>1, <1>2, <2>1
  <2> QED BY <1>1, <1>2, <1>4, <2>2
<1> QED BY <1>2, <1>5, <1>6 DEF p, q

-----------------------------------------------------------------------------
(* Two statements in a row.                                                *)

\* What each statement makes of a view.
LEMMA StatementParts ==
    ASSUME NEW v, IsView(v), NEW op \in Ops, NEW c, NEW at, NEW items
    PROVE  LET w == Statement(v, op, c, at, items)
               hit == Hit(v, op, c, items)
           IN  /\ IsView(w)
               /\ w.applied = v.applied + Cardinality(hit)
               /\ op = "redrive" =>
                    /\ w.deliveries = v.deliveries
                    /\ w.archives = Without(v.archives, hit)
                    /\ w.moved = v.moved \union {v.archives[i].message_id : i \in hit}
               /\ op # "redrive" => w.archives = v.archives
               /\ op = "nack" => w.deliveries = Released(v.deliveries, hit, at)
               /\ op = "extend" => w.deliveries = Extended(v.deliveries, hit, at)
               /\ op \in {"ack", "archive"} => w.deliveries = Without(v.deliveries, hit)
               /\ op = "archive" => w.moved = v.moved \union {row[2] : row \in hit}
               /\ op \in {"ack", "nack", "extend"} => w.moved = v.moved
<1> DEFINE w == Statement(v, op, c, at, items)
           hit == Hit(v, op, c, items)
           gone == {v.archives[i].message_id : i \in hit}
           shelved == {row[2] : row \in hit}
<1>1. CASE op = "redrive"
  <2>1. hit = Archived(v.archives, c, items)
    BY <1>1 DEF Hit
  <2>2. w = [v EXCEPT !.archives = Without(@, hit), !.moved = @ \union gone,
                      !.applied = @ + Cardinality(hit)]
    BY <1>1, <2>1 DEF Statement
  <2> HIDE DEF w, hit, gone
  <2>3. w = [deliveries |-> v.deliveries, archives |-> Without(v.archives, hit),
             moved |-> v.moved \union gone, applied |-> v.applied + Cardinality(hit)]
    BY <2>2 DEF IsView
  <2>4. IsView(w) /\ w.applied = v.applied + Cardinality(hit) /\ w.deliveries = v.deliveries
        /\ w.archives = Without(v.archives, hit) /\ w.moved = v.moved \union gone
    BY <2>3 DEF IsView
  <2> QED BY <1>1, <2>4 DEF w, hit, gone
<1>2. CASE op # "redrive"
  <2> DEFINE rows == CASE op = "nack" -> Released(v.deliveries, hit, at)
                       [] op = "extend" -> Extended(v.deliveries, hit, at)
                       [] OTHER -> Without(v.deliveries, hit)
             moved == IF op = "archive" THEN shelved ELSE {}
  <2>1. hit = Current(v.deliveries, c, items)
    BY <1>2 DEF Hit
  <2>2. w = [v EXCEPT !.deliveries = rows, !.moved = @ \union moved,
                      !.applied = @ + Cardinality(hit)]
    BY <1>2, <2>1 DEF Statement
  <2>3. /\ op = "nack" => rows = Released(v.deliveries, hit, at)
        /\ op = "extend" => rows = Extended(v.deliveries, hit, at)
        /\ op \in {"ack", "archive"} => rows = Without(v.deliveries, hit)
    OBVIOUS
  <2>4. /\ op = "archive" => moved = shelved
        /\ op \in {"ack", "nack", "extend"} => moved = {}
    OBVIOUS
  <2> HIDE DEF w, hit, shelved, rows, moved
  <2>5. w = [deliveries |-> rows, archives |-> v.archives,
             moved |-> v.moved \union moved, applied |-> v.applied + Cardinality(hit)]
    BY <2>2 DEF IsView
  <2>6. IsView(w) /\ w.applied = v.applied + Cardinality(hit) /\ w.deliveries = rows
        /\ w.archives = v.archives /\ w.moved = v.moved \union moved
    BY <2>5 DEF IsView
  <2>7. op \in {"ack", "nack", "extend"} => w.moved = v.moved
    BY <2>4, <2>6
  <2>8. op = "archive" => w.moved = v.moved \union shelved
    BY <2>4, <2>6
  <2> QED BY <1>2, <2>3, <2>6, <2>7, <2>8 DEF w, hit, shelved
<1> QED BY <1>1, <1>2

\* The items of two statements.
IsUnion(AB, A, B) == AB = A \union B

\* Rows that are gone are not hit again.
LEMMA GoneIsGone ==
    ASSUME NEW rows, NEW c, NEW A, NEW B, NEW AB, IsUnion(AB, A, B)
    PROVE  /\ Current(Without(rows, Current(rows, c, A)), c, B)
                = Current(rows, c, AB) \ Current(rows, c, A)
           /\ Archived(Without(rows, Archived(rows, c, A)), c, B)
                = Archived(rows, c, AB) \ Archived(rows, c, A)
  BY DEF Current, Archived, Without, IsUnion

LEMMA WithoutTwice ==
    ASSUME NEW f, NEW S, NEW T, S \subseteq T
    PROVE  Without(Without(f, S), T \ S) = Without(f, T)
  BY DEF Without

\* The receipts of some items are of the life after that of others.
Mixed(A, B) ==
    \E r \in A, s \in B :
      /\ r.consumer_id = s.consumer_id /\ r.message_id = s.message_id
      /\ s.generation = r.generation + 1

\* Nor are rows that a nack has released, unless it mixes lives.
LEMMA ReleasedIsGone ==
    ASSUME NEW rows, \A row \in DOMAIN rows : rows[row].generation \in Nat,
           NEW c, NEW at, NEW A, NEW B, NEW AB, IsUnion(AB, A, B),
           ~ Mixed(A, B)
    PROVE  LET hit == Current(rows, c, A)
               both == Current(rows, c, AB)
               after == Released(rows, hit, at)
               again == Current(after, c, B)
           IN  /\ again = both \ hit
               /\ Released(after, again, at) = Released(rows, both, at)
<1> DEFINE hit == Current(rows, c, A)
           both == Current(rows, c, AB)
           after == Released(rows, hit, at)
           again == Current(after, c, B)
           item(row) == [consumer_id |-> c, message_id |-> row[2],
                         generation |-> rows[row].generation]
           next(row) == [consumer_id |-> c, message_id |-> row[2],
                         generation |-> rows[row].generation + 1]
<1>1. DOMAIN after = DOMAIN rows
  BY DEF Released
<1>2. \A row \in DOMAIN rows : row \in hit <=> row[1] = c /\ item(row) \in A
  BY DEF Current
<1>3. \A row \in DOMAIN rows : row \in both <=> row[1] = c /\ item(row) \in AB
  BY DEF Current
<1>4. \A row \in hit : after[row].generation = rows[row].generation + 1
  BY DEF Released, Current
<1>5. \A row \in DOMAIN rows \ hit : after[row] = rows[row]
  BY DEF Released, Current
<1>6. hit \subseteq both /\ both \subseteq DOMAIN rows
  BY DEF Current, IsUnion
<1>7. \A row \in DOMAIN rows :
        row \in again <=>
          row[1] = c /\ [consumer_id |-> c, message_id |-> row[2],
                         generation |-> after[row].generation] \in B
  BY <1>1 DEF Current
<1>8. again \subseteq DOMAIN rows
  BY <1>1 DEF Current
<1>9. \A row \in hit : row \notin again
  <2>1. SUFFICES ASSUME NEW row \in hit, row \in again PROVE FALSE
    OBVIOUS
  <2>2. row \in DOMAIN rows
    BY <1>6
  <2>3. item(row) \in A
    BY <1>2, <2>2
  <2> HIDE DEF hit, again, after
  <2>4. next(row) \in B
    BY <1>4, <1>7, <2>1, <2>2
  <2> QED BY <2>3, <2>4 DEF Mixed
<1>10. \A row \in DOMAIN rows \ hit : row \in again <=> row \in both
  <2> HIDE DEF hit, again, after, both
  <2> QED BY <1>2, <1>3, <1>5, <1>7 DEF IsUnion
<1>11. again = both \ hit
  <2> HIDE DEF hit, again, after, both
  <2> QED BY <1>6, <1>8, <1>9, <1>10
<1>12. Released(after, again, at) = Released(rows, both, at)
  <2> HIDE DEF hit, both, again
  <2> QED BY <1>6, <1>11 DEF Released
<1> QED BY <1>11, <1>12

\* An extension leaves its receipts current, and extends to the same deadline again.
LEMMA ExtendedTwice ==
    ASSUME NEW rows, \A row \in DOMAIN rows : rows[row] \in Row,
           NEW c, NEW at \in Nat,
           NEW A, NEW B, NEW AB, IsUnion(AB, A, B)
    PROVE  LET hit == Current(rows, c, A)
               again == Current(rows, c, B)
               both == Current(rows, c, AB)
           IN  /\ Current(Extended(rows, hit, at), c, B) = again
               /\ Extended(Extended(rows, hit, at), again, at) = Extended(rows, both, at)
               /\ both = hit \union again
<1> DEFINE hit == Current(rows, c, A)
           again == Current(rows, c, B)
           both == Current(rows, c, AB)
           later(row) == [generation |-> rows[row].generation,
                          visible_at |-> IF rows[row].visible_at >= at
                                         THEN rows[row].visible_at ELSE at]
<1>1. both = hit \union again /\ both \subseteq DOMAIN rows
  BY DEF Current, IsUnion
<1>2. \A row \in DOMAIN rows :
        [rows[row] EXCEPT !.visible_at = Max({@, at})] = later(row)
  BY MaxOfTwo DEF Row
<1>3. \A row \in DOMAIN rows :
        later(row) \in Row /\ [later(row) EXCEPT !.visible_at = Max({@, at})] = later(row)
  <2>1. SUFFICES ASSUME NEW row \in DOMAIN rows
                 PROVE  later(row) \in Row
                        /\ [later(row) EXCEPT !.visible_at = Max({@, at})] = later(row)
    OBVIOUS
  <2>2. rows[row].visible_at \in Nat /\ rows[row].generation \in Nat
    BY DEF Row
  <2>3. Max({later(row).visible_at, at}) = later(row).visible_at
    BY <2>2, MaxOfTwo
  <2> QED BY <2>2, <2>3 DEF Row
<1> HIDE DEF later, hit, again, both
<1>4. \A S : Extended(rows, S, at)
               = [row \in DOMAIN rows |-> IF row \in S THEN later(row) ELSE rows[row]]
  BY <1>2 DEF Extended
<1>5. \A S : \A row \in DOMAIN rows : Extended(rows, S, at)[row].generation = rows[row].generation
  BY <1>4 DEF later
<1>6. Current(Extended(rows, hit, at), c, B) = again
  BY <1>4, <1>5 DEF Current, again
<1>7. Extended(Extended(rows, hit, at), again, at)
        = [row \in DOMAIN rows |-> IF row \in both THEN later(row) ELSE rows[row]]
  BY <1>1, <1>2, <1>3, <1>4 DEF Extended
<1> QED BY <1>1, <1>4, <1>6, <1>7 DEF hit, again, both

\* A statement for some items and one for others are one for all of them; they touch no row
\* twice, unless an extension repeats an item.
LEMMA StatementsCompose ==
    ASSUME NEW op \in Ops, NEW c, NEW at, NEW u, NEW v, IsView(u), IsView(v),
           NEW A, NEW B, NEW AB, IsUnion(AB, A, B),
           IsDeliveries(u.deliveries),
           op \in {"nack", "extend", "redrive"} => at \in Nat,
           op = "nack" => ~ Mixed(A, B),
           SameTables(v, Statement(u, op, c, at, A))
    PROVE  /\ SameTables(Statement(v, op, c, at, B), Statement(u, op, c, at, AB))
           /\ Hit(u, op, c, AB) = Hit(u, op, c, A) \union Hit(v, op, c, B)
           /\ op # "extend" \/ A \intersect B = {} =>
                Hit(u, op, c, A) \intersect Hit(v, op, c, B) = {}
<1> DEFINE first == Hit(u, op, c, A)
           second == Hit(v, op, c, B)
           both == Hit(u, op, c, AB)
           w == Statement(v, op, c, at, B)
           x == Statement(u, op, c, at, AB)
           y == Statement(u, op, c, at, A)
<1>1. \A row \in DOMAIN u.deliveries : u.deliveries[row] \in Row
  BY DEF IsDeliveries
<1>2. /\ op = "redrive" =>
           /\ y.deliveries = u.deliveries
           /\ y.archives = Without(u.archives, first)
           /\ y.moved = u.moved \union {u.archives[i].message_id : i \in first}
      /\ op # "redrive" => y.archives = u.archives
      /\ op = "nack" => y.deliveries = Released(u.deliveries, first, at)
      /\ op = "extend" => y.deliveries = Extended(u.deliveries, first, at)
      /\ op \in {"ack", "archive"} => y.deliveries = Without(u.deliveries, first)
      /\ op = "archive" => y.moved = u.moved \union {row[2] : row \in first}
      /\ op \in {"ack", "nack", "extend"} => y.moved = u.moved
  BY StatementParts
<1>3. /\ op = "redrive" =>
           /\ w.deliveries = v.deliveries
           /\ w.archives = Without(v.archives, second)
           /\ w.moved = v.moved \union {v.archives[i].message_id : i \in second}
      /\ op # "redrive" => w.archives = v.archives
      /\ op = "nack" => w.deliveries = Released(v.deliveries, second, at)
      /\ op = "extend" => w.deliveries = Extended(v.deliveries, second, at)
      /\ op \in {"ack", "archive"} => w.deliveries = Without(v.deliveries, second)
      /\ op = "archive" => w.moved = v.moved \union {row[2] : row \in second}
      /\ op \in {"ack", "nack", "extend"} => w.moved = v.moved
  BY StatementParts
<1>4. /\ op = "redrive" =>
           /\ x.deliveries = u.deliveries
           /\ x.archives = Without(u.archives, both)
           /\ x.moved = u.moved \union {u.archives[i].message_id : i \in both}
      /\ op # "redrive" => x.archives = u.archives
      /\ op = "nack" => x.deliveries = Released(u.deliveries, both, at)
      /\ op = "extend" => x.deliveries = Extended(u.deliveries, both, at)
      /\ op \in {"ack", "archive"} => x.deliveries = Without(u.deliveries, both)
      /\ op = "archive" => x.moved = u.moved \union {row[2] : row \in both}
      /\ op \in {"ack", "nack", "extend"} => x.moved = u.moved
  BY StatementParts
<1>5. v.deliveries = y.deliveries /\ v.archives = y.archives /\ v.moved = y.moved
  BY DEF SameTables
<1>6. op # "redrive" =>
        /\ first = Current(u.deliveries, c, A) /\ second = Current(v.deliveries, c, B)
        /\ both = Current(u.deliveries, c, AB)
  BY DEF Hit
<1>7. op = "redrive" =>
        /\ first = Archived(u.archives, c, A) /\ second = Archived(v.archives, c, B)
        /\ both = Archived(u.archives, c, AB)
  BY DEF Hit
<1>8. first \subseteq both
  BY DEF Hit, Current, Archived, IsUnion
<1>13. \A rows : /\ Current(Without(rows, Current(rows, c, A)), c, B)
                     = Current(rows, c, AB) \ Current(rows, c, A)
                  /\ Archived(Without(rows, Archived(rows, c, A)), c, B)
                     = Archived(rows, c, AB) \ Archived(rows, c, A)
  BY GoneIsGone
<1>14. /\ Without(Without(u.deliveries, first), both \ first)
            = Without(u.deliveries, both)
       /\ Without(Without(u.archives, first), both \ first)
            = Without(u.archives, both)
  <2> HIDE DEF first, both
  <2> QED BY <1>8, WithoutTwice
<1>9. CASE op \in {"ack", "archive"}
  <2> HIDE DEF first, second, both, w, x, y
  <2>1. v.deliveries = Without(u.deliveries, first)
    BY <1>2, <1>5, <1>9
  <2>2. second = both \ first
    BY <1>6, <1>9, <1>13, <2>1
  <2>3. w.deliveries = Without(Without(u.deliveries, first), second)
    BY <1>3, <1>9, <2>1
  <2>4. w.deliveries = Without(u.deliveries, both)
    BY <1>14, <2>2, <2>3
  <2>6. w.deliveries = x.deliveries
    BY <1>4, <1>9, <2>4
  <2>7. w.archives = x.archives
    BY <1>2, <1>3, <1>4, <1>5, <1>9
  <2>8. w.moved = x.moved
    <3>1. CASE op = "ack"
      BY <1>2, <1>3, <1>4, <1>5, <3>1
    <3>2. CASE op = "archive"
      <4>1. /\ w.moved = (u.moved \union {row[2] : row \in first}) \union {row[2] : row \in second}
            /\ x.moved = u.moved \union {row[2] : row \in both}
        BY <1>2, <1>3, <1>4, <1>5, <3>2
      <4>2. both = first \union second
        BY <1>8, <2>2
      <4> QED BY <4>1, <4>2
    <3> QED BY <1>9, <3>1, <3>2
  <2>9. both = first \union second /\ first \intersect second = {}
    BY <1>8, <2>2
  <2> QED BY <2>6, <2>7, <2>8, <2>9 DEF SameTables, first, second, both, w, x
<1>10. CASE op = "redrive"
  <2> HIDE DEF first, second, both, w, x, y
  <2>1. v.archives = Without(u.archives, first)
    BY <1>2, <1>5, <1>10
  <2>2. second = both \ first
    BY <1>7, <1>10, <1>13, <2>1
  <2>3. w.archives = Without(Without(u.archives, first), second)
    BY <1>3, <1>10, <2>1
  <2>4. w.archives = Without(u.archives, both)
    BY <1>14, <2>2, <2>3
  <2>6. w.archives = x.archives
    BY <1>4, <1>10, <2>4
  <2>7. w.deliveries = x.deliveries
    BY <1>2, <1>3, <1>4, <1>5, <1>10
  <2>8. w.moved = x.moved
    <3>1. /\ w.moved = (u.moved \union {u.archives[i].message_id : i \in first})
                         \union {v.archives[i].message_id : i \in second}
          /\ x.moved = u.moved \union {u.archives[i].message_id : i \in both}
      BY <1>2, <1>3, <1>4, <1>5, <1>10
    <3>2. both \subseteq DOMAIN u.archives
      BY <1>7, <1>10 DEF Archived
    <3>3. \A i \in second : v.archives[i] = u.archives[i]
      BY <2>1, <2>2, <3>2 DEF Without
    <3>4. {v.archives[i].message_id : i \in second} = {u.archives[i].message_id : i \in second}
      BY <3>3
    <3>5. both = first \union second
      BY <1>8, <2>2
    <3> QED BY <3>1, <3>4, <3>5
  <2>9. both = first \union second /\ first \intersect second = {}
    BY <1>8, <2>2
  <2> QED BY <2>6, <2>7, <2>8, <2>9 DEF SameTables, first, second, both, w, x
<1>11. CASE op = "nack"
  <2>1. \A row \in DOMAIN u.deliveries : u.deliveries[row].generation \in Nat
    BY <1>1 DEF Row
  <2> HIDE DEF first, second, both, w, x, y
  <2>2. v.deliveries = Released(u.deliveries, first, at)
    BY <1>2, <1>5, <1>11
  <2>3. LET after == Released(u.deliveries, first, at)
            again == Current(after, c, B)
        IN  again = both \ first /\ Released(after, again, at) = Released(u.deliveries, both, at)
    <3> DEFINE one == Current(u.deliveries, c, A)
               all == Current(u.deliveries, c, AB)
    <3>1. ~ Mixed(A, B)
      BY <1>11
    <3>2. LET after == Released(u.deliveries, one, at)
              again == Current(after, c, B)
          IN  again = all \ one /\ Released(after, again, at) = Released(u.deliveries, all, at)
      BY <2>1, <3>1, ReleasedIsGone
    <3>3. first = one /\ both = all
      BY <1>6, <1>11
    <3> QED BY <3>2, <3>3
  <2>4. second = both \ first
    BY <1>6, <1>11, <2>2, <2>3
  <2>5. w.deliveries = x.deliveries
    BY <1>3, <1>4, <1>11, <2>2, <2>3, <2>4
  <2>6. w.archives = x.archives /\ w.moved = x.moved
    BY <1>2, <1>3, <1>4, <1>5, <1>11
  <2>7. both = first \union second /\ first \intersect second = {}
    BY <1>8, <2>4
  <2> QED BY <2>5, <2>6, <2>7 DEF SameTables, first, second, both, w, x
<1>12. CASE op = "extend"
  <2> HIDE DEF first, second, both, w, x, y
  <2>1. v.deliveries = Extended(u.deliveries, first, at)
    BY <1>2, <1>5, <1>12
  <2>2. at \in Nat
    BY <1>12
  <2>3. /\ Current(Extended(u.deliveries, first, at), c, B) = Current(u.deliveries, c, B)
        /\ Extended(Extended(u.deliveries, first, at), Current(u.deliveries, c, B), at)
             = Extended(u.deliveries, both, at)
        /\ both = first \union Current(u.deliveries, c, B)
    BY <1>1, <1>6, <1>12, <2>2, ExtendedTwice
  <2>4. second = Current(u.deliveries, c, B)
    BY <1>6, <1>12, <2>1, <2>3
  <2>5. w.deliveries = x.deliveries
    BY <1>3, <1>4, <1>12, <2>1, <2>3, <2>4
  <2>6. w.archives = x.archives /\ w.moved = x.moved
    BY <1>2, <1>3, <1>4, <1>5, <1>12
  <2>7. A \intersect B = {} => first \intersect second = {}
    BY <1>6, <1>12, <2>4 DEF Current
  <2> QED BY <1>12, <2>3, <2>4, <2>5, <2>6, <2>7 DEF SameTables, first, second, both, w, x
<1> QED BY <1>9, <1>10, <1>11, <1>12 DEF Ops

-----------------------------------------------------------------------------
(* A statement on a view of the tables.                                    *)

\* A function of finitely many arguments has finitely many values.
LEMMA ValuesAreFinite ==
    ASSUME NEW S, IsFiniteSet(S), NEW f, DOMAIN f = S, f = [x \in S |-> f[x]],
           NEW T, \A y : y \in T <=> \E x \in S : y = f[x]
    PROVE  IsFiniteSet(T)
<1>1. f \in Surjection(S, T)
  BY DEF Surjection
<1> QED BY <1>1, FS_Surjection

\* The rows of a statement are finitely many.
LEMMA HitsAreFinite ==
    ASSUME Tables, NEW v, IsDeliveries(v.deliveries), DOMAIN v.archives \subseteq DOMAIN archives,
           NEW op, NEW c, NEW items
    PROVE  /\ IsFiniteSet(Hit(v, op, c, items))
           /\ Cardinality(Hit(v, op, c, items)) \in Nat
<1>1. IsFiniteSet(1..archive_seq)
  BY FS_Interval DEF Tables
<1>2. DOMAIN v.archives \subseteq 1..archive_seq
  BY DEF Tables, IsShelf
<1>3. IsFiniteSet(DOMAIN v.archives)
  BY <1>1, <1>2, FS_Subset
<1>4. Archived(v.archives, c, items) \subseteq DOMAIN v.archives
  BY DEF Archived
<1>5. Current(v.deliveries, c, items) \subseteq DOMAIN v.deliveries
  BY DEF Current
<1>6. IsFiniteSet(DOMAIN v.deliveries)
  BY DEF IsDeliveries
<1>7. IsFiniteSet(Archived(v.archives, c, items))
  BY <1>3, <1>4, FS_Subset
<1>8. IsFiniteSet(Current(v.deliveries, c, items))
  BY <1>5, <1>6, FS_Subset
<1>9. IsFiniteSet(Hit(v, op, c, items))
  BY <1>7, <1>8 DEF Hit
<1> QED BY <1>9, FS_CardinalityType

\* A statement keeps a view what it is.
LEMMA ViewsStayViews ==
    ASSUME Tables, NEW op \in Ops, NEW c, NEW at, NEW items, NEW v,
           ViewOfTables(op, c, v), op \in {"nack", "extend", "redrive"} => at \in Nat
    PROVE  ViewOfTables(op, c, Statement(v, op, c, at, items))
<1> DEFINE w == Statement(v, op, c, at, items)
           hit == Hit(v, op, c, items)
<1>1. IsView(v) /\ IsDeliveries(v.deliveries) /\ DOMAIN v.archives \subseteq DOMAIN archives
  BY DEF ViewOfTables
<1>2. /\ IsView(w)
      /\ op = "redrive" =>
           /\ w.deliveries = v.deliveries
           /\ w.archives = Without(v.archives, hit)
           /\ w.moved = v.moved \union {v.archives[i].message_id : i \in hit}
      /\ op # "redrive" => w.archives = v.archives
      /\ op = "nack" => w.deliveries = Released(v.deliveries, hit, at)
      /\ op = "extend" => w.deliveries = Extended(v.deliveries, hit, at)
      /\ op \in {"ack", "archive"} => w.deliveries = Without(v.deliveries, hit)
      /\ op = "archive" => w.moved = v.moved \union {row[2] : row \in hit}
      /\ op \in {"ack", "nack", "extend"} => w.moved = v.moved
  BY <1>1, StatementParts
<1>3. IsFiniteSet(hit)
  BY <1>1, HitsAreFinite
<1>4. op = "redrive" => hit = Archived(v.archives, c, items)
  BY DEF Hit
<1>5. op # "redrive" => hit = Current(v.deliveries, c, items)
  BY DEF Hit
<1> HIDE DEF w, hit
<1>6. IsDeliveries(w.deliveries) /\ DOMAIN w.deliveries \subseteq DOMAIN deliveries
  <2>1. DOMAIN v.deliveries \subseteq DOMAIN deliveries
    BY DEF ViewOfTables
  <2>2. v.deliveries \in [DOMAIN v.deliveries -> Row] /\ DOMAIN v.deliveries \subseteq Entries
        /\ IsFiniteSet(DOMAIN v.deliveries)
    BY <1>1 DEF IsDeliveries
  <2>3. CASE op \in {"ack", "archive"}
    <3>1. w.deliveries = Without(v.deliveries, hit)
      BY <1>2, <2>3
    <3>2. w.deliveries \in [DOMAIN w.deliveries -> Row]
          /\ DOMAIN w.deliveries \subseteq DOMAIN v.deliveries
      BY <2>2, <3>1 DEF Without
    <3>3. IsFiniteSet(DOMAIN w.deliveries)
      BY <2>2, <3>2, FS_Subset
    <3> QED BY <2>1, <2>2, <3>2, <3>3 DEF IsDeliveries
  <2>4. CASE op = "redrive"
    BY <1>1, <1>2, <2>1, <2>4
  <2>5. CASE op = "nack"
    <3>1. w.deliveries = Released(v.deliveries, hit, at) /\ at \in Nat
      BY <1>2, <2>5
    <3>2. w.deliveries \in [DOMAIN v.deliveries -> Row]
      BY <2>2, <3>1 DEF Released, Row
    <3>3. DOMAIN w.deliveries = DOMAIN v.deliveries
      BY <3>2
    <3> QED BY <2>1, <2>2, <3>2, <3>3 DEF IsDeliveries
  <2>6. CASE op = "extend"
    <3>1. w.deliveries = Extended(v.deliveries, hit, at) /\ at \in Nat
      BY <1>2, <2>6
    <3>2. \A row \in DOMAIN v.deliveries :
            [v.deliveries[row] EXCEPT !.visible_at = Max({@, at})] \in Row
      <4>1. SUFFICES ASSUME NEW row \in DOMAIN v.deliveries
                     PROVE  [v.deliveries[row] EXCEPT !.visible_at = Max({@, at})] \in Row
        OBVIOUS
      <4>2. v.deliveries[row] \in Row
        BY <2>2
      <4>3. v.deliveries[row].visible_at \in Nat
        BY <4>2 DEF Row
      <4>4. Max({v.deliveries[row].visible_at, at}) \in Nat
        BY <3>1, <4>3, MaxOfTwo
      <4> QED BY <4>2, <4>4 DEF Row
    <3>3. w.deliveries \in [DOMAIN v.deliveries -> Row]
      BY <2>2, <3>1, <3>2 DEF Extended
    <3>4. DOMAIN w.deliveries = DOMAIN v.deliveries
      BY <3>3
    <3> QED BY <2>1, <2>2, <3>3, <3>4 DEF IsDeliveries
  <2> QED BY <2>3, <2>4, <2>5, <2>6 DEF Ops
<1>7. /\ DOMAIN w.archives \subseteq DOMAIN v.archives
      /\ w.archives = [i \in DOMAIN w.archives |-> archives[i]]
  <2>1. v.archives = [i \in DOMAIN v.archives |-> archives[i]]
    BY DEF ViewOfTables
  <2>2. CASE op = "redrive"
    <3>1. w.archives = Without(v.archives, hit)
      BY <1>2, <2>2
    <3> QED BY <2>1, <3>1 DEF Without
  <2>3. CASE op # "redrive"
    BY <1>2, <2>1, <2>3
  <2> QED BY <2>2, <2>3
<1>8. IsFiniteSet(w.moved)
  <2>1. IsFiniteSet(v.moved)
    BY DEF ViewOfTables
  <2>2. CASE op = "redrive"
    <3> DEFINE ids == {v.archives[i].message_id : i \in hit}
               id == [i \in hit |-> v.archives[i].message_id]
    <3>1. w.moved = v.moved \union ids
      BY <1>2, <2>2
    <3>2. DOMAIN id = hit /\ id = [i \in hit |-> id[i]]
          /\ \A y : y \in ids <=> \E x \in hit : y = id[x]
      OBVIOUS
    <3> HIDE DEF ids, id
    <3>3. IsFiniteSet(ids)
      BY <1>3, <3>2, ValuesAreFinite
    <3> QED BY <2>1, <3>1, <3>3, FS_Union
  <2>3. CASE op = "archive"
    <3> DEFINE ids == {row[2] : row \in hit}
               id == [row \in hit |-> row[2]]
    <3>1. w.moved = v.moved \union ids
      BY <1>2, <2>3
    <3>2. DOMAIN id = hit /\ id = [row \in hit |-> id[row]]
          /\ \A y : y \in ids <=> \E x \in hit : y = id[x]
      OBVIOUS
    <3> HIDE DEF ids, id
    <3>3. IsFiniteSet(ids)
      BY <1>3, <3>2, ValuesAreFinite
    <3> QED BY <2>1, <3>1, <3>3, FS_Union
  <2>4. CASE op \in {"ack", "nack", "extend"}
    BY <1>2, <2>1, <2>4
  <2> QED BY <2>2, <2>3, <2>4 DEF Ops
<1>9. ASSUME op = "redrive", NEW m \in w.moved
      PROVE  \E i \in DOMAIN archives \ DOMAIN w.archives :
               archives[i] = [consumer_id |-> c, message_id |-> m]
  <2>1. CASE m \in v.moved
    <3>1. \E i \in DOMAIN archives \ DOMAIN v.archives :
            archives[i] = [consumer_id |-> c, message_id |-> m]
      BY <1>9, <2>1 DEF ViewOfTables
    <3> QED BY <1>7, <3>1
  <2>2. CASE m \notin v.moved
    <3>1. PICK i \in hit : m = v.archives[i].message_id
      BY <1>2, <1>9, <2>2
    <3>2. i \in DOMAIN v.archives /\ v.archives[i].consumer_id = c
      BY <1>4, <1>9, <3>1 DEF Archived
    <3>3. i \in DOMAIN archives /\ archives[i] = v.archives[i]
      BY <1>1, <3>2 DEF ViewOfTables
    <3>4. archives[i] \in [consumer_id : Consumers, message_id : Messages]
      BY <3>3 DEF Tables, IsShelf
    <3>5. archives[i] = [consumer_id |-> c, message_id |-> m]
      BY <3>1, <3>2, <3>3, <3>4
    <3>6. i \notin DOMAIN w.archives
      BY <1>2, <1>9, <3>1 DEF Without
    <3> QED BY <3>3, <3>5, <3>6
  <2> QED BY <2>1, <2>2
<1>10. ASSUME op = "archive", NEW m \in w.moved
       PROVE  <<c, m>> \in DOMAIN deliveries \ DOMAIN w.deliveries
  <2>1. w.deliveries = Without(v.deliveries, hit)
    BY <1>2, <1>10
  <2>2. DOMAIN w.deliveries = DOMAIN v.deliveries \ hit
    BY <2>1 DEF Without
  <2>3. CASE m \in v.moved
    <3>1. <<c, m>> \in DOMAIN deliveries \ DOMAIN v.deliveries
      BY <1>10, <2>3 DEF ViewOfTables
    <3> QED BY <2>2, <3>1
  <2>4. CASE m \notin v.moved
    <3>1. PICK row \in hit : m = row[2]
      BY <1>2, <1>10, <2>4
    <3>2. row \in DOMAIN v.deliveries /\ row[1] = c
      BY <1>5, <1>10, <3>1 DEF Current
    <3>3. row \in Consumers \X Messages
      BY <1>1, <3>2, BatchAssumption DEF IsDeliveries
    <3>4. row = <<c, m>>
      BY <3>1, <3>2, <3>3
    <3>5. row \in DOMAIN deliveries
      BY <3>2 DEF ViewOfTables
    <3> QED BY <2>2, <3>1, <3>4, <3>5
  <2> QED BY <2>3, <2>4
<1> QED
  <2>1. DOMAIN w.archives \subseteq DOMAIN archives
    BY <1>1, <1>7
  <2>2. ViewOfTables(op, c, w)
    BY <1>2, <1>6, <1>7, <1>8, <1>9, <1>10, <2>1 DEF ViewOfTables
  <2> QED BY <2>2 DEF w

\* A chunk takes what is covered from one boundary to the next.
LEMMA NextChunk ==
    ASSUME NEW t, IsBatch(t), AtBoundary(t), t.done # Len(t.batch),
           NEW u, u.batch = t.batch, u.done = Min({t.done + ChunkSize, Len(t.batch)})
    PROVE  /\ u.done \in 0..Len(u.batch) /\ AtBoundary(u)
           /\ IsUnion(Covered(u), Covered(t), Chunk(t))
           /\ \A x \in Covered(t) \intersect Chunk(t) : RepeatsAcrossChunks(t)
<1>1. ChunkSize \in Nat /\ ChunkSize > 0
  BY BatchAssumption
<1>2. /\ t.done \in Nat /\ Len(t.batch) \in Nat /\ t.done < Len(t.batch)
      /\ DOMAIN t.batch = 1..Len(t.batch)
  BY DEF IsBatch
<1> DEFINE next == Min({t.done + ChunkSize, Len(t.batch)})
<1>3. next = IF t.done + ChunkSize <= Len(t.batch) THEN t.done + ChunkSize ELSE Len(t.batch)
  BY <1>1, <1>2, MinOfTwo
<1>4. PICK k \in Nat : t.done = k * ChunkSize
  BY <1>2 DEF AtBoundary
<1>5. Chunk(t) = {t.batch[i] : i \in t.done + 1 .. next}
  BY DEF Chunk
<1> HIDE DEF next
<1>6. next \in Nat /\ t.done < next /\ next <= Len(t.batch)
  BY <1>1, <1>2, <1>3
<1>7. u.done = next /\ u.batch = t.batch
  BY DEF next
<1>8. AtBoundary(u)
  <2>1. CASE next = Len(t.batch)
    BY <1>7, <2>1 DEF AtBoundary
  <2>2. CASE next = t.done + ChunkSize
    <3>1. next = (k + 1) * ChunkSize /\ k + 1 \in Nat
      BY <1>1, <1>4, <2>2
    <3> QED BY <1>7, <3>1 DEF AtBoundary
  <2> QED BY <1>3, <2>1, <2>2
<1>9. IsUnion(Covered(u), Covered(t), Chunk(t))
  <2>1. 1..next = (1..t.done) \union (t.done + 1 .. next)
    BY <1>2, <1>6
  <2>2. Covered(u) = {t.batch[i] : i \in 1..next}
    BY <1>7 DEF Covered
  <2> QED BY <1>5, <2>1, <2>2 DEF IsUnion, Covered
<1>10. ASSUME NEW x \in Covered(t) \intersect Chunk(t)
       PROVE  RepeatsAcrossChunks(t)
  <2>1. PICK i \in 1..t.done : x = t.batch[i]
    BY DEF Covered
  <2>2. PICK j \in t.done + 1 .. next : x = t.batch[j]
    BY <1>5
  <2>3. i \in DOMAIN t.batch /\ j \in DOMAIN t.batch
    BY <1>2, <1>6, <2>1, <2>2
  <2>4. i \in Nat /\ j \in Nat /\ 1 <= i /\ i <= k * ChunkSize /\ k * ChunkSize < j
    BY <1>2, <1>4, <1>6, <2>1, <2>2
  <2>5. (i - 1) \div ChunkSize < (j - 1) \div ChunkSize
    BY <2>4, ChunksApart
  <2> QED BY <2>1, <2>2, <2>3, <2>5 DEF RepeatsAcrossChunks
<1> QED BY <1>2, <1>6, <1>7, <1>8, <1>9, <1>10

-----------------------------------------------------------------------------
(* The steps.                                                              *)

\* The tables are a view of themselves.
LEMMA BeforeIsView ==
    ASSUME Tables
    PROVE  /\ IsView(Before) /\ IsDeliveries(Before.deliveries)
           /\ DOMAIN Before.archives \subseteq DOMAIN archives
           /\ \A op, c : ViewOfTables(op, c, Before)
<1>1. /\ Before.deliveries = deliveries /\ Before.archives = archives
      /\ Before.moved = {} /\ Before.applied = 0
  BY DEF Before
<1>2. IsView(Before)
  BY <1>1 DEF IsView, Before
<1>3. IsDeliveries(deliveries) /\ archives = [i \in DOMAIN archives |-> archives[i]]
  BY DEF Tables, IsShelf
<1>4. IsFiniteSet({})
  BY FS_EmptySet
<1> QED BY <1>1, <1>2, <1>3, <1>4 DEF ViewOfTables

\* A statement for nothing does nothing.
LEMMA NoItems ==
    ASSUME Tables, NEW op \in Ops, NEW c, NEW at, NEW none, none = {}
    PROVE  /\ Hit(Before, op, c, none) = {}
           /\ SameTables(Before, Statement(Before, op, c, at, none))
<1> DEFINE w == Statement(Before, op, c, at, none)
           hit == Hit(Before, op, c, none)
<1>1. hit = {}
  BY DEF Hit, Current, Archived
<1>2. /\ op = "redrive" =>
           /\ w.deliveries = Before.deliveries
           /\ w.archives = Without(Before.archives, hit)
           /\ w.moved = Before.moved \union {Before.archives[i].message_id : i \in hit}
      /\ op # "redrive" => w.archives = Before.archives
      /\ op = "nack" => w.deliveries = Released(Before.deliveries, hit, at)
      /\ op = "extend" => w.deliveries = Extended(Before.deliveries, hit, at)
      /\ op \in {"ack", "archive"} => w.deliveries = Without(Before.deliveries, hit)
      /\ op = "archive" => w.moved = Before.moved \union {row[2] : row \in hit}
      /\ op \in {"ack", "nack", "extend"} => w.moved = Before.moved
  BY BeforeIsView, StatementParts
<1>3. /\ Before.deliveries = [row \in DOMAIN Before.deliveries |-> Before.deliveries[row]]
      /\ Before.archives = [i \in DOMAIN Before.archives |-> Before.archives[i]]
  BY DEF Before, Tables, IsDeliveries, IsShelf
<1> HIDE DEF w, hit
<1>4. /\ Without(Before.deliveries, hit) = Before.deliveries
      /\ Without(Before.archives, hit) = Before.archives
      /\ Released(Before.deliveries, hit, at) = Before.deliveries
      /\ Extended(Before.deliveries, hit, at) = Before.deliveries
  BY <1>1, <1>3 DEF Without, Released, Extended
<1>5. w.deliveries = Before.deliveries
  BY <1>2, <1>4 DEF Ops
<1>6. w.archives = Before.archives
  BY <1>2, <1>4
<1>7. w.moved = Before.moved
  BY <1>1, <1>2 DEF Ops
<1> QED BY <1>1, <1>5, <1>6, <1>7 DEF SameTables, hit, w

\* What a chunk adds to a batch under way.
LEMMA ChunkByChunk ==
    ASSUME Tables, NEW t, IsBatch(t), AtBoundary(t), ViewOfTables(t.op, t.consumer, t.view),
           OneStatementSoFar(t), CountedSoFar(t), t.done # Len(t.batch),
           NEW u, u = [t EXCEPT
                        !.view = Statement(@, t.op, t.consumer, t.at, Chunk(t)),
                        !.done = Min({@ + ChunkSize, Len(t.batch)})]
    PROVE  /\ IsBatch(u) /\ AtBoundary(u) /\ ViewOfTables(u.op, u.consumer, u.view)
           /\ OneStatementSoFar(u) /\ CountedSoFar(u)
<1> DEFINE op == t.op
           c == t.consumer
           first == Hit(Before, op, c, Covered(t))
           second == Hit(t.view, op, c, Chunk(t))
           all == Hit(Before, op, c, Covered(u))
<1>1. u = [op |-> t.op, consumer |-> t.consumer, batch |-> t.batch, at |-> t.at,
           done |-> Min({t.done + ChunkSize, Len(t.batch)}),
           view |-> Statement(t.view, t.op, t.consumer, t.at, Chunk(t))]
  <2> DEFINE next == Min({t.done + ChunkSize, Len(t.batch)})
             view == Statement(t.view, t.op, t.consumer, t.at, Chunk(t))
  <2>1. u = [t EXCEPT !.view = view, !.done = next]
    OBVIOUS
  <2> HIDE DEF next, view
  <2>2. u = [op |-> t.op, consumer |-> t.consumer, batch |-> t.batch, at |-> t.at,
             done |-> next, view |-> view]
    BY <2>1 DEF IsBatch
  <2> QED BY <2>2 DEF next, view
<1>2. /\ u.op = op /\ u.consumer = c /\ u.batch = t.batch /\ u.at = t.at
      /\ u.done = Min({t.done + ChunkSize, Len(t.batch)})
      /\ u.view = Statement(t.view, op, c, t.at, Chunk(t))
      /\ u = [op |-> u.op, consumer |-> u.consumer, batch |-> u.batch, at |-> u.at,
              done |-> u.done, view |-> u.view]
  BY <1>1
<1>3. op \in Ops /\ (op \in {"nack", "extend", "redrive"} => t.at \in Nat)
  BY DEF IsBatch
<1> HIDE DEF op, c
<1>4. /\ u.done \in 0..Len(u.batch) /\ AtBoundary(u)
      /\ IsUnion(Covered(u), Covered(t), Chunk(t))
      /\ \A x \in Covered(t) \intersect Chunk(t) : RepeatsAcrossChunks(t)
  BY <1>2, NextChunk
<1>5. IsBatch(u)
  BY <1>2, <1>4 DEF IsBatch, op, c
<1>6. ViewOfTables(op, c, t.view)
  BY DEF op, c
<1>7. ViewOfTables(u.op, u.consumer, u.view)
  <2>1. ViewOfTables(op, c, Statement(t.view, op, c, t.at, Chunk(t)))
    BY <1>3, <1>6, ViewsStayViews
  <2> QED BY <1>2, <2>1
<1>8. (MixesLives(u) <=> MixesLives(t)) /\ (RepeatsAcrossChunks(u) <=> RepeatsAcrossChunks(t))
  BY <1>2 DEF MixesLives, RepeatsAcrossChunks
<1>9. CASE op = "nack" /\ MixesLives(t)
  BY <1>2, <1>4, <1>5, <1>7, <1>8, <1>9 DEF OneStatementSoFar, CountedSoFar
<1>10. CASE ~ (op = "nack" /\ MixesLives(t))
  <2>1. SameTables(t.view, Statement(Before, op, c, t.at, Covered(t)))
    BY <1>10 DEF OneStatementSoFar, op, c
  <2>2. Covered(t) \subseteq Range(t.batch) /\ Chunk(t) \subseteq Range(t.batch)
    <3>1. Covered(u) \subseteq Range(u.batch)
      BY <1>5 DEF Covered, IsBatch, Range
    <3> QED BY <1>2, <1>4, <3>1 DEF IsUnion
  <2>3. op = "nack" => ~ Mixed(Covered(t), Chunk(t))
    BY <1>10, <2>2 DEF Mixed, MixesLives
  <2>4. /\ IsView(Before) /\ IsDeliveries(Before.deliveries)
        /\ DOMAIN Before.archives \subseteq DOMAIN archives
    BY BeforeIsView
  <2>5. /\ IsView(t.view) /\ IsDeliveries(t.view.deliveries)
        /\ DOMAIN t.view.archives \subseteq DOMAIN archives
    BY <1>6 DEF ViewOfTables
  <2>6. /\ SameTables(Statement(t.view, op, c, t.at, Chunk(t)),
                      Statement(Before, op, c, t.at, Covered(u)))
        /\ all = first \union second
        /\ op # "extend" \/ Covered(t) \intersect Chunk(t) = {} => first \intersect second = {}
    BY <1>3, <1>4, <2>1, <2>3, <2>4, <2>5, StatementsCompose
  <2>7. OneStatementSoFar(u)
    BY <1>2, <2>6 DEF OneStatementSoFar
  <2>8. CountedSoFar(u)
    <3>1. CASE op = "extend" /\ RepeatsAcrossChunks(t)
      BY <1>2, <1>8, <3>1 DEF CountedSoFar
    <3>2. CASE ~ (op = "extend" /\ RepeatsAcrossChunks(t))
      <4>1. t.view.applied = Cardinality(first)
        BY <1>10, <3>2 DEF CountedSoFar, op, c
      <4>2. u.view.applied = t.view.applied + Cardinality(second)
        BY <1>2, <1>3, <2>5, StatementParts
      <4>3. first \intersect second = {}
        BY <1>4, <2>6, <3>2
      <4>4. /\ IsFiniteSet(first) /\ Cardinality(first) \in Nat
            /\ IsFiniteSet(second) /\ Cardinality(second) \in Nat
        BY <2>4, <2>5, HitsAreFinite
      <4> HIDE DEF first, second, all
      <4>5. Cardinality(all) = Cardinality(first) + Cardinality(second) - Cardinality({})
        BY <2>6, <4>3, <4>4, FS_Union
      <4>6. Cardinality({}) = 0
        BY FS_EmptySet
      <4>7. u.view.applied = Cardinality(all)
        BY <4>1, <4>2, <4>4, <4>5, <4>6
      <4> QED BY <1>2, <4>7 DEF CountedSoFar, all
    <3> QED BY <3>1, <3>2
  <2> QED BY <1>4, <1>5, <1>7, <2>7, <2>8
<1> QED BY <1>9, <1>10

\* A batch is a sequence, and not empty.
LEMMA BatchesAreSequences ==
    ASSUME NEW S, NEW batch \in BatchesOf(S)
    PROVE  Len(batch) \in Nat /\ DOMAIN batch = 1..Len(batch)
<1>1. PICK n \in 1..MaxBatch : batch \in [1..n -> S]
  BY DEF BatchesOf
<1>2. n \in Nat
  BY <1>1, BatchAssumption
<1>3. batch \in Seq(S)
  BY <1>1, <1>2
<1> QED BY <1>3

LEMMA BeginKeepsInv ==
    ASSUME Inv, NEW op \in Ops, NEW c \in Consumers, NEW S, NEW batch \in BatchesOf(S), NEW at,
           op \in {"nack", "extend", "redrive"} => at \in Nat,
           Begin(op, c, batch, at)
    PROVE  Inv'
<1> DEFINE t == [op |-> op, consumer |-> c, batch |-> batch, at |-> at, done |-> 0,
                 view |-> Before]
<1>1. transaction' = t
  BY DEF Begin, Before
<1>2. UNCHANGED <<deliveries, archives, archive_seq, receipts>>
  BY DEF Begin
<1>3. /\ t.op = op /\ t.consumer = c /\ t.batch = batch /\ t.at = at /\ t.done = 0
      /\ t.view = Before
      /\ t = [op |-> t.op, consumer |-> t.consumer, batch |-> t.batch, at |-> t.at,
              done |-> t.done, view |-> t.view]
  OBVIOUS
<1> HIDE DEF t
<1>4. Tables /\ Tables'
  BY <1>2 DEF Inv, Tables, IsDeliveries, IsShelf
<1>5. Len(batch) \in Nat /\ DOMAIN batch = 1..Len(batch)
  BY BatchesAreSequences
<1>6. IsBatch(t)
  BY <1>3, <1>5 DEF IsBatch
<1>7. AtBoundary(t)
  <2>1. 0 \in Nat /\ 0 = 0 * ChunkSize
    BY BatchAssumption
  <2> QED BY <1>3, <2>1 DEF AtBoundary
<1>8. ViewOfTables(t.op, t.consumer, t.view)
  BY <1>3, <1>4, BeforeIsView
<1>9. Covered(t) = {}
  BY <1>3 DEF Covered
<1>10. /\ Hit(Before, op, c, Covered(t)) = {}
       /\ SameTables(Before, Statement(Before, op, c, at, Covered(t)))
  BY <1>4, <1>9, NoItems
<1>11. OneStatementSoFar(t)
  BY <1>3, <1>10 DEF OneStatementSoFar
<1>12. CountedSoFar(t)
  <2>1. Before.applied = 0
    BY DEF Before
  <2>2. Cardinality({}) = 0
    BY FS_EmptySet
  <2> QED BY <1>3, <1>10, <2>1, <2>2 DEF CountedSoFar
<1>13. PICK u : u = t
  OBVIOUS
<1>14. /\ transaction' = u
       /\ IsBatch(u) /\ AtBoundary(u) /\ ViewOfTables(u.op, u.consumer, u.view)
       /\ OneStatementSoFar(u) /\ CountedSoFar(u)
  BY <1>1, <1>6, <1>7, <1>8, <1>11, <1>12, <1>13
<1>15. InTransaction'
  BY <1>2, <1>14
     DEF InTransaction, Before, IsBatch, AtBoundary, ViewOfTables, OneStatementSoFar, CountedSoFar
<1> QED BY <1>4, <1>15 DEF Inv

LEMMA ExecuteChunkKeepsInv ==
    ASSUME Inv, ExecuteChunk
    PROVE  Inv'
<1>1. UNCHANGED <<deliveries, archives, archive_seq, receipts>>
  BY DEF ExecuteChunk
<1>2. Tables /\ Tables'
  BY <1>1 DEF Inv, Tables, IsDeliveries, IsShelf
<1>3. transaction # NULL /\ transaction.done # Len(transaction.batch)
  BY DEF ExecuteChunk, Finished
<1>4. /\ IsBatch(transaction) /\ AtBoundary(transaction)
      /\ ViewOfTables(transaction.op, transaction.consumer, transaction.view)
      /\ OneStatementSoFar(transaction) /\ CountedSoFar(transaction)
  BY <1>3 DEF Inv, InTransaction
<1>5. PICK t : t = transaction
  OBVIOUS
<1>6. PICK u : u = transaction'
  OBVIOUS
<1>7. u = [t EXCEPT !.view = Statement(@, t.op, t.consumer, t.at, Chunk(t)),
                    !.done = Min({@ + ChunkSize, Len(t.batch)})]
  BY <1>5, <1>6 DEF ExecuteChunk
<1>8. /\ IsBatch(u) /\ AtBoundary(u) /\ ViewOfTables(u.op, u.consumer, u.view)
      /\ OneStatementSoFar(u) /\ CountedSoFar(u)
  BY <1>2, <1>3, <1>4, <1>5, <1>7, ChunkByChunk
<1>9. InTransaction'
  BY <1>1, <1>6, <1>8
     DEF InTransaction, Before, IsBatch, AtBoundary, ViewOfTables, OneStatementSoFar, CountedSoFar
<1> QED BY <1>2, <1>9 DEF Inv

\* What is moved is where it came from, and nowhere else.
LEMMA MovedFrom ==
    ASSUME Inv, transaction # NULL
    PROVE  MovedIsNew
<1>1. Tables /\ ViewOfTables(transaction.op, transaction.consumer, transaction.view)
  BY DEF Inv, InTransaction
<1> DEFINE v == transaction.view
           c == transaction.consumer
<1>2. ASSUME transaction.op = "redrive", NEW m \in v.moved
      PROVE  <<c, m>> \notin DOMAIN v.deliveries
  <2>1. PICK i \in DOMAIN archives : archives[i] = [consumer_id |-> c, message_id |-> m]
    BY <1>1, <1>2 DEF ViewOfTables
  <2>2. PairOf(archives[i]) = <<c, m>>
    BY <2>1 DEF PairOf
  <2> QED BY <1>1, <2>1, <2>2 DEF Tables, ViewOfTables
<1>3. ASSUME transaction.op = "archive", NEW i \in DOMAIN v.archives,
             v.archives[i].consumer_id = c, v.archives[i].message_id \in v.moved
      PROVE  FALSE
  <2>1. i \in DOMAIN archives /\ v.archives[i] = archives[i]
    BY <1>1, <1>3 DEF ViewOfTables
  <2>2. PairOf(archives[i]) = <<c, v.archives[i].message_id>>
    BY <1>3, <2>1 DEF PairOf
  <2>3. <<c, v.archives[i].message_id>> \in DOMAIN deliveries
    BY <1>1, <1>3 DEF ViewOfTables
  <2> QED BY <1>1, <2>1, <2>2, <2>3 DEF Tables
<1> QED BY <1>2, <1>3 DEF MovedIsNew

LEMMA CommitKeepsInv ==
    ASSUME Inv, Commit
    PROVE  Inv'
<1> DEFINE v == transaction.view
           c == transaction.consumer
           op == transaction.op
           at == transaction.at
           restored == {c} \X (IF op = "redrive" THEN v.moved ELSE {})
           shelved == IF op = "archive" THEN v.moved ELSE {}
           id == [m \in shelved |-> archive_seq + Cardinality({n \in shelved : n <= m})]
<1>1. /\ deliveries' = [row \in DOMAIN v.deliveries \union restored |->
                          IF row \in restored THEN [generation |-> 0, visible_at |-> at]
                          ELSE v.deliveries[row]]
      /\ archives' = [i \in DOMAIN v.archives \union Range(id) |->
                        IF i \in DOMAIN v.archives THEN v.archives[i]
                        ELSE [consumer_id |-> c,
                              message_id |-> CHOOSE m \in shelved : id[m] = i]]
      /\ archive_seq' = archive_seq + Cardinality(shelved)
      /\ transaction' = NULL /\ receipts' = receipts
  BY DEF Commit
<1>2. Tables /\ ViewOfTables(op, c, v) /\ IsBatch(transaction)
  BY DEF Inv, InTransaction, Commit, Finished
<1>3. op = "redrive" => at \in Nat
  BY <1>2 DEF IsBatch
<1>4. \A m \in shelved : <<c, m>> \in DOMAIN deliveries /\ <<c, m>> \notin DOMAIN v.deliveries
  BY <1>2 DEF ViewOfTables
<1>5. ASSUME NEW row \in restored
      PROVE  \E i \in DOMAIN archives : /\ row = PairOf(archives[i])
                                        /\ i \notin DOMAIN v.archives
  <2>1. op = "redrive" /\ row \in {c} \X v.moved
    OBVIOUS
  <2>2. PICK m \in v.moved : row = <<c, m>>
    BY <2>1
  <2>3. PICK i \in DOMAIN archives \ DOMAIN v.archives :
          archives[i] = [consumer_id |-> c, message_id |-> m]
    BY <1>2, <2>1 DEF ViewOfTables
  <2> QED BY <2>2, <2>3 DEF PairOf
<1>6. IsFiniteSet(restored) /\ IsFiniteSet(shelved)
  <2>1. IsFiniteSet(v.moved) /\ IsFiniteSet({}) /\ IsFiniteSet({c})
    BY <1>2, FS_EmptySet, FS_Singleton DEF ViewOfTables
  <2> DEFINE moved == IF op = "redrive" THEN v.moved ELSE {}
  <2>2. IsFiniteSet(moved)
    BY <2>1
  <2> HIDE DEF moved
  <2>3. IsFiniteSet({c} \X moved)
    BY <2>1, <2>2, FS_Product
  <2> QED BY <2>1, <2>3 DEF moved
<1>7. \A m \in shelved : id[m] \in 1..archive_seq'
  <2>1. SUFFICES ASSUME NEW m \in shelved PROVE id[m] \in 1..archive_seq'
    OBVIOUS
  <2> DEFINE upto == {n \in shelved : n <= m}
  <2>2. upto \subseteq shelved /\ m \in upto
    <3>1. m \in Messages
      BY <1>2, <1>4, BatchAssumption DEF Tables, IsDeliveries
    <3> QED BY <3>1, BatchAssumption
  <2>3. id[m] = archive_seq + Cardinality(upto)
    OBVIOUS
  <2> HIDE DEF upto, shelved, id
  <2>4. IsFiniteSet(upto) /\ Cardinality(upto) <= Cardinality(shelved)
    BY <1>6, <2>2, FS_Subset
  <2>5. Cardinality(upto) \in Nat /\ Cardinality(shelved) \in Nat
    BY <1>6, <2>4, FS_CardinalityType
  <2>6. Cardinality(upto) # 0
    BY <2>2, <2>4, FS_EmptySet
  <2>7. archive_seq \in Nat
    BY <1>2 DEF Tables
  <2> QED BY <1>1, <2>3, <2>4, <2>5, <2>6, <2>7
<1>8. ASSUME NEW i \in Range(id)
      PROVE  (CHOOSE m \in shelved : id[m] = i) \in {m \in shelved : id[m] = i}
  <2>1. \E m \in shelved : id[m] = i
    BY DEF Range
  <2> QED BY <2>1
<1> DEFINE chosen(i) == CHOOSE m \in shelved : id[m] = i
<1>9. /\ DOMAIN archives' = DOMAIN v.archives \union Range(id)
      /\ \A i \in DOMAIN v.archives : archives'[i] = archives[i] /\ i \in DOMAIN archives
      /\ \A i \in Range(id) \ DOMAIN v.archives :
           /\ archives'[i] = [consumer_id |-> c, message_id |-> chosen(i)]
           /\ chosen(i) \in shelved /\ id[chosen(i)] = i
           /\ i \in 1..archive_seq'
  <2>1. \A i \in Range(id) : chosen(i) \in shelved /\ id[chosen(i)] = i
    BY <1>8
  <2>2. \A i \in Range(id) : i \in 1..archive_seq'
    <3> HIDE DEF id, chosen, shelved
    <3> QED BY <1>7, <2>1
  <2>3. \A i \in DOMAIN v.archives : v.archives[i] = archives[i] /\ i \in DOMAIN archives
    BY <1>2 DEF ViewOfTables
  <2> HIDE DEF id, v
  <2> QED BY <1>1, <2>1, <2>2, <2>3
<1> HIDE DEF v, c, op, at, restored, shelved, id, chosen
<1>10. archive_seq' \in Nat /\ archive_seq <= archive_seq'
  BY <1>1, <1>2, <1>6, FS_CardinalityType DEF Tables
<1>11. IsDeliveries(deliveries')
  <2>1. /\ v.deliveries \in [DOMAIN v.deliveries -> Row]
        /\ DOMAIN v.deliveries \subseteq Entries /\ IsFiniteSet(DOMAIN v.deliveries)
    BY <1>2 DEF ViewOfTables, IsDeliveries
  <2>2. restored \subseteq Entries
    BY <1>2, <1>5 DEF Tables, IsShelf
  <2>3. DOMAIN deliveries' = DOMAIN v.deliveries \union restored
    BY <1>1
  <2>4. IsFiniteSet(DOMAIN deliveries')
    BY <1>6, <2>1, <2>3, FS_Union
  <2>5. \A row \in restored : [generation |-> 0, visible_at |-> at] \in Row
    BY <1>3 DEF restored, Row
  <2>6. deliveries' \in [DOMAIN deliveries' -> Row]
    BY <1>1, <2>1, <2>3, <2>5
  <2> QED BY <2>1, <2>2, <2>3, <2>4, <2>6 DEF IsDeliveries
<1>12. \A i \in Range(id) \ DOMAIN v.archives :
         /\ archives'[i] \in [consumer_id : Consumers, message_id : Messages]
         /\ PairOf(archives'[i]) = <<c, chosen(i)>>
         /\ PairOf(archives'[i]) \in DOMAIN deliveries /\ PairOf(archives'[i]) \in Entries
  <2>1. SUFFICES ASSUME NEW i \in Range(id) \ DOMAIN v.archives
                 PROVE  /\ archives'[i] \in [consumer_id : Consumers, message_id : Messages]
                        /\ PairOf(archives'[i]) = <<c, chosen(i)>>
                        /\ PairOf(archives'[i]) \in DOMAIN deliveries
                        /\ PairOf(archives'[i]) \in Entries
    OBVIOUS
  <2>2. archives'[i] = [consumer_id |-> c, message_id |-> chosen(i)] /\ chosen(i) \in shelved
    BY <1>9
  <2>3. <<c, chosen(i)>> \in DOMAIN deliveries /\ <<c, chosen(i)>> \in Entries
    BY <1>2, <1>4, <2>2 DEF Tables, IsDeliveries
  <2>4. c \in Consumers /\ chosen(i) \in Messages
    BY <2>3, BatchAssumption
  <2>5. PairOf(archives'[i]) = <<c, chosen(i)>>
    BY <2>2 DEF PairOf
  <2> QED BY <2>2, <2>3, <2>4, <2>5
<1>13. /\ \A i \in DOMAIN archives' :
            archives'[i] \in [consumer_id : Consumers, message_id : Messages]
       /\ DOMAIN archives' \subseteq 1..archive_seq'
       /\ \A i \in DOMAIN archives' : PairOf(archives'[i]) \in Entries
  <2>1. \A i \in DOMAIN v.archives :
          /\ archives'[i] \in [consumer_id : Consumers, message_id : Messages]
          /\ i \in 1..archive_seq' /\ PairOf(archives'[i]) \in Entries
    <3>1. \A i \in DOMAIN archives :
            /\ archives[i] \in [consumer_id : Consumers, message_id : Messages]
            /\ i \in 1..archive_seq /\ PairOf(archives[i]) \in Entries
      BY <1>2 DEF Tables, IsShelf
    <3>2. archive_seq \in Nat
      BY <1>2 DEF Tables
    <3> QED BY <1>9, <1>10, <3>1, <3>2
  <2> QED BY <1>9, <1>12, <2>1
<1>14. ASSUME NEW i \in DOMAIN archives', NEW j \in DOMAIN archives',
              PairOf(archives'[i]) = PairOf(archives'[j])
       PROVE  i = j
  <2>1. \A k \in DOMAIN v.archives : PairOf(archives'[k]) \notin DOMAIN deliveries
    BY <1>2, <1>9 DEF Tables
  <2>2. CASE i \in DOMAIN v.archives /\ j \in DOMAIN v.archives
    BY <1>2, <1>9, <1>14, <2>2 DEF Tables, IsShelf
  <2>3. CASE i \notin DOMAIN v.archives /\ j \notin DOMAIN v.archives
    <3>1. chosen(i) = chosen(j)
      BY <1>9, <1>12, <1>14, <2>3
    <3> QED BY <1>9, <2>3, <3>1
  <2> QED BY <1>9, <1>12, <1>14, <2>1, <2>2, <2>3
<1>15. IsShelf(archives)'
  <2>1. archives' = [i \in DOMAIN archives' |-> archives'[i]]
    BY <1>1
  <2>2. archives' \in [DOMAIN archives' -> [consumer_id : Consumers, message_id : Messages]]
    BY <1>13, <2>1
  <2> QED BY <1>13, <1>14, <2>2 DEF IsShelf
<1>16. \A i \in DOMAIN archives' : PairOf(archives'[i]) \notin DOMAIN deliveries'
  <2>1. DOMAIN deliveries' = DOMAIN v.deliveries \union restored
    BY <1>1
  <2>2. DOMAIN v.deliveries \subseteq DOMAIN deliveries
    BY <1>2 DEF ViewOfTables
  <2>3. ASSUME NEW i \in DOMAIN v.archives
        PROVE  PairOf(archives'[i]) \notin DOMAIN deliveries'
    <3>1. PairOf(archives[i]) \notin DOMAIN deliveries
      BY <1>2, <1>9 DEF Tables
    <3>2. PairOf(archives[i]) \notin restored
      BY <1>2, <1>5, <1>9 DEF Tables, IsShelf
    <3> QED BY <1>9, <2>1, <2>2, <3>1, <3>2
  <2>4. ASSUME NEW i \in Range(id) \ DOMAIN v.archives
        PROVE  PairOf(archives'[i]) \notin DOMAIN deliveries'
    <3>1. PairOf(archives'[i]) = <<c, chosen(i)>> /\ chosen(i) \in shelved
      BY <1>9, <1>12
    <3>2. <<c, chosen(i)>> \notin DOMAIN v.deliveries
      BY <1>4, <3>1
    <3>3. restored = {}
      BY <3>1 DEF shelved, restored
    <3> QED BY <2>1, <3>1, <3>2, <3>3
  <2> QED BY <1>9, <2>3, <2>4
<1>17. \A i \in DOMAIN archives' : \E r \in receipts' : PairOf(r) = PairOf(archives'[i])
  <2>1. \A i \in DOMAIN archives : \E r \in receipts : PairOf(r) = PairOf(archives[i])
    BY <1>2 DEF Tables
  <2>2. \A row \in DOMAIN deliveries : \E r \in receipts : PairOf(r) = row
    BY <1>2 DEF Tables
  <2>3. \A i \in DOMAIN v.archives : \E r \in receipts : PairOf(r) = PairOf(archives'[i])
    BY <1>9, <2>1
  <2>4. \A i \in Range(id) \ DOMAIN v.archives :
          \E r \in receipts : PairOf(r) = PairOf(archives'[i])
    BY <1>12, <2>2
  <2>5. DOMAIN archives' = DOMAIN v.archives \union Range(id) /\ receipts' = receipts
    BY <1>1, <1>9
  <2> QED BY <2>3, <2>4, <2>5
<1>18. \A row \in DOMAIN deliveries' : \E r \in receipts' : PairOf(r) = row
  <2>1. DOMAIN deliveries' = DOMAIN v.deliveries \union restored
    BY <1>1
  <2>2. DOMAIN v.deliveries \subseteq DOMAIN deliveries
    BY <1>2 DEF ViewOfTables
  <2> QED BY <1>1, <1>2, <1>5, <2>1, <2>2 DEF Tables
<1>19. receipts' \subseteq Receipt
  BY <1>1, <1>2 DEF Tables
<1>20. Tables'
  <2>1. IsDeliveries(deliveries)'
    BY <1>11 DEF IsDeliveries
  <2> QED BY <1>10, <1>15, <1>16, <1>17, <1>18, <1>19, <2>1 DEF Tables
<1>21. InTransaction'
  BY <1>1 DEF InTransaction
<1> QED BY <1>20, <1>21 DEF Inv

LEMMA ClaimKeepsInv ==
    ASSUME Inv, NEW row \in Entries, Claim(row)
    PROVE  Inv'
<1> DEFINE generation == IF row \in DOMAIN deliveries THEN deliveries[row].generation + 1 ELSE 1
           receipt == [consumer_id |-> row[1], message_id |-> row[2], generation |-> generation]
<1>1. Tables
  BY DEF Inv
<1>2. PICK at \in Deadlines :
        deliveries' = [x \in DOMAIN deliveries \union {row} |->
                         IF x = row THEN [generation |-> generation, visible_at |-> at]
                         ELSE deliveries[x]]
  BY DEF Claim
<1>3. /\ transaction = NULL /\ transaction' = transaction
      /\ archives' = archives /\ archive_seq' = archive_seq
      /\ receipts' = receipts \union {receipt}
      /\ row \in DOMAIN deliveries \/ \A r \in receipts : <<r.consumer_id, r.message_id>> # row
  BY DEF Claim
<1>4. generation \in Nat
  BY <1>1 DEF Tables, IsDeliveries, Row
<1>5. /\ row = <<row[1], row[2]>> /\ row[1] \in Consumers /\ row[2] \in Messages
      /\ at \in Nat
  BY BatchAssumption
<1>6. receipt \in Receipt /\ PairOf(receipt) = row
  BY <1>4, <1>5 DEF Receipt, PairOf
<1> HIDE DEF generation, receipt
<1>7. IsDeliveries(deliveries)'
  <2>1. /\ deliveries \in [DOMAIN deliveries -> Row]
        /\ DOMAIN deliveries \subseteq Entries /\ IsFiniteSet(DOMAIN deliveries)
    BY <1>1 DEF Tables, IsDeliveries
  <2>2. IsFiniteSet(DOMAIN deliveries \union {row})
    BY <2>1, FS_AddElement
  <2>3. DOMAIN deliveries' = DOMAIN deliveries \union {row}
    BY <1>2
  <2>4. [generation |-> generation, visible_at |-> at] \in Row
    BY <1>4, <1>5 DEF Row
  <2>5. deliveries' \in [DOMAIN deliveries' -> Row]
    BY <1>2, <2>1, <2>3, <2>4
  <2> QED BY <2>1, <2>2, <2>3, <2>5 DEF IsDeliveries
<1>8. \A i \in DOMAIN archives : PairOf(archives[i]) # row
  <2>1. SUFFICES ASSUME NEW i \in DOMAIN archives, PairOf(archives[i]) = row PROVE FALSE
    OBVIOUS
  <2>2. row \notin DOMAIN deliveries
    BY <1>1, <2>1 DEF Tables
  <2>3. PICK r \in receipts : PairOf(r) = row
    BY <1>1, <2>1 DEF Tables
  <2> QED BY <1>3, <2>2, <2>3 DEF PairOf
<1>9. DOMAIN deliveries' = DOMAIN deliveries \union {row}
  BY <1>2
<1>10. Tables'
  <2>1. archive_seq' \in Nat /\ IsShelf(archives)'
    BY <1>1, <1>3 DEF Tables, IsShelf
  <2>2. \A i \in DOMAIN archives' : PairOf(archives'[i]) \notin DOMAIN deliveries'
    BY <1>1, <1>3, <1>8, <1>9 DEF Tables
  <2>3. receipts' \subseteq Receipt
    BY <1>1, <1>3, <1>6 DEF Tables
  <2>4. \A i \in DOMAIN archives' : \E r \in receipts' : PairOf(r) = PairOf(archives'[i])
    BY <1>1, <1>3 DEF Tables
  <2>5. \A x \in DOMAIN deliveries' : \E r \in receipts' : PairOf(r) = x
    BY <1>1, <1>3, <1>6, <1>9 DEF Tables
  <2> QED BY <1>7, <2>1, <2>2, <2>3, <2>4, <2>5 DEF Tables
<1>11. InTransaction'
  BY <1>3 DEF InTransaction
<1> QED BY <1>10, <1>11 DEF Inv

LEMMA InitEstablishesInv ==
    ASSUME Init
    PROVE  Inv
<1>1. /\ deliveries = Nothing /\ archives = Nothing /\ archive_seq = 0
      /\ receipts = {} /\ transaction = NULL
  BY DEF Init
<1>2. /\ DOMAIN Nothing = {} /\ IsFiniteSet({})
      /\ \A T : Nothing \in [DOMAIN Nothing -> T]
  BY FS_EmptySet DEF Nothing
<1> QED BY <1>1, <1>2 DEF Inv, Tables, InTransaction, IsDeliveries, IsShelf

LEMMA NextKeepsInv ==
    ASSUME Inv, [Next]_vars
    PROVE  Inv'
<1>1. ASSUME NEW row \in Entries, Claim(row)
      PROVE  Inv'
  BY <1>1, ClaimKeepsInv
<1>2. ASSUME NEW c \in Consumers, NEW batch \in BatchesOf(receipts),
             NEW op \in {"ack", "archive"}, Begin(op, c, batch, NULL)
      PROVE  Inv'
  <2>1. op \in Ops /\ op \notin {"nack", "extend", "redrive"}
    BY DEF Ops
  <2> QED BY <1>2, <2>1, BeginKeepsInv
<1>3. ASSUME NEW c \in Consumers, NEW batch \in BatchesOf(receipts),
             NEW op \in {"nack", "extend"}, NEW at \in Deadlines, Begin(op, c, batch, at)
      PROVE  Inv'
  <2>1. op \in Ops /\ at \in Nat
    BY BatchAssumption DEF Ops
  <2> QED BY <1>3, <2>1, BeginKeepsInv
<1>4. ASSUME NEW c \in Consumers, NEW batch \in BatchesOf(1..archive_seq),
             NEW at \in Deadlines, Begin("redrive", c, batch, at)
      PROVE  Inv'
  <2>1. "redrive" \in Ops /\ at \in Nat
    BY BatchAssumption DEF Ops
  <2> QED BY <1>4, <2>1, BeginKeepsInv
<1>5. CASE ExecuteChunk
  BY <1>5, ExecuteChunkKeepsInv
<1>6. CASE Commit
  BY <1>6, CommitKeepsInv
<1>7. CASE RollBack
  <2>1. transaction' = NULL /\ UNCHANGED <<deliveries, archives, archive_seq, receipts>>
    BY <1>7 DEF RollBack
  <2> QED BY <2>1 DEF Inv, Tables, InTransaction, IsDeliveries, IsShelf
<1>8. CASE UNCHANGED vars
  <2>1. UNCHANGED <<deliveries, archives, archive_seq, receipts, transaction>>
    BY <1>8 DEF vars
  <2> QED BY <2>1 DEF Inv, Tables, InTransaction, IsDeliveries, IsShelf, Before, ViewOfTables,
                      OneStatementSoFar, CountedSoFar
<1> QED BY <1>1, <1>2, <1>3, <1>4, <1>5, <1>6, <1>7, <1>8 DEF Next

\* The views of a transaction follow from the tables: holds of every reachable state.
THEOREM Invariance == Spec => []Inv
<1>1. Init => Inv
  BY InitEstablishesInv
<1>2. Inv /\ [Next]_vars => Inv'
  BY NextKeepsInv
<1> QED BY <1>1, <1>2, PTL DEF Spec

-----------------------------------------------------------------------------
(* What the properties say of a finished batch.                            *)

\* All is covered.
LEMMA FinishedCoversAll ==
    ASSUME Inv, Finished
    PROVE  /\ Covered(transaction) = Range(transaction.batch)
           /\ transaction.op \in Ops
<1>1. IsBatch(transaction) /\ transaction.done = Len(transaction.batch)
  BY DEF Inv, InTransaction, Finished
<1>2. DOMAIN transaction.batch = 1..transaction.done
  BY <1>1 DEF IsBatch
<1> QED BY <1>1, <1>2 DEF Covered, Range, IsBatch

\* No call of archive_batch or redrive_batch fails on the primary key of litefan_deliveries
\* or on the UNIQUE of litefan_archived_deliveries: what was deleted in the one table was
\* never in the other.
THEOREM Types == Spec => []TypeOK
<1>1. Inv => TypeOK
  <2>1. SUFFICES ASSUME Inv PROVE TypeOK
    OBVIOUS
  <2>2. Finished => MovedIsNew
    BY <2>1, MovedFrom DEF Finished
  <2> QED BY <2>1, <2>2 DEF Inv, Tables, IsDeliveries, IsShelf, TypeOK
<1> QED BY <1>1, Invariance, PTL

\* The chunks of a batch, of every length and however often an item is in it, do what one
\* statement for all of it would: RECEIPTS_PER_CHUNK is not observable.
THEOREM OneStatement == Spec => []ChunksAreOneStatement
<1>1. Inv => ChunksAreOneStatement
  <2>1. SUFFICES ASSUME Inv, Finished PROVE ChunksAreOneStatement
    BY DEF ChunksAreOneStatement
  <2>2. OneStatementSoFar(transaction)
    BY <2>1 DEF Inv, InTransaction, Finished
  <2>3. Covered(transaction) = Range(transaction.batch)
    BY <2>1, FinishedCoversAll
  <2> QED BY <2>1, <2>2, <2>3
             DEF ChunksAreOneStatement, OneStatementSoFar, SameTables, Before
<1> QED BY <1>1, Invariance, PTL

\* BatchResult.applied is the number of different items that were current at the start.
THEOREM Counts == Spec => []CountsAreTrue
<1>1. Inv => CountsAreTrue
  <2>1. SUFFICES ASSUME Inv, Finished PROVE CountsAreTrue
    BY DEF CountsAreTrue
  <2>2. CountedSoFar(transaction)
    BY <2>1 DEF Inv, InTransaction, Finished
  <2>3. Covered(transaction) = Range(transaction.batch)
    BY <2>1, FinishedCoversAll
  <2>4. Hit(Before, transaction.op, transaction.consumer, Covered(transaction))
          = Effective(transaction)
    BY <2>3 DEF Hit, Effective, Before
  <2> QED BY <2>1, <2>2, <2>4 DEF CountsAreTrue, CountedSoFar
<1> QED BY <1>1, Invariance, PTL

=============================================================================
