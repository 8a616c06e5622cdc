----------------------------- MODULE Publishing -----------------------------
(***************************************************************************)
(* Publishing with idempotency keys: LiteFan::publish_batch and the ledger *)
(* litefan_idempotency (src/src/store.rs, storage.rs).                     *)
(*                                                                         *)
(* A call reads the time, waits for the writer lock as long as it takes,   *)
(* and then runs one transaction: it purges the ledger, claims the keys of *)
(* the batch, reads them back, inserts the messages that are new and fills *)
(* in their ids.  Calls of several processes, which may be configured with *)
(* different windows, are in flight at once; any of them may fail or be    *)
(* dropped before its transaction, or lose its answer after it and retry.  *)
(*                                                                         *)
(* What becomes of a message is the business of LogStore; here it may be   *)
(* pruned at any time.                                                     *)
(***************************************************************************)
EXTENDS Integers, Sequences, FiniteSets, Functions

CONSTANTS
    Publishers,   \* calls that may be in flight at once, in any process
    Keys,         \* idempotency keys
    Bodies,       \* contents, to tell messages of a batch apart
    NULL,         \* no key; no message id
    Windows,      \* Config::idempotency_window of the processes, in milliseconds
    MaxBatch,     \* Config::max_batch_size
    MaxTime,      \* bound on the clock
    MaxMessages   \* bound on messages ever published

ASSUME KeyAssumption == NULL \notin Keys /\ NULL \notin Int

\* validate_config
ValidConfig == Windows \subseteq Nat \ {0} /\ MaxBatch \in Nat \ {0}

ASSUME ConfigAssumption == ValidConfig /\ MaxTime \in Nat /\ MaxMessages \in Nat

VARIABLES
    clock,         \* the wall clock
    messages,      \* the ids in litefan_messages
    message_seq,   \* its AUTOINCREMENT counter
    ledger,        \* litefan_idempotency: key -> [message_id, expires_at]
    calls,         \* call in flight -> the times it computed
    publications,  \* history: id -> [key, body, at, until, committed]
    answered,      \* history: the batch of the last call that was answered
    outcomes       \* and the outcomes it returned

tables == <<messages, message_seq, ledger>>
history == <<publications, answered, outcomes>>
vars == <<clock, tables, calls, history>>

Requests == [key : Keys \union {NULL}, body : Bodies]

Batches == UNION {[1..n -> Requests] : n \in 1..MaxBatch}

Nothing == [x \in {} |-> x]

Without(f, x) == [y \in DOMAIN f \ {x} |-> f[y]]

Init ==
    /\ clock = 0
    /\ messages = {} /\ message_seq = 0
    /\ ledger = Nothing
    /\ calls = Nothing
    /\ publications = << >>
    /\ answered = << >> /\ outcomes = << >>

-----------------------------------------------------------------------------
(* The statements of the transaction.                                      *)

\* DELETE ... WHERE expires_at <= now
Purged(now) == [k \in {l \in DOMAIN ledger : ledger[l].expires_at > now} |-> ledger[k]]

KeysOf(batch) == {batch[i].key : i \in DOMAIN batch} \ {NULL}

\* mutant: a duplicate starts the window again
ClaimedRenewed(rows, batch, expires_at) ==
    [k \in DOMAIN rows \union KeysOf(batch) |->
       [message_id |-> IF k \in DOMAIN rows THEN rows[k].message_id ELSE NULL,
        expires_at |-> IF k \in KeysOf(batch) THEN expires_at ELSE rows[k].expires_at]]

\* INSERT ... ON CONFLICT DO NOTHING
Claimed(rows, batch, expires_at) ==
    [k \in DOMAIN rows \union KeysOf(batch) |->
       IF k \in DOMAIN rows THEN rows[k]
       ELSE [message_id |-> NULL, expires_at |-> expires_at]]

\* mutant: every occurrence of a new key is published
ToPublishRepeatedly(rows, batch) ==
    {i \in DOMAIN batch : batch[i].key = NULL \/ rows[batch[i].key].message_id = NULL}

\* The positions to publish: those with no key, and the first of each key that is new.
ToPublish(rows, batch) ==
    {i \in DOMAIN batch :
       \/ batch[i].key = NULL
       \/ /\ rows[batch[i].key].message_id = NULL
          /\ \A j \in 1 .. i - 1 : batch[j].key # batch[i].key}

\* mutant: ids as in a table without AUTOINCREMENT, one more than the largest there is
AssignedFromLargest(positions) ==
    LET largest == CHOOSE m \in messages \union {0} : \A n \in messages : m >= n
    IN  [i \in positions |-> largest + Cardinality({j \in positions : j <= i})]

\* Ids are given out in the order of the rows, and sorted when they come back.
Assigned(positions) ==
    [i \in positions |-> message_seq + Cardinality({j \in positions : j <= i})]

\* mutant: only keys that occur once in the batch are filled in
FilledIfSingle(rows, batch, ids) ==
    [k \in DOMAIN rows |->
       IF \E i \in DOMAIN ids : batch[i].key = k /\ \A j \in DOMAIN batch \ {i} : batch[j].key # k
       THEN [rows[k] EXCEPT !.message_id =
               ids[CHOOSE i \in DOMAIN ids : batch[i].key = k]]
       ELSE rows[k]]

\* The UPDATE of the keys that were published.
Filled(rows, batch, ids) ==
    [k \in DOMAIN rows |->
       IF \E i \in DOMAIN ids : batch[i].key = k
       THEN [rows[k] EXCEPT !.message_id = ids[CHOOSE i \in DOMAIN ids : batch[i].key = k]]
       ELSE rows[k]]

Outcomes(rows, batch, ids) ==
    [i \in DOMAIN batch |->
       IF i \in DOMAIN ids THEN [id |-> ids[i], published |-> TRUE]
       ELSE [id |-> rows[batch[i].key].message_id, published |-> FALSE]]

\* The rows of these positions are in the log.
Insert(call, batch, ids) ==
    /\ messages' = messages \union Range(ids)
    /\ message_seq' = message_seq + Cardinality(DOMAIN ids)
    /\ publications' =
         [m \in DOMAIN publications \union Range(ids) |->
            IF m \in Range(ids)
            THEN LET i == CHOOSE j \in DOMAIN ids : ids[j] = m
                 IN  [key |-> batch[i].key, body |-> batch[i].body,
                      at |-> call.published_at, until |-> call.expires_at,
                      committed |-> clock]
            ELSE publications[m]]

-----------------------------------------------------------------------------
(* The steps of a call.                                                    *)

\* The times are computed; the transaction has still to get the writer lock.  Nothing
\* looks at the batch before it, so that what the batch is need not be said yet.
Begin(p) ==
    /\ p \notin DOMAIN calls
    /\ \E window \in Windows :
         calls' = [q \in DOMAIN calls \union {p} |->
                     IF q = p THEN [published_at |-> clock, expires_at |-> clock + window]
                     ELSE calls[q]]
    /\ UNCHANGED <<clock, tables, history>>

\* publish_unkeyed_batch leaves the ledger alone.
CommitUnkeyed(p, batch) ==
    /\ p \in DOMAIN calls
    /\ KeysOf(batch) = {}
    /\ message_seq + Len(batch) <= MaxMessages
    /\ LET ids == Assigned(DOMAIN batch)
       IN  /\ Insert(calls[p], batch, ids)
           /\ answered' = batch /\ outcomes' = Outcomes(ledger, batch, ids)
    /\ calls' = Without(calls, p)
    /\ UNCHANGED <<clock, ledger>>

CommitKeyed(p, batch) ==
    /\ p \in DOMAIN calls
    /\ KeysOf(batch) # {}
    /\ LET rows == Claimed(Purged(calls[p].published_at), batch, calls[p].expires_at)
           ids == Assigned(ToPublish(rows, batch))
           filled == Filled(rows, batch, ids)
       IN  /\ message_seq + Cardinality(DOMAIN ids) <= MaxMessages
           /\ Insert(calls[p], batch, ids)
           /\ ledger' = filled
           /\ answered' = batch /\ outcomes' = Outcomes(filled, batch, ids)
    /\ calls' = Without(calls, p)
    /\ UNCHANGED clock

\* An error, a crash, or a caller that gives up: nothing was committed.
Fail(p) ==
    /\ p \in DOMAIN calls
    /\ calls' = Without(calls, p)
    /\ UNCHANGED <<clock, tables, history>>

\* mutant: an entry goes with its message
PruneWithKey(m) ==
    /\ m \in messages
    /\ messages' = messages \ {m}
    /\ ledger' = [k \in {l \in DOMAIN ledger : ledger[l].message_id # m} |-> ledger[k]]
    /\ UNCHANGED <<clock, message_seq, calls, history>>

Prune(m) ==
    /\ m \in messages
    /\ messages' = messages \ {m}
    /\ UNCHANGED <<clock, message_seq, ledger, calls, history>>

Tick ==
    /\ clock < MaxTime
    /\ clock' = clock + 1
    /\ UNCHANGED <<tables, calls, history>>

Next ==
    \/ Tick
    \/ \E m \in messages : Prune(m)
    \/ \E p \in Publishers :
         \/ Begin(p) \/ Fail(p)
         \/ \E batch \in Batches : CommitUnkeyed(p, batch) \/ CommitKeyed(p, batch)

Spec == Init /\ [][Next]_vars

-----------------------------------------------------------------------------
(* Types.                                                                  *)

LedgerRow == [message_id : Nat, expires_at : Nat]

Call == [published_at : Nat, expires_at : Nat]

Publication ==
    [key : Keys \union {NULL}, body : Bodies, at : Nat, until : Nat, committed : Nat]

\* Of the variables; no committed entry of the ledger lacks its message id, so that
\* Error::IncompleteIdempotencyEntry is never returned.
TypeOK ==
    /\ clock \in Nat /\ message_seq \in Nat
    /\ messages \subseteq 1..message_seq
    /\ ledger \in [DOMAIN ledger -> LedgerRow] /\ DOMAIN ledger \subseteq Keys
    /\ calls \in [DOMAIN calls -> Call] /\ DOMAIN calls \subseteq Publishers
    /\ publications \in [1..message_seq -> Publication]

-----------------------------------------------------------------------------
(* Safety.                                                                 *)

With(k) == {m \in DOMAIN publications : publications[m].key = k}

LastWith(k, m) == m \in With(k) /\ \A n \in With(k) : n <= m

\* An entry is that of the last message published with its key, with the window of that
\* publication, whatever was answered or pruned since; and a key whose window is not over
\* has an entry, however late or early the times of the calls that purge.
LedgerIsExact ==
    /\ \A k \in DOMAIN ledger :
         /\ LastWith(k, ledger[k].message_id)
         /\ publications[ledger[k].message_id].until = ledger[k].expires_at
    /\ \A k \in Keys : \A m \in With(k) :
         publications[m].until > clock => k \in DOMAIN ledger

\* A key is not published again before its window is over: retries, duplicates in other
\* batches and calls that waited for the lock publish nothing until then.
KeysAreSuppressed ==
    \A m, n \in DOMAIN publications :
      m < n /\ publications[m].key = publications[n].key /\ publications[m].key # NULL =>
        publications[n].committed >= publications[m].until

\* Each outcome names a message of the request it answers: the one it inserted, or the one
\* that was published with its key before, whose id was never given to another.
AnswersAreTrue ==
    \A i \in DOMAIN answered :
      LET request == answered[i]
          outcome == outcomes[i]
      IN  /\ outcome.id \in DOMAIN publications
          /\ publications[outcome.id].key = request.key
          /\ outcome.published => publications[outcome.id].body = request.body
          /\ outcome.published =>
               \A j \in DOMAIN answered \ {i} :
                 outcomes[j].published => outcomes[j].id # outcome.id

\* The transaction answers and leaves behind what handling the messages of the batch one
\* after another would, with no ledger.
Abs == INSTANCE Deduplication WITH time <- clock, published <- publications

OneByOne == Abs!Spec
=============================================================================
