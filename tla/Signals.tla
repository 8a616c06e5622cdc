------------------------------- MODULE Signals -------------------------------
(***************************************************************************)
(* The registry of in-process signals (src/src/signals.rs) and the handles *)
(* that keep them alive (Consumer in src/src/consumer.rs).                 *)
(*                                                                         *)
(* A handle holds strong references to two signals, the registry weak      *)
(* ones.  References are taken and dropped one at a time and without the   *)
(* lock of the registry, while other threads look signals up, insert them, *)
(* notify them and remove dead entries, each in one section under the lock.*)
(***************************************************************************)
EXTENDS Integers

CONSTANTS
    Handles,    \* values of type Consumer in one process
    Consumers,  \* ids of consumers
    FilterOf,   \* id -> topic_filter: a topic, or NULL for Filter::All
    Topics,     \* topics of filters
    Threads,    \* threads that publish
    SignalIds,  \* allocations that may hold a Signal
    NULL        \* Filter::All; no reference

AllPublishes == "all_publishes"  \* the signal that the registry itself keeps alive

ASSUME SignalAssumption ==
    /\ FilterOf \in [Consumers -> Topics \union {NULL}]
    /\ NULL \notin Topics /\ NULL \notin Consumers /\ NULL # AllPublishes
    /\ NULL \notin SignalIds /\ AllPublishes \notin SignalIds

VARIABLES
    topics,           \* registry: topic -> its entry, a weak reference, or NULL
    consumers,        \* registry: id -> its entry, a weak reference, or NULL
    id,               \* handle -> its consumer, or NULL
    publish_signal,   \* handle -> strong reference, or NULL
    consumer_signal,  \* handle -> strong reference, or NULL
    polling,          \* handles whose poll has subscribed to their two signals
    fresh,            \* handle -> the signals that changed since its poll marked them seen
    unsent            \* thread -> the topics it has still to notify, or NULL

registry == <<topics, consumers>>
references == <<id, publish_signal, consumer_signal>>
polls == <<polling, fresh>>
vars == <<registry, references, polls, unsent>>

Init ==
    /\ topics = [t \in Topics |-> NULL]
    /\ consumers = [c \in Consumers |-> NULL]
    /\ id = [h \in Handles |-> NULL]
    /\ publish_signal = [h \in Handles |-> NULL]
    /\ consumer_signal = [h \in Handles |-> NULL]
    /\ polling = {}
    /\ fresh = [h \in Handles |-> {}]
    /\ unsent = [n \in Threads |-> NULL]

-----------------------------------------------------------------------------
(* References.                                                             *)

\* Weak::upgrade succeeds: some strong reference is left.
Alive(s) == \E h \in Handles : publish_signal[h] = s \/ consumer_signal[h] = s

\* An allocation is free when no reference is left, strong or weak.
Free(s) ==
    /\ s \in SignalIds /\ ~Alive(s)
    /\ \A t \in Topics : topics[t] # s
    /\ \A c \in Consumers : consumers[c] # s

\* mutant: an entry keeps no allocation, so that a new signal may take its place
SignalForReused(entries, key, s) ==
    IF entries[key] # NULL /\ Alive(entries[key]) THEN s = entries[key] ELSE ~Alive(s)

\* mutant: looked up in one section and inserted in another
SignalForReplaced(entries, key, s) == Free(s)

\* signal_for_key: s is the signal that the caller gets.
SignalFor(entries, key, s) ==
    IF entries[key] # NULL /\ Alive(entries[key]) THEN s = entries[key] ELSE Free(s)

\* mutant: a notified entry is removed
RemainingNone(entries, keys) ==
    [k \in DOMAIN entries |-> IF k \in keys THEN NULL ELSE entries[k]]

\* The entries that notifying these keys leaves: the dead ones are removed.
Remaining(entries, keys) ==
    [k \in DOMAIN entries |->
       IF k \in keys /\ entries[k] # NULL /\ ~Alive(entries[k]) THEN NULL ELSE entries[k]]

\* send_modify on these signals: every receiver sees a change.
Notified(signals) ==
    [h \in Handles |->
       fresh[h]
         \union (IF h \in polling /\ publish_signal[h] \in signals THEN {"publishes"} ELSE {})
         \union (IF h \in polling /\ consumer_signal[h] \in signals
                 THEN {"consumer_changes"} ELSE {})]

-----------------------------------------------------------------------------
(* Handles.                                                                *)

\* The end of ConsumerBuilder::open, and its first reference.
GetPublishSignal(h, c) ==
    /\ publish_signal[h] = NULL /\ consumer_signal[h] = NULL
    /\ id' = [id EXCEPT ![h] = c]
    /\ IF FilterOf[c] = NULL
       THEN /\ publish_signal' = [publish_signal EXCEPT ![h] = AllPublishes]
            /\ UNCHANGED topics
       ELSE \E s \in SignalIds :
              /\ SignalFor(topics, FilterOf[c], s)
              /\ publish_signal' = [publish_signal EXCEPT ![h] = s]
              /\ topics' = [topics EXCEPT ![FilterOf[c]] = s]
    /\ UNCHANGED <<consumers, consumer_signal, polls, unsent>>

\* Its second, which completes the handle.
GetConsumerSignal(h) ==
    /\ publish_signal[h] # NULL /\ consumer_signal[h] = NULL
    /\ \E s \in SignalIds :
         /\ SignalFor(consumers, id[h], s)
         /\ consumer_signal' = [consumer_signal EXCEPT ![h] = s]
         /\ consumers' = [consumers EXCEPT ![id[h]] = s]
    /\ UNCHANGED <<topics, id, publish_signal, polls, unsent>>

Complete(h) == publish_signal[h] # NULL /\ consumer_signal[h] # NULL

\* Consumer::clone
Clone(h, g) ==
    /\ Complete(h)
    /\ publish_signal[g] = NULL /\ consumer_signal[g] = NULL
    /\ id' = [id EXCEPT ![g] = id[h]]
    /\ publish_signal' = [publish_signal EXCEPT ![g] = publish_signal[h]]
    /\ consumer_signal' = [consumer_signal EXCEPT ![g] = consumer_signal[h]]
    /\ UNCHANGED <<registry, polls, unsent>>

\* mutant: a poll does not borrow its handle
DropPublishSignalPolling(h) ==
    /\ Complete(h)
    /\ publish_signal' = [publish_signal EXCEPT ![h] = NULL]
    /\ UNCHANGED <<registry, id, consumer_signal, polls, unsent>>

\* The fields of a handle are dropped in their order; no poll borrows it then.
DropPublishSignal(h) ==
    /\ Complete(h) /\ h \notin polling
    /\ publish_signal' = [publish_signal EXCEPT ![h] = NULL]
    /\ UNCHANGED <<registry, id, consumer_signal, polls, unsent>>

DropConsumerSignal(h) ==
    /\ publish_signal[h] = NULL /\ consumer_signal[h] # NULL
    /\ consumer_signal' = [consumer_signal EXCEPT ![h] = NULL]
    /\ id' = [id EXCEPT ![h] = NULL]
    /\ UNCHANGED <<registry, publish_signal, polls, unsent>>

\* Subscribing, or marking the receivers seen at the top of the loop.
Mark(h) ==
    /\ Complete(h)
    /\ polling' = polling \union {h}
    /\ fresh' = [fresh EXCEPT ![h] = {}]
    /\ UNCHANGED <<registry, references, unsent>>

\* The poll returns or is dropped, and its receivers with it.
EndPoll(h) ==
    /\ h \in polling
    /\ polling' = polling \ {h}
    /\ fresh' = [fresh EXCEPT ![h] = {}]
    /\ UNCHANGED <<registry, references, unsent>>

-----------------------------------------------------------------------------
(* Notifications.                                                          *)

\* notify_publishes, for messages of these topics: first, without a lock,
\* all_publishes.notify().
NotifyAll(n, ts) ==
    /\ unsent[n] = NULL
    /\ fresh' = Notified({AllPublishes})
    /\ unsent' = [unsent EXCEPT ![n] = ts]
    /\ UNCHANGED <<registry, references, polling>>

\* Then, under the lock, the topics.
NotifyTopics(n) ==
    /\ unsent[n] # NULL
    /\ fresh' = Notified({topics[t] : t \in unsent[n]} \ {NULL})
    /\ topics' = Remaining(topics, unsent[n])
    /\ unsent' = [unsent EXCEPT ![n] = NULL]
    /\ UNCHANGED <<consumers, references, polling>>

\* notify_consumer, after a consumer was deleted.
NotifyConsumer(c) ==
    /\ fresh' = Notified({consumers[c]} \ {NULL})
    /\ consumers' = Remaining(consumers, {c})
    /\ UNCHANGED <<topics, references, polling, unsent>>

\* consumer_signal.notify() of a handle that drained, nacked, archived or redrove.
NotifyChange(h) ==
    /\ Complete(h)
    /\ fresh' = Notified({consumer_signal[h]})
    /\ UNCHANGED <<registry, references, polling, unsent>>

Next ==
    \/ \E h \in Handles :
         \/ \E c \in Consumers : GetPublishSignal(h, c)
         \/ GetConsumerSignal(h)
         \/ \E g \in Handles : Clone(h, g)
         \/ DropPublishSignal(h) \/ DropConsumerSignal(h)
         \/ Mark(h) \/ EndPoll(h) \/ NotifyChange(h)
    \/ \E n \in Threads : (\E ts \in SUBSET Topics : NotifyAll(n, ts)) \/ NotifyTopics(n)
    \/ \E c \in Consumers : NotifyConsumer(c)

Spec == Init /\ [][Next]_vars

-----------------------------------------------------------------------------
(* Types.                                                                  *)

\* Of the variables.  A handle without a consumer holds nothing, and nobody polls on a
\* handle that is incomplete.
TypeOK ==
    /\ topics \in [Topics -> SignalIds \union {NULL}]
    /\ consumers \in [Consumers -> SignalIds \union {NULL}]
    /\ id \in [Handles -> Consumers \union {NULL}]
    /\ publish_signal \in [Handles -> SignalIds \union {AllPublishes, NULL}]
    /\ consumer_signal \in [Handles -> SignalIds \union {NULL}]
    /\ polling \subseteq {h \in Handles : Complete(h)}
    /\ fresh \in [Handles -> SUBSET {"publishes", "consumer_changes"}]
    /\ unsent \in [Threads -> (SUBSET Topics) \union {NULL}]
    /\ \A h \in Handles :
         id[h] = NULL <=> publish_signal[h] = NULL /\ consumer_signal[h] = NULL

-----------------------------------------------------------------------------
(* Safety.                                                                 *)

\* A signal that some handle holds is the one its key is registered with, whoever else
\* opens, clones, drops or notifies meanwhile: no handle is left behind with a signal that
\* a lookup of its key replaced or a notification removed.
HeldSignalsAreRegistered ==
    \A h \in Handles :
      /\ publish_signal[h] # NULL =>
           publish_signal[h] = (IF FilterOf[id[h]] = NULL THEN AllPublishes
                                ELSE topics[FilterOf[id[h]]])
      /\ consumer_signal[h] # NULL => consumer_signal[h] = consumers[id[h]]

\* No two keys share a signal, so that no notification wakes a poll of another key.
SignalsAreDistinct ==
    /\ \A t, u \in Topics : topics[t] # NULL /\ topics[t] = topics[u] => t = u
    /\ \A c, d \in Consumers : consumers[c] # NULL /\ consumers[c] = consumers[d] => c = d
    /\ \A t \in Topics, c \in Consumers : topics[t] # NULL => topics[t] # consumers[c]

\* Notifications reach the polls they are for, and no others.
Abs == INSTANCE Broadcast WITH
         consumer <- [h \in Handles |-> IF Complete(h) THEN id[h] ELSE NULL]

NotificationsReachPolls == Abs!Spec
=============================================================================
