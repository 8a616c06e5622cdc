--------------------------- MODULE Signals_proofs ----------------------------
(* What TLAPS proves of Signals, for every value of its constants.         *)
EXTENDS Signals, TLAPS

\* The parts of the invariant are inductive together: an entry whose signal some handle
\* holds is neither replaced nor removed because the signal is alive, and a new signal is
\* in no entry because it is free.
Inv == TypeOK /\ HeldSignalsAreRegistered /\ SignalsAreDistinct

-----------------------------------------------------------------------------

\* What signal_for_key returns and what it leaves in the registry: the signal of the
\* entry, or one that nobody refers to.
LEMMA LookupIsCurrentOrFree ==
    ASSUME NEW entries, NEW key, NEW s, SignalFor(entries, key, s)
    PROVE  \/ s = entries[key] /\ Alive(s) /\ s # NULL
           \/ Free(s) /\ (entries[key] = NULL \/ ~Alive(entries[key]))
BY DEF SignalFor

\* A new process has no entry, no handle and no poll.
LEMMA InitEstablishes == Init => Inv
<1> SUFFICES ASSUME Init PROVE Inv
  OBVIOUS
<1>1. TypeOK
  BY DEF Init, TypeOK, Complete
<1>2. HeldSignalsAreRegistered
  BY DEF Init, HeldSignalsAreRegistered
<1>3. SignalsAreDistinct
  BY DEF Init, SignalsAreDistinct
<1> QED BY <1>1, <1>2, <1>3 DEF Inv

\* The first reference of a handle that is being opened.
LEMMA GetPublishSignalPreserves ==
    ASSUME Inv, NEW h \in Handles, NEW c \in Consumers, GetPublishSignal(h, c)
    PROVE  Inv'
<1>1. /\ id' = [id EXCEPT ![h] = c]
      /\ UNCHANGED <<consumers, consumer_signal, polling, fresh, unsent>>
      /\ publish_signal[h] = NULL /\ consumer_signal[h] = NULL
  BY DEF GetPublishSignal, polls
<1>2. c # NULL /\ FilterOf[c] \in Topics \union {NULL} /\ AllPublishes # NULL
  BY SignalAssumption
<1>3. CASE FilterOf[c] = NULL
  <2>1. publish_signal' = [publish_signal EXCEPT ![h] = AllPublishes] /\ topics' = topics
    BY <1>3 DEF GetPublishSignal
  <2>2. TypeOK'
    BY <1>1, <1>2, <2>1 DEF Inv, TypeOK, Complete
  <2>3. HeldSignalsAreRegistered'
    BY <1>1, <1>2, <1>3, <2>1 DEF Inv, TypeOK, HeldSignalsAreRegistered
  <2>4. SignalsAreDistinct'
    BY <1>1, <2>1 DEF Inv, SignalsAreDistinct
  <2> QED BY <2>2, <2>3, <2>4 DEF Inv
<1>4. CASE FilterOf[c] # NULL
  <2>1. PICK s \in SignalIds :
          /\ SignalFor(topics, FilterOf[c], s)
          /\ publish_signal' = [publish_signal EXCEPT ![h] = s]
          /\ topics' = [topics EXCEPT ![FilterOf[c]] = s]
    BY <1>4 DEF GetPublishSignal
  <2>2. s # NULL /\ FilterOf[c] \in Topics
    BY <1>2, <1>4, SignalAssumption
  <2>3. TypeOK'
    BY <1>1, <1>2, <2>1, <2>2 DEF Inv, TypeOK, Complete
  <2>4. CASE s = topics[FilterOf[c]]
    <3>1. topics' = topics
      BY <2>1, <2>2, <2>4 DEF Inv, TypeOK
    <3>2. HeldSignalsAreRegistered'
      BY <1>1, <1>4, <2>1, <2>2, <2>4, <3>1 DEF Inv, TypeOK, HeldSignalsAreRegistered
    <3> QED BY <1>1, <2>3, <3>1, <3>2 DEF Inv, SignalsAreDistinct
  <2>5. CASE Free(s) /\ (topics[FilterOf[c]] = NULL \/ ~Alive(topics[FilterOf[c]]))
    <3>1. \A g \in Handles :
            id[g] # NULL /\ publish_signal[g] # NULL /\ FilterOf[id[g]] = FilterOf[c] => FALSE
      BY <1>4, <2>5 DEF Inv, HeldSignalsAreRegistered, Alive
    <3>2. HeldSignalsAreRegistered'
      BY <1>1, <1>4, <2>1, <2>2, <3>1 DEF Inv, TypeOK, HeldSignalsAreRegistered
    <3>3. SignalsAreDistinct'
      BY <1>1, <2>1, <2>2, <2>5 DEF Inv, TypeOK, SignalsAreDistinct, Free
    <3> QED BY <2>3, <3>2, <3>3 DEF Inv
  <2> QED BY <2>1, <2>4, <2>5, LookupIsCurrentOrFree
<1> QED BY <1>3, <1>4

\* Its second reference.
LEMMA GetConsumerSignalPreserves ==
    ASSUME Inv, NEW h \in Handles, GetConsumerSignal(h)
    PROVE  Inv'
<1>1. /\ UNCHANGED <<topics, id, publish_signal, polling, fresh, unsent>>
      /\ publish_signal[h] # NULL /\ consumer_signal[h] = NULL
  BY DEF GetConsumerSignal, polls
<1>2. id[h] \in Consumers /\ id[h] # NULL
  BY <1>1 DEF Inv, TypeOK
<1>3. PICK s \in SignalIds :
        /\ SignalFor(consumers, id[h], s)
        /\ consumer_signal' = [consumer_signal EXCEPT ![h] = s]
        /\ consumers' = [consumers EXCEPT ![id[h]] = s]
  BY DEF GetConsumerSignal
<1>4. s # NULL
  BY SignalAssumption
<1>5. TypeOK'
  BY <1>1, <1>2, <1>3, <1>4 DEF Inv, TypeOK, Complete
<1>6. CASE s = consumers[id[h]]
  <2>1. consumers' = consumers
    BY <1>2, <1>3, <1>6 DEF Inv, TypeOK
  <2>2. HeldSignalsAreRegistered'
    BY <1>1, <1>3, <1>6, <2>1 DEF Inv, TypeOK, HeldSignalsAreRegistered
  <2> QED BY <1>1, <1>5, <2>1, <2>2 DEF Inv, SignalsAreDistinct
<1>7. CASE Free(s) /\ (consumers[id[h]] = NULL \/ ~Alive(consumers[id[h]]))
  <2>1. \A g \in Handles : id[g] = id[h] => consumer_signal[g] = NULL
    BY <1>7 DEF Inv, HeldSignalsAreRegistered, Alive
  <2>2. HeldSignalsAreRegistered'
    BY <1>1, <1>2, <1>3, <2>1 DEF Inv, TypeOK, HeldSignalsAreRegistered
  <2>3. SignalsAreDistinct'
    BY <1>1, <1>2, <1>3, <1>7 DEF Inv, TypeOK, SignalsAreDistinct, Free
  <2> QED BY <1>5, <2>2, <2>3 DEF Inv
<1> QED BY <1>3, <1>6, <1>7, LookupIsCurrentOrFree

\* A clone holds the references of its original.
LEMMA ClonePreserves ==
    ASSUME Inv, NEW h \in Handles, NEW g \in Handles, Clone(h, g)
    PROVE  Inv'
<1>1. /\ UNCHANGED <<topics, consumers, polling, fresh, unsent>>
      /\ id' = [id EXCEPT ![g] = id[h]]
      /\ publish_signal' = [publish_signal EXCEPT ![g] = publish_signal[h]]
      /\ consumer_signal' = [consumer_signal EXCEPT ![g] = consumer_signal[h]]
      /\ Complete(h)
  BY DEF Clone, registry, polls
<1>2. TypeOK'
  BY <1>1 DEF Inv, TypeOK, Complete
<1>3. HeldSignalsAreRegistered'
  BY <1>1 DEF Inv, TypeOK, HeldSignalsAreRegistered
<1>4. SignalsAreDistinct'
  BY <1>1 DEF Inv, SignalsAreDistinct
<1> QED BY <1>2, <1>3, <1>4 DEF Inv

\* Handles are dropped field by field.
LEMMA DropPreserves ==
    ASSUME Inv, NEW h \in Handles, DropPublishSignal(h) \/ DropConsumerSignal(h)
    PROVE  Inv'
<1>1. UNCHANGED <<topics, consumers, polling, fresh, unsent>>
  BY DEF DropPublishSignal, DropConsumerSignal, registry, polls
<1>2. SignalsAreDistinct'
  BY <1>1 DEF Inv, SignalsAreDistinct
<1>3. CASE DropPublishSignal(h)
  <2>1. /\ Complete(h) /\ h \notin polling
        /\ publish_signal' = [publish_signal EXCEPT ![h] = NULL]
        /\ UNCHANGED <<id, consumer_signal>>
    BY <1>3 DEF DropPublishSignal
  <2>2. TypeOK'
    BY <1>1, <2>1 DEF Inv, TypeOK, Complete
  <2>3. HeldSignalsAreRegistered'
    BY <1>1, <2>1 DEF Inv, TypeOK, HeldSignalsAreRegistered
  <2> QED BY <1>2, <2>2, <2>3 DEF Inv
<1>4. CASE DropConsumerSignal(h)
  <2>1. /\ publish_signal[h] = NULL /\ consumer_signal[h] # NULL
        /\ consumer_signal' = [consumer_signal EXCEPT ![h] = NULL]
        /\ id' = [id EXCEPT ![h] = NULL]
        /\ UNCHANGED publish_signal
    BY <1>4 DEF DropConsumerSignal
  <2>2. TypeOK'
    BY <1>1, <2>1 DEF Inv, TypeOK, Complete
  <2>3. HeldSignalsAreRegistered'
    BY <1>1, <2>1 DEF Inv, TypeOK, HeldSignalsAreRegistered
  <2> QED BY <1>2, <2>2, <2>3 DEF Inv
<1> QED BY <1>3, <1>4

\* Polls subscribe, look and end.
LEMMA PollPreserves ==
    ASSUME Inv, NEW h \in Handles, Mark(h) \/ EndPoll(h)
    PROVE  Inv'
<1>1. /\ UNCHANGED <<topics, consumers, id, publish_signal, consumer_signal, unsent>>
      /\ fresh' = [fresh EXCEPT ![h] = {}]
      /\ \/ Complete(h) /\ polling' = polling \union {h}
         \/ polling' = polling \ {h}
  BY DEF Mark, EndPoll, registry, references
<1>2. TypeOK'
  BY <1>1 DEF Inv, TypeOK, Complete
<1>3. HeldSignalsAreRegistered' /\ SignalsAreDistinct'
  BY <1>1 DEF Inv, HeldSignalsAreRegistered, SignalsAreDistinct
<1> QED BY <1>2, <1>3 DEF Inv

\* What a notification marks is of the two kinds that a poll subscribes to.
LEMMA NotifiedType ==
    ASSUME TypeOK, NEW signals
    PROVE  Notified(signals) \in [Handles -> SUBSET {"publishes", "consumer_changes"}]
BY DEF TypeOK, Notified

\* Removing dead entries takes no signal from a handle.
LEMMA RemainingKeepsHeld ==
    ASSUME NEW K, NEW entries \in [K -> SignalIds \union {NULL}], NEW keys
    PROVE  /\ Remaining(entries, keys) \in [K -> SignalIds \union {NULL}]
           /\ \A k \in K :
                \/ Remaining(entries, keys)[k] = entries[k]
                \/ /\ Remaining(entries, keys)[k] = NULL
                   /\ entries[k] # NULL /\ ~Alive(entries[k])
BY DEF Remaining

\* Notifications, with or without the registry.
LEMMA NotifyPreserves ==
    ASSUME Inv,
           \/ \E n \in Threads : (\E ts \in SUBSET Topics : NotifyAll(n, ts)) \/ NotifyTopics(n)
           \/ \E c \in Consumers : NotifyConsumer(c)
           \/ \E h \in Handles : NotifyChange(h)
    PROVE  Inv'
<1>1. UNCHANGED <<id, publish_signal, consumer_signal, polling>>
  BY DEF NotifyAll, NotifyTopics, NotifyConsumer, NotifyChange, references
<1>2. \E signals : fresh' = Notified(signals)
  BY DEF NotifyAll, NotifyTopics, NotifyConsumer, NotifyChange
<1>3. unsent' \in [Threads -> (SUBSET Topics) \union {NULL}]
  <2>1. \/ unsent' = unsent
        \/ \E n \in Threads, ts \in SUBSET Topics : unsent' = [unsent EXCEPT ![n] = ts]
        \/ \E n \in Threads : unsent' = [unsent EXCEPT ![n] = NULL]
    BY DEF NotifyAll, NotifyTopics, NotifyConsumer, NotifyChange
  <2>2. unsent \in [Threads -> (SUBSET Topics) \union {NULL}]
    BY DEF Inv, TypeOK
  <2> QED BY <2>1, <2>2
<1>4. /\ \E keys : topics' = topics \/ topics' = Remaining(topics, keys)
      /\ \E keys : consumers' = consumers \/ consumers' = Remaining(consumers, keys)
  BY DEF NotifyAll, NotifyTopics, NotifyConsumer, NotifyChange, registry
<1>5. /\ topics' \in [Topics -> SignalIds \union {NULL}]
      /\ \A t \in Topics :
           \/ topics'[t] = topics[t]
           \/ topics'[t] = NULL /\ topics[t] # NULL /\ ~Alive(topics[t])
  BY <1>4, RemainingKeepsHeld DEF Inv, TypeOK
<1>6. /\ consumers' \in [Consumers -> SignalIds \union {NULL}]
      /\ \A c \in Consumers :
           \/ consumers'[c] = consumers[c]
           \/ consumers'[c] = NULL /\ consumers[c] # NULL /\ ~Alive(consumers[c])
  BY <1>4, RemainingKeepsHeld DEF Inv, TypeOK
<1>7. TypeOK'
  BY <1>1, <1>2, <1>3, <1>5, <1>6, NotifiedType DEF Inv, TypeOK, Complete
<1>8. HeldSignalsAreRegistered'
  <2> SUFFICES ASSUME NEW h \in Handles
               PROVE  /\ publish_signal[h] # NULL =>
                           publish_signal[h] = (IF FilterOf[id[h]] = NULL THEN AllPublishes
                                                ELSE topics'[FilterOf[id[h]]])
                      /\ consumer_signal[h] # NULL => consumer_signal[h] = consumers'[id[h]]
    BY <1>1 DEF HeldSignalsAreRegistered
  <2>1. CASE publish_signal[h] # NULL
    <3>1. id[h] \in Consumers /\ FilterOf[id[h]] \in Topics \union {NULL}
      BY <2>1, SignalAssumption DEF Inv, TypeOK
    <3>2. FilterOf[id[h]] # NULL => Alive(topics[FilterOf[id[h]]])
      BY <2>1 DEF Inv, HeldSignalsAreRegistered, Alive
    <3>3. consumer_signal[h] # NULL => Alive(consumers[id[h]])
      BY DEF Inv, HeldSignalsAreRegistered, Alive
    <3> QED BY <2>1, <3>1, <3>2, <3>3, <1>5, <1>6 DEF Inv, HeldSignalsAreRegistered
  <2>2. CASE publish_signal[h] = NULL /\ consumer_signal[h] # NULL
    <3>1. id[h] \in Consumers
      BY <2>2 DEF Inv, TypeOK
    <3>2. Alive(consumers[id[h]])
      BY <2>2 DEF Inv, HeldSignalsAreRegistered, Alive
    <3> QED BY <2>2, <3>1, <3>2, <1>6 DEF Inv, HeldSignalsAreRegistered
  <2> QED BY <2>1, <2>2
<1>9. SignalsAreDistinct'
  BY <1>5, <1>6 DEF Inv, SignalsAreDistinct
<1> QED BY <1>7, <1>8, <1>9 DEF Inv

-----------------------------------------------------------------------------

\* The invariant of the registry and its handles holds whatever threads do.
THEOREM Invariance == Spec => []Inv
<1>1. Inv /\ [Next]_vars => Inv'
  <2> SUFFICES ASSUME Inv, [Next]_vars PROVE Inv'
    OBVIOUS
  <2>1. CASE UNCHANGED vars
    BY <2>1 DEF vars, registry, references, polls, Inv, TypeOK, HeldSignalsAreRegistered,
                SignalsAreDistinct, Complete
  <2>2. CASE Next
    BY <2>2, GetPublishSignalPreserves, GetConsumerSignalPreserves, ClonePreserves,
       DropPreserves, PollPreserves, NotifyPreserves DEF Next
  <2> QED BY <2>1, <2>2
<1> QED BY <1>1, InitEstablishes, PTL DEF Spec

\* The state of the registry, the handles and the polls has its type; nobody polls on a
\* handle that is being opened or dropped.
THEOREM TypeCorrect == Spec => []TypeOK
<1>1. Inv => TypeOK
  BY DEF Inv
<1> QED BY <1>1, Invariance, PTL

\* No live handle is left with a signal that a lookup of its key replaced or that a
\* notification removed.
THEOREM NoHandleIsLeftBehind == Spec => []HeldSignalsAreRegistered
<1>1. Inv => HeldSignalsAreRegistered
  BY DEF Inv
<1> QED BY <1>1, Invariance, PTL

\* No two topics or consumers share a signal.
THEOREM NoSignalIsShared == Spec => []SignalsAreDistinct
<1>1. Inv => SignalsAreDistinct
  BY DEF Inv
<1> QED BY <1>1, Invariance, PTL

-----------------------------------------------------------------------------
(* The registry implements Broadcast.                                      *)

\* A poll waits on the signals of its handle, which the registry gives for its consumer.
LEMMA PollsHoldBoth ==
    ASSUME Inv, NEW h \in polling
    PROVE  /\ h \in Handles /\ Complete(h) /\ id[h] \in Consumers
           /\ FilterOf[id[h]] \in Topics \union {NULL}
           /\ publish_signal[h] = (IF FilterOf[id[h]] = NULL THEN AllPublishes
                                   ELSE topics[FilterOf[id[h]]])
           /\ consumer_signal[h] = consumers[id[h]]
           /\ FilterOf[id[h]] # NULL => topics[FilterOf[id[h]]] \in SignalIds
           /\ consumers[id[h]] \in SignalIds
<1>1. h \in Handles /\ Complete(h)
  BY DEF Inv, TypeOK
<1>2. id[h] \in Consumers
  BY <1>1 DEF Inv, TypeOK, Complete
<1>3. FilterOf[id[h]] \in Topics \union {NULL}
  BY <1>2, SignalAssumption
<1>4. /\ publish_signal[h] = (IF FilterOf[id[h]] = NULL THEN AllPublishes
                              ELSE topics[FilterOf[id[h]]])
      /\ consumer_signal[h] = consumers[id[h]]
  BY <1>1 DEF Inv, HeldSignalsAreRegistered, Complete
<1>5. /\ FilterOf[id[h]] # NULL => topics[FilterOf[id[h]]] \in SignalIds
      /\ consumers[id[h]] \in SignalIds
  BY <1>1, <1>2, <1>3, <1>4, SignalAssumption DEF Inv, TypeOK, Complete
<1> QED BY <1>1, <1>2, <1>3, <1>4, <1>5

\* A notification of all publishes marks the polls with no filter.
LEMMA AllReachesUnfiltered ==
    ASSUME Inv, NEW n \in Threads, NEW ts \in SUBSET Topics, NotifyAll(n, ts)
    PROVE  Abs!AnnouncePublish({NULL})
<1>1. \A h \in polling :
        /\ publish_signal[h] \in {AllPublishes} <=> FilterOf[id[h]] \in {NULL}
        /\ consumer_signal[h] \notin {AllPublishes}
        /\ Complete(h) /\ id[h] # NULL
  BY PollsHoldBoth, SignalAssumption
<1>2. fresh' = Notified({AllPublishes}) /\ UNCHANGED <<references, polling>>
  BY DEF NotifyAll
<1>3. fresh \in [Handles -> SUBSET {"publishes", "consumer_changes"}]
  BY DEF Inv, TypeOK
<1> QED BY <1>1, <1>2, <1>3 DEF Notified, references, Complete, Abs!AnnouncePublish, Abs!Reach

\* A notification of topics marks the polls that are filtered by one of them.
LEMMA TopicsReachTheirs ==
    ASSUME Inv, NEW n \in Threads, NotifyTopics(n)
    PROVE  unsent[n] \in SUBSET Topics /\ Abs!AnnouncePublish(unsent[n])
<1> DEFINE signals == {topics[t] : t \in unsent[n]} \ {NULL}
<1>1. unsent[n] \in SUBSET Topics
  BY DEF Inv, TypeOK, NotifyTopics
<1>2. ASSUME NEW h \in polling
      PROVE  /\ publish_signal[h] \in signals <=> FilterOf[id[h]] \in unsent[n]
             /\ consumer_signal[h] \notin signals
             /\ Complete(h) /\ id[h] # NULL
  <2>1. FilterOf[id[h]] \in unsent[n] => publish_signal[h] \in signals
    BY <1>1, PollsHoldBoth, SignalAssumption
  <2>2. publish_signal[h] \in signals => FilterOf[id[h]] \in unsent[n]
    BY <1>1, PollsHoldBoth, SignalAssumption DEF Inv, TypeOK, SignalsAreDistinct
  <2>3. consumer_signal[h] \notin signals
    BY <1>1, PollsHoldBoth DEF Inv, SignalsAreDistinct
  <2> QED BY <2>1, <2>2, <2>3, PollsHoldBoth, SignalAssumption
<1>3. fresh' = Notified(signals) /\ UNCHANGED <<references, polling>>
  BY DEF NotifyTopics
<1>4. fresh \in [Handles -> SUBSET {"publishes", "consumer_changes"}]
  BY DEF Inv, TypeOK
<1> HIDE DEF signals
<1>5. Abs!AnnouncePublish(unsent[n])
  BY <1>2, <1>3, <1>4 DEF Notified, references, Complete, Abs!AnnouncePublish, Abs!Reach
<1> QED BY <1>1, <1>5

\* A notification of a consumer, by its id or through one of its handles, marks its polls.
LEMMA ChangesReachTheirs ==
    ASSUME Inv, NEW c \in Consumers, NEW signals,
           signals = {consumers[c]} \ {NULL},
           fresh' = Notified(signals), UNCHANGED <<references, polling>>
    PROVE  Abs!AnnounceChange(c)
<1>1. ASSUME NEW h \in polling
      PROVE  /\ consumer_signal[h] \in signals <=> id[h] = c
             /\ publish_signal[h] \notin signals
             /\ Complete(h)
  <2>1. id[h] = c => consumer_signal[h] \in signals
    BY PollsHoldBoth, SignalAssumption
  <2>2. consumer_signal[h] \in signals => id[h] = c
    BY PollsHoldBoth, SignalAssumption DEF Inv, TypeOK, SignalsAreDistinct
  <2>3. publish_signal[h] \notin signals
    BY PollsHoldBoth, SignalAssumption DEF Inv, TypeOK, SignalsAreDistinct
  <2> QED BY <2>1, <2>2, <2>3, PollsHoldBoth
<1>2. fresh \in [Handles -> SUBSET {"publishes", "consumer_changes"}] /\ c # NULL
  BY SignalAssumption DEF Inv, TypeOK
<1> QED BY <1>1, <1>2 DEF Notified, references, Complete, Abs!AnnounceChange, Abs!Reach

\* The consumer of each handle, as Broadcast knows it.
ConsumerOf == [h \in Handles |-> IF Complete(h) THEN id[h] ELSE NULL]

\* Opening, cloning and dropping a handle change what Broadcast knows of it in one step,
\* the one that makes it complete or that begins to drop it.
LEMMA HandlesRefine ==
    ASSUME Inv, NEW h \in Handles,
           \/ \E c \in Consumers : GetPublishSignal(h, c)
           \/ GetConsumerSignal(h)
           \/ \E g \in Handles : Clone(h, g)
           \/ DropPublishSignal(h) \/ DropConsumerSignal(h)
    PROVE  [Abs!Next]_Abs!vars
<1>1. UNCHANGED polls
  BY DEF GetPublishSignal, GetConsumerSignal, Clone, DropPublishSignal, DropConsumerSignal
<1>2. /\ id \in [Handles -> Consumers \union {NULL}]
      /\ publish_signal \in [Handles -> SignalIds \union {AllPublishes, NULL}]
      /\ consumer_signal \in [Handles -> SignalIds \union {NULL}]
  BY DEF Inv, TypeOK
<1>3. CASE (\E c \in Consumers : GetPublishSignal(h, c)) \/ DropConsumerSignal(h)
  <2>1. /\ \A g \in Handles \ {h} :
             /\ id'[g] = id[g] /\ publish_signal'[g] = publish_signal[g]
             /\ consumer_signal'[g] = consumer_signal[g]
        /\ publish_signal[h] = NULL
        /\ consumer_signal'[h] = NULL
    BY <1>2, <1>3 DEF GetPublishSignal, DropConsumerSignal
  <2>2. ConsumerOf' = ConsumerOf
    BY <2>1 DEF ConsumerOf, Complete
  <2> QED BY <1>1, <2>2 DEF polls, ConsumerOf, Abs!vars
<1>4. CASE GetConsumerSignal(h)
  <2>1. /\ publish_signal[h] # NULL /\ consumer_signal[h] = NULL
        /\ UNCHANGED <<id, publish_signal>>
        /\ \E s \in SignalIds : consumer_signal' = [consumer_signal EXCEPT ![h] = s]
    BY <1>4 DEF GetConsumerSignal
  <2>2. PICK c \in Consumers : c = id[h]
    BY <2>1 DEF Inv, TypeOK
  <2>3. ConsumerOf[h] = NULL /\ ConsumerOf' = [ConsumerOf EXCEPT ![h] = c]
    BY <1>2, <2>1, <2>2, SignalAssumption DEF ConsumerOf, Complete
  <2>4. Abs!Become(h, c)
    BY <1>1, <2>3 DEF polls, ConsumerOf, Abs!Become
  <2>5. [g \in Handles |-> IF Complete(g) THEN id[g] ELSE NULL][h] = NULL
    BY <2>3 DEF ConsumerOf
  <2>6. Abs!Next
    BY <2>2, <2>4, <2>5 DEF Abs!Next
  <2> QED BY <2>6
<1>5. ASSUME NEW g \in Handles, Clone(h, g)
      PROVE  [Abs!Next]_Abs!vars
  <2>1. /\ Complete(h)
        /\ publish_signal[g] = NULL /\ consumer_signal[g] = NULL
        /\ id' = [id EXCEPT ![g] = id[h]]
        /\ publish_signal' = [publish_signal EXCEPT ![g] = publish_signal[h]]
        /\ consumer_signal' = [consumer_signal EXCEPT ![g] = consumer_signal[h]]
    BY <1>5 DEF Clone
  <2>2. PICK c \in Consumers : c = id[h]
    BY <2>1 DEF Inv, TypeOK, Complete
  <2>3. ConsumerOf[g] = NULL /\ ConsumerOf' = [ConsumerOf EXCEPT ![g] = c]
    BY <1>2, <2>1, <2>2 DEF ConsumerOf, Complete
  <2>4. Abs!Become(g, c)
    BY <1>1, <2>3 DEF polls, ConsumerOf, Abs!Become
  <2>5. [f \in Handles |-> IF Complete(f) THEN id[f] ELSE NULL][g] = NULL
    BY <2>3 DEF ConsumerOf
  <2>6. Abs!Next
    BY <2>2, <2>4, <2>5 DEF Abs!Next
  <2> QED BY <2>6
<1>6. CASE DropPublishSignal(h)
  <2>1. /\ h \notin polling /\ UNCHANGED <<id, consumer_signal>>
        /\ publish_signal' = [publish_signal EXCEPT ![h] = NULL]
    BY <1>6 DEF DropPublishSignal
  <2>2. ConsumerOf' = [ConsumerOf EXCEPT ![h] = NULL]
    BY <1>2, <2>1 DEF ConsumerOf, Complete
  <2>3. Abs!Become(h, NULL)
    BY <1>1, <2>2 DEF polls, ConsumerOf, Abs!Become
  <2> QED BY <2>1, <2>3 DEF Abs!Next
<1> QED BY <1>3, <1>4, <1>5, <1>6

\* Every step of the registry is a step of Broadcast, or one that it does not see.
LEMMA StepRefines ==
    ASSUME Inv, [Next]_vars
    PROVE  [Abs!Next]_Abs!vars
<1>1. CASE UNCHANGED vars
  <2>1. UNCHANGED <<id, publish_signal, consumer_signal, polling, fresh>>
    BY <1>1 DEF vars, references, polls
  <2> QED BY <2>1 DEF Complete, Abs!vars
<1>2. ASSUME NEW h \in Handles, Mark(h)
      PROVE  Abs!Look(h)
  <2>1. /\ UNCHANGED <<id, publish_signal, consumer_signal>> /\ Complete(h)
        /\ polling' = polling \union {h} /\ fresh' = [fresh EXCEPT ![h] = {}]
    BY <1>2 DEF Mark, references
  <2>2. id[h] # NULL
    BY <2>1 DEF Inv, TypeOK, Complete
  <2> QED BY <2>1, <2>2 DEF Complete, Abs!Look
<1>3. ASSUME NEW h \in Handles, EndPoll(h)
      PROVE  Abs!Leave(h)
  BY <1>3 DEF EndPoll, references, Complete, Abs!Leave
<1>4. ASSUME NEW h \in Handles, NotifyChange(h)
      PROVE  \E c \in Consumers : Abs!AnnounceChange(c)
  <2>1. id[h] \in Consumers /\ consumer_signal[h] = consumers[id[h]] /\ consumers[id[h]] # NULL
    BY <1>4 DEF NotifyChange, Complete, Inv, TypeOK, HeldSignalsAreRegistered
  <2>2. fresh' = Notified({consumer_signal[h]}) /\ UNCHANGED <<references, polling>>
    BY <1>4 DEF NotifyChange
  <2>3. {consumer_signal[h]} = {consumers[id[h]]} \ {NULL}
    BY <2>1
  <2> QED BY <2>1, <2>2, <2>3, ChangesReachTheirs
<1>5. ASSUME NEW c \in Consumers, NotifyConsumer(c)
      PROVE  Abs!AnnounceChange(c)
  BY <1>5, ChangesReachTheirs DEF NotifyConsumer
<1>6. CASE Next
  <2>1. CASE \E h \in Handles : Mark(h) \/ EndPoll(h) \/ NotifyChange(h)
    BY <1>2, <1>3, <1>4, <2>1 DEF Abs!Next
  <2>2. CASE \E n \in Threads : (\E ts \in SUBSET Topics : NotifyAll(n, ts)) \/ NotifyTopics(n)
    BY <2>2, AllReachesUnfiltered, TopicsReachTheirs DEF Abs!Next
  <2>3. CASE \E c \in Consumers : NotifyConsumer(c)
    BY <1>5, <2>3 DEF Abs!Next
  <2> QED BY <1>6, <2>1, <2>2, <2>3, HandlesRefine DEF Next
<1> QED BY <1>1, <1>6

\* With weak references, lookups, removals and drops in any order, notifications reach the
\* polls they are for and no others: the registry implements Broadcast.
THEOREM RegistryImplementsBroadcast == Spec => NotificationsReachPolls
<1>1. Init => Abs!Init
  BY DEF Init, Complete, Abs!Init
<1>2. Inv /\ [Next]_vars => [Abs!Next]_Abs!vars
  BY StepRefines
<1> QED BY <1>1, <1>2, Invariance, PTL DEF Spec, NotificationsReachPolls, Abs!Spec
=============================================================================
