------------------------------- MODULE FanOut -------------------------------
(***************************************************************************)
(* What a litefan store promises its users, with no log, no cursor, no     *)
(* lease and no clock: a published message is at once in the inbox of      *)
(* every open subscriber that matches it, and stays there until a worker   *)
(* of the subscriber, who must have received it, settles or buries it, or  *)
(* the subscriber is deleted.  LogStore, which puts nothing in any inbox   *)
(* when it publishes, is shown to implement this.                          *)
(***************************************************************************)
EXTENDS Naturals, Sequences, FiniteSets

CONSTANTS
    Names,      \* the names a subscriber may take
    Topics,     \* the topics of messages and filters
    NULL,       \* no topic; as a filter: every message
    MaxBatch    \* the most messages published at once

VARIABLES
    published,    \* number of messages ever published: ids are 1..published
    retained,     \* message id -> topic, of the messages still stored
    enrolled,     \* number of subscribers ever: ids are 1..enrolled
    subscribers,  \* subscriber id -> [name, topic_filter, open]
    inbox,        \* subscriber id -> ids of the messages it still has to handle
    delivered,    \* subscriber id -> ids of the messages its workers received so far
    dead,         \* subscriber id -> ids of the messages it has set aside
    outcomes      \* id of a deleted subscriber -> what its deletion discarded

vars == <<published, retained, enrolled, subscribers, inbox, delivered, dead,
          outcomes>>

Filters == Topics \union {NULL}

Modes == {"DrainedOnly", "DiscardOutstanding", "DiscardAll"}

Batches == UNION {[1..n -> Filters] : n \in 1..MaxBatch}

Matches(filter, topic) == filter = NULL \/ topic = filter

Nothing == [x \in {} |-> x]

Init ==
    /\ published = 0
    /\ retained = Nothing
    /\ enrolled = 0
    /\ subscribers = Nothing
    /\ inbox = Nothing
    /\ delivered = Nothing
    /\ dead = Nothing
    /\ outcomes = Nothing

-----------------------------------------------------------------------------

\* A new subscriber starts with nothing: it sees only what is published later.
\* Its id was never that of another subscriber, and no other has its name.
Subscribe(name, filter) ==
    LET s == enrolled + 1
    IN  /\ \A t \in DOMAIN subscribers : subscribers[t].name # name
        /\ enrolled' = s
        /\ subscribers' = [t \in DOMAIN subscribers \union {s} |->
                             IF t = s
                             THEN [name |-> name, topic_filter |-> filter, open |-> TRUE]
                             ELSE subscribers[t]]
        /\ inbox' = [t \in DOMAIN subscribers \union {s} |->
                       IF t = s THEN {} ELSE inbox[t]]
        /\ delivered' = [t \in DOMAIN subscribers \union {s} |->
                           IF t = s THEN {} ELSE delivered[t]]
        /\ dead' = [t \in DOMAIN subscribers \union {s} |->
                      IF t = s THEN {} ELSE dead[t]]
        /\ UNCHANGED <<published, retained, outcomes>>

\* The messages of a batch reach every open subscriber they match, all at once.
Publish(batch) ==
    LET new == published + 1 .. published + Len(batch)
    IN  /\ published' = published + Len(batch)
        /\ retained' = [m \in DOMAIN retained \union new |->
                          IF m \in new THEN batch[m - published] ELSE retained[m]]
        /\ inbox' = [s \in DOMAIN subscribers |->
                       inbox[s] \union
                         {m \in new :
                            /\ subscribers[s].open
                            /\ Matches(subscribers[s].topic_filter, batch[m - published])}]
        /\ UNCHANGED <<enrolled, subscribers, delivered, dead, outcomes>>

\* Workers of a subscriber receive messages, each perhaps more than once.
Deliver(s, batch) ==
    /\ batch \subseteq inbox[s]
    /\ delivered' = [delivered EXCEPT ![s] = @ \union batch]
    /\ UNCHANGED <<published, retained, enrolled, subscribers, inbox, dead, outcomes>>

\* A subscriber is done with messages it received.
Settle(s, done) ==
    /\ done \subseteq inbox[s] \intersect delivered[s]
    /\ inbox' = [inbox EXCEPT ![s] = @ \ done]
    /\ UNCHANGED <<published, retained, enrolled, subscribers, delivered, dead, outcomes>>

\* A subscriber sets messages it received aside, ...
Bury(s, failed) ==
    /\ failed \subseteq inbox[s] \intersect delivered[s]
    /\ inbox' = [inbox EXCEPT ![s] = @ \ failed]
    /\ dead' = [dead EXCEPT ![s] = @ \union failed]
    /\ UNCHANGED <<published, retained, enrolled, subscribers, delivered, outcomes>>

\* ... takes some of them back, ...
Revive(s, again) ==
    /\ again \subseteq dead[s]
    /\ inbox' = [inbox EXCEPT ![s] = @ \union again]
    /\ dead' = [dead EXCEPT ![s] = @ \ again]
    /\ UNCHANGED <<published, retained, enrolled, subscribers, delivered, outcomes>>

\* ... or forgets them.
Drop(s, old) ==
    /\ old \subseteq dead[s]
    /\ dead' = [dead EXCEPT ![s] = @ \ old]
    /\ UNCHANGED <<published, retained, enrolled, subscribers, inbox, delivered, outcomes>>

\* A closed subscriber receives nothing new and keeps what it has.
Close(s) ==
    /\ subscribers[s].open
    /\ subscribers' = [subscribers EXCEPT ![s].open = FALSE]
    /\ UNCHANGED <<published, retained, enrolled, inbox, delivered, dead, outcomes>>

\* A deletion discards only what its mode allows, and says what it discarded.
Delete(s, mode) ==
    /\ mode = "DrainedOnly" => ~subscribers[s].open /\ inbox[s] = {}
    /\ mode # "DiscardAll" => dead[s] = {}
    /\ subscribers' = [t \in DOMAIN subscribers \ {s} |-> subscribers[t]]
    /\ inbox' = [t \in DOMAIN inbox \ {s} |-> inbox[t]]
    /\ delivered' = [t \in DOMAIN delivered \ {s} |-> delivered[t]]
    /\ dead' = [t \in DOMAIN dead \ {s} |-> dead[t]]
    /\ outcomes' = [t \in DOMAIN outcomes \union {s} |->
                      IF t = s
                      THEN [discarded_deliveries |-> Cardinality(inbox[s]),
                            discarded_archives |-> Cardinality(dead[s])]
                      ELSE outcomes[t]]
    /\ UNCHANGED <<published, retained, enrolled>>

\* Only messages that no subscriber holds, in either place, are forgotten.
Forget(gone) ==
    /\ \A s \in DOMAIN subscribers : gone \intersect (inbox[s] \union dead[s]) = {}
    /\ retained' = [m \in DOMAIN retained \ gone |-> retained[m]]
    /\ UNCHANGED <<published, enrolled, subscribers, inbox, delivered, dead, outcomes>>

SubscriberStep(s) ==
    \/ \E S \in SUBSET inbox[s] : Deliver(s, S) \/ Settle(s, S) \/ Bury(s, S)
    \/ \E S \in SUBSET dead[s] : Revive(s, S) \/ Drop(s, S)
    \/ Close(s)
    \/ \E mode \in Modes : Delete(s, mode)

Next ==
    \/ \E name \in Names, filter \in Filters : Subscribe(name, filter)
    \/ \E batch \in Batches : Publish(batch)
    \/ \E s \in DOMAIN subscribers : SubscriberStep(s)
    \/ \E S \in SUBSET DOMAIN retained : Forget(S)

Spec == Init /\ [][Next]_vars

=============================================================================
