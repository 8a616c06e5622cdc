------------------------------ MODULE Broadcast ------------------------------
(***************************************************************************)
(* What the signals of a process promise, with no signal, no reference and *)
(* no registry: a notification of a topic, of all publishes or of a        *)
(* consumer reaches every poll that waits for it, whichever handle it runs *)
(* on and however that handle came to be, and no other poll.               *)
(***************************************************************************)
CONSTANTS
    Handles,    \* handles of consumers in one process
    Consumers,  \* identities of consumers
    FilterOf,   \* identity -> a topic, or NULL for every message
    Topics,     \* topics that can be filtered by
    NULL        \* no filter; no consumer

VARIABLES
    consumer,   \* handle -> the consumer it is of, or NULL
    polling,    \* the handles with a poll under way
    fresh       \* handle -> what has changed since its poll last looked

vars == <<consumer, polling, fresh>>

Kinds == {"publishes", "consumer_changes"}

Init ==
    /\ consumer = [h \in Handles |-> NULL]
    /\ polling = {}
    /\ fresh = [h \in Handles |-> {}]

Become(h, c) == consumer' = [consumer EXCEPT ![h] = c] /\ UNCHANGED <<polling, fresh>>

Look(h) ==
    /\ consumer[h] # NULL
    /\ polling' = polling \union {h}
    /\ fresh' = [fresh EXCEPT ![h] = {}]
    /\ UNCHANGED consumer

Leave(h) ==
    /\ polling' = polling \ {h}
    /\ fresh' = [fresh EXCEPT ![h] = {}]
    /\ UNCHANGED consumer

Reach(waiting, kind) ==
    /\ fresh' = [h \in Handles |->
                   IF h \in polling \intersect waiting THEN fresh[h] \union {kind} ELSE fresh[h]]
    /\ UNCHANGED <<consumer, polling>>

\* A publish is announced to those who wait for any message, and to those of its topics.
AnnouncePublish(filters) ==
    Reach({h \in Handles : consumer[h] # NULL /\ FilterOf[consumer[h]] \in filters}, "publishes")

AnnounceChange(c) == Reach({h \in Handles : consumer[h] = c}, "consumer_changes")

Next ==
    \/ \E h \in Handles, c \in Consumers : consumer[h] = NULL /\ Become(h, c)
    \/ \E h \in Handles \ polling : Become(h, NULL)
    \/ \E h \in Handles : Look(h) \/ Leave(h)
    \/ AnnouncePublish({NULL})
    \/ \E filters \in SUBSET Topics : AnnouncePublish(filters)
    \/ \E c \in Consumers : AnnounceChange(c)

Spec == Init /\ [][Next]_vars
=============================================================================
