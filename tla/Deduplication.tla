--------------------------- MODULE Deduplication ----------------------------
(***************************************************************************)
(* What publishing with idempotency keys promises, with no ledger and no   *)
(* set-based statements: a call handles its messages one after another,    *)
(* and a message whose key was published in the current window is answered *)
(* with the message that was.  The window of a key is over for certain     *)
(* when it ended before the call, is not over when it ends after the call, *)
(* and in between the store may see it either way, once per call.          *)
(***************************************************************************)
EXTENDS Integers, Sequences, FiniteSetsExt

CONSTANTS
    Keys,      \* idempotency keys
    Bodies,    \* what is published
    NULL,      \* no key
    Windows,   \* lengths of windows
    MaxBatch   \* the most messages of a call

VARIABLES
    time,       \* the wall clock
    published,  \* message id -> [key, body, at, until, committed], of all messages ever
    answered,   \* the batch of the last call answered
    outcomes    \* and its answer

vars == <<time, published, answered, outcomes>>

Requests == [key : Keys \union {NULL}, body : Bodies]

Calls == UNION {[1..n -> Requests] : n \in 1..MaxBatch}

Init ==
    /\ time = 0
    /\ published = << >>
    /\ answered = << >> /\ outcomes = << >>

Of(log, k) == {i \in DOMAIN log : log[i].key = k}

LastOf(log, k) == Max(Of(log, k))

\* One message after what came before it in the call: seen.log is the log, seen.keys the
\* keys that are suppressed, seen.outcomes the answers so far.
PublishOne(seen, request, at, until) ==
    IF request.key \in seen.keys
    THEN [seen EXCEPT !.outcomes =
            Append(@, [id |-> LastOf(seen.log, request.key), published |-> FALSE])]
    ELSE [log |-> Append(seen.log, [key |-> request.key, body |-> request.body,
                                    at |-> at, until |-> until, committed |-> time]),
          keys |-> seen.keys \union ({request.key} \ {NULL}),
          outcomes |-> Append(seen.outcomes,
                              [id |-> Len(seen.log) + 1, published |-> TRUE])]

\* The keys that a call which started at that time may find suppressed.
MaySuppress(S, started) ==
    \A k \in Keys :
      /\ k \in S => Of(published, k) # {} /\ published[LastOf(published, k)].until > started
      /\ k \notin S => Of(published, k) = {} \/ published[LastOf(published, k)].until <= time

\* All the messages of a call, in turn.
PublishAll(suppressed, batch, at, until) ==
    LET seen[i \in 0 .. Len(batch)] ==
          IF i = 0 THEN [log |-> published, keys |-> suppressed, outcomes |-> << >>]
          ELSE PublishOne(seen[i - 1], batch[i], at, until)
    IN  seen[Len(batch)]

Publish(batch, started, window) ==
    /\ answered' = batch
    /\ UNCHANGED time
    /\ \E suppressed \in SUBSET Keys :
         /\ MaySuppress(suppressed, started)
         /\ LET done == PublishAll(suppressed, batch, started, started + window)
            IN  published' = done.log /\ outcomes' = done.outcomes

Tick == time' = time + 1 /\ UNCHANGED <<published, answered, outcomes>>

Next ==
    \/ Tick
    \/ \E batch \in Calls, started \in 0..time, window \in Windows :
         Publish(batch, started, window)

Spec == Init /\ [][Next]_vars
=============================================================================
