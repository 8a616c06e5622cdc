------------------------------ MODULE PollLoop ------------------------------
(***************************************************************************)
(* The long poll of litefan: the loop of Consumer::poll with its query and *)
(* transaction, its sleep, and the in-process signals that cut the sleep   *)
(* short (src/src/consumer.rs, signals.rs, time.rs).                       *)
(*                                                                         *)
(* Several tasks of one process poll one consumer.  Its messages are       *)
(* published, settled and redriven by tasks of the same process, which     *)
(* commit first and notify later, or by another process, which notifies    *)
(* nobody here.  Of the tables there is only what the loop reads;          *)
(* LogStore has the rest.                                                  *)
(*                                                                         *)
(* Time is relative: every deadline is a number of milliseconds from now,  *)
(* which a tick decrements, so that time never ends.                       *)
(***************************************************************************)
EXTENDS Integers, FiniteSets, FiniteSetsExt

CONSTANTS
    Pollers,     \* the tasks that call poll, all with handles of one process
    Messages,    \* the messages that match the consumer's filter
    Filter,      \* the topic that the consumer filters by
    NULL,        \* no deadline; as MaxNacks: no bound
    Page,        \* Poll::max_messages
    Waits,       \* the values of Poll::wait
    Interval,    \* Config::cross_process_poll_interval
    Lease,       \* Poll::visibility_timeout
    Delays,      \* the delays of Retry, 0 for Immediately
    MaxLag,      \* the longest a loop may take from reading the time to its sleep
    Origins,     \* where operations come from: "here", this process, or "elsewhere"
    MaxNacks,    \* bound on nacks
    MaxFaults    \* bound on crashes, cancelled polls and redrives

ASSUME PollNullAssumption == NULL \notin Int

ASSUME PollBoundsAssumption ==
    /\ Page \in Nat \ {0} /\ Interval \in Nat \ {0} /\ Lease \in Nat \ {0}
    /\ Waits \subseteq Nat /\ Delays \subseteq Nat
    /\ Origins \subseteq {"here", "elsewhere"}
    /\ MaxLag \in Nat \ {0} /\ MaxNacks \in Nat \union {NULL} /\ MaxFaults \in Nat

VARIABLES
    unpublished,  \* messages that are still to come
    unread,       \* log entries of the consumer's ahead of its cursor, before its end
    others,       \* is an entry for other consumers ahead of the cursor?
    visible_in,   \* delivery row -> time until its visible_at; negative once past
    archived,     \* messages with an archive row
    held,         \* messages that some worker is working on
    draining,     \* has begin_draining been called?
    exists,       \* has the consumer not been deleted?
    nacks,        \* nacks so far, if they are bounded
    faults,       \* faults so far
    unsent,       \* what was committed here and not yet notified
    pc,           \* where each poller is
    fresh,        \* poller -> signals that changed since it marked them seen
    left,         \* poller -> time until the deadline of its poll
    lag,          \* poller -> age of the time it computes with
    known,        \* poller -> time until the next_visible_at it read, or NULL
    saw_draining, \* poller -> the draining flag it read
    due,          \* poller -> time until its timer fires
    announced,    \* history: what was claimable when it was notified, and still is
    redriven      \* history: messages ever redriven

log == <<unpublished, unread, others>>
rows == <<visible_in, archived, held>>
status == <<draining, exists>>
poll == <<pc, fresh, left, lag, known, saw_draining, due>>
history == <<announced, redriven>>
counts == <<nacks, faults>>
vars == <<log, rows, status, counts, unsent, poll, history>>

Signals == {"publishes", "consumer_changes"}

Idle == "idle"
Running == {"check", "claim", "requery", "decide"}

NoRows == [m \in {} |-> 0]

Init ==
    /\ unpublished = Messages /\ unread = {} /\ others = FALSE
    /\ visible_in = NoRows /\ archived = {} /\ held = {}
    /\ draining = FALSE /\ exists = TRUE
    /\ nacks = 0 /\ faults = 0
    /\ unsent = {}
    /\ pc = [p \in Pollers |-> Idle]
    /\ fresh = [p \in Pollers |-> {}]
    /\ left = [p \in Pollers |-> 0]
    /\ lag = [p \in Pollers |-> 0]
    /\ known = [p \in Pollers |-> NULL]
    /\ saw_draining = [p \in Pollers |-> FALSE]
    /\ due = [p \in Pollers |-> 0]
    /\ announced = {} /\ redriven = {}

-----------------------------------------------------------------------------
(* Helpers.                                                                *)

\* Operations of this process leave a notification to send, for which work is what
\* they made claimable; those of other processes, and calls that are cancelled after
\* their commit, leave none.  Two equal ones not yet sent are as good as one.
Committed(signal, work) ==
    \/ "here" \in Origins /\ unsent' = unsent \union {[signal |-> signal, work |-> work]}
    \/ "elsewhere" \in Origins /\ UNCHANGED unsent

Fault == faults < MaxFaults /\ faults' = faults + 1 /\ UNCHANGED nacks

Without(S) == [m \in DOMAIN visible_in \ S |-> visible_in[m]]

WithRow(m, t) == [n \in DOMAIN visible_in \union {m} |-> IF n = m THEN t ELSE visible_in[n]]

Claimable(m) == m \in unread \/ (m \in DOMAIN visible_in /\ visible_in[m] <= 0)

\* MIN(visible_at)
Earliest ==
    IF DOMAIN visible_in = {} THEN NULL
    ELSE Min({visible_in[m] : m \in DOMAIN visible_in})

\* What p's transaction finds visible, with the time that p read before.
VisibleTo(p) == {m \in DOMAIN visible_in : visible_in[m] <= - lag[p]}

\* scan_cursor < scan_limit
Behind == unread # {} \/ others

\* T is what LIMIT k leaves of S.
Limited(T, S, k) ==
    /\ T \subseteq S
    /\ Cardinality(T) <= k
    /\ T # S => Cardinality(T) = k

-----------------------------------------------------------------------------
(* Everybody else.                                                         *)

Publish(m) ==
    /\ m \in unpublished
    /\ unpublished' = unpublished \ {m}
    /\ unread' = IF draining \/ ~exists THEN unread ELSE unread \union {m}
    /\ Committed("publishes", unread' \ unread)
    /\ UNCHANGED <<others, rows, status, counts, poll, history>>

\* A message of another topic wakes no poller of this consumer.
PublishOther ==
    /\ exists /\ ~draining /\ ~others
    /\ others' = TRUE
    /\ UNCHANGED <<unpublished, unread, rows, status, counts, unsent, poll, history>>

\* Pruning entries of others may take MAX(id) back to the cursor; the end of a drain
\* does not move.
Prune ==
    /\ others /\ ~draining
    /\ others' = FALSE
    /\ UNCHANGED <<unpublished, unread, rows, status, counts, unsent, poll, history>>

BeginDraining ==
    /\ exists /\ ~draining
    /\ draining' = TRUE
    /\ Committed("consumer_changes", {})
    /\ UNCHANGED <<log, rows, exists, counts, poll, history>>

DeleteConsumer ==
    /\ exists
    /\ exists' = FALSE
    /\ unread' = {} /\ others' = FALSE
    /\ visible_in' = NoRows /\ archived' = {} /\ held' = {}
    /\ announced' = {}
    /\ Committed("consumer_changes", {})
    /\ UNCHANGED <<unpublished, draining, counts, poll, redriven>>

\* Neither an acknowledgement nor an extension notifies anybody.
Ack(m) ==
    /\ m \in held \intersect DOMAIN visible_in
    /\ visible_in' = Without({m})
    /\ held' = held \ {m}
    /\ announced' = announced \ {m}
    /\ UNCHANGED <<log, archived, status, counts, unsent, poll, redriven>>

Extend(m) ==
    /\ m \in held \intersect DOMAIN visible_in
    /\ \E old \in 0..MaxLag :
         visible_in' = [visible_in EXCEPT ![m] = Max({@, Lease - old})]
    /\ announced' = announced \ {m}
    /\ UNCHANGED <<log, archived, held, status, counts, unsent, poll, redriven>>

Nack(m) ==
    /\ m \in held \intersect DOMAIN visible_in
    /\ \/ MaxNacks = NULL /\ UNCHANGED nacks
       \/ MaxNacks # NULL /\ nacks < MaxNacks /\ nacks' = nacks + 1
    /\ \E delay \in Delays, old \in 0..MaxLag :
         /\ visible_in' = [visible_in EXCEPT ![m] = delay - old]
         /\ Committed("consumer_changes", IF delay = 0 THEN {m} ELSE {})
    /\ held' = held \ {m}
    /\ announced' = announced \ {m}
    /\ UNCHANGED <<log, archived, status, faults, poll, redriven>>

Archive(m) ==
    /\ m \in held \intersect DOMAIN visible_in
    /\ visible_in' = Without({m})
    /\ archived' = archived \union {m}
    /\ held' = held \ {m}
    /\ announced' = announced \ {m}
    /\ Committed("consumer_changes", {})
    /\ UNCHANGED <<log, status, counts, poll, redriven>>

PurgeArchives(m) ==
    /\ m \in archived
    /\ archived' = archived \ {m}
    /\ UNCHANGED <<log, visible_in, held, status, counts, unsent, poll, history>>

Redrive(m) ==
    /\ m \in archived
    /\ Fault
    /\ archived' = archived \ {m}
    /\ \E delay \in Delays, old \in 0..MaxLag :
         /\ visible_in' = WithRow(m, delay - old)
         /\ Committed("consumer_changes", IF delay = 0 THEN {m} ELSE {})
    /\ redriven' = redriven \union {m}
    /\ UNCHANGED <<log, held, status, poll, announced>>

\* A worker dies, or the result of a poll is dropped; the lease will run out.
Lapse(m) ==
    /\ m \in held
    /\ Fault
    /\ held' = held \ {m}
    /\ UNCHANGED <<log, visible_in, archived, status, unsent, poll, history>>

\* mutant: a notification is for who waits when it is sent, not for who is about to
NotifyWaiters ==
    \E n \in unsent :
      /\ unsent' = unsent \ {n}
      /\ fresh' = [p \in Pollers |->
                     IF pc[p] = "asleep" THEN fresh[p] \union {n.signal} ELSE fresh[p]]
      /\ announced' = announced \union {m \in n.work : Claimable(m)}
      /\ UNCHANGED <<log, rows, status, counts, pc, left, lag, known, saw_draining,
                     due, redriven>>

\* Signal::notify, some time after the commit.
Notify ==
    \E n \in unsent :
      /\ unsent' = unsent \ {n}
      /\ fresh' = [p \in Pollers |->
                     IF pc[p] = Idle THEN {} ELSE fresh[p] \union {n.signal}]
      /\ announced' = announced \union {m \in n.work : Claimable(m)}
      /\ UNCHANGED <<log, rows, status, counts, pc, left, lag, known, saw_draining,
                     due, redriven>>

-----------------------------------------------------------------------------
(* The loop.                                                               *)

\* The call returns, with deliveries, nothing or an error.
Return(p) ==
    /\ pc' = [pc EXCEPT ![p] = Idle]
    /\ fresh' = [fresh EXCEPT ![p] = {}]
    /\ left' = [left EXCEPT ![p] = 0]
    /\ lag' = [lag EXCEPT ![p] = 0]
    /\ known' = [known EXCEPT ![p] = NULL]
    /\ saw_draining' = [saw_draining EXCEPT ![p] = FALSE]
    /\ due' = [due EXCEPT ![p] = 0]

Goto(p, label) == pc' = [pc EXCEPT ![p] = label]

\* The deadline is set; both receivers start with nothing unseen.
Call(p) ==
    /\ pc[p] = Idle
    /\ Goto(p, "mark")
    /\ \E wait \in Waits : left' = [left EXCEPT ![p] = wait]
    /\ UNCHANGED <<log, rows, status, counts, unsent, fresh, lag, known, saw_draining,
                   due, history>>

\* The head of the loop: the signals are marked seen, and claim reads the time.
Mark(p) ==
    /\ pc[p] = "mark"
    /\ Goto(p, "check")
    /\ fresh' = [fresh EXCEPT ![p] = {}]
    /\ lag' = [lag EXCEPT ![p] = 0]
    /\ known' = [known EXCEPT ![p] = NULL]
    /\ UNCHANGED <<log, rows, status, counts, unsent, left, saw_draining, due, history>>

\* What the query read of the consumer is kept for the decision.
Observe(p, next_visible_at) ==
    /\ Goto(p, "decide")
    /\ known' = [known EXCEPT ![p] = next_visible_at]
    /\ saw_draining' = [saw_draining EXCEPT ![p] = draining]

\* mutants: the log is not looked at; a draining consumer has nothing to scan
CheckRetriesOnly(p) ==
    /\ pc[p] = "check"
    /\ \/ /\ ~exists
          /\ Return(p)
       \/ /\ exists /\ VisibleTo(p) = {}
          /\ Observe(p, Earliest)
          /\ UNCHANGED <<fresh, left, lag, due>>
       \/ /\ exists /\ VisibleTo(p) # {}
          /\ Goto(p, "claim")
          /\ UNCHANGED <<fresh, left, lag, known, saw_draining, due>>
    /\ UNCHANGED <<log, rows, status, counts, unsent, history>>

CheckStopsAtDrain(p) ==
    /\ pc[p] = "check"
    /\ \/ /\ ~exists
          /\ Return(p)
       \/ /\ exists /\ VisibleTo(p) = {} /\ (~Behind \/ draining)
          /\ Observe(p, Earliest)
          /\ UNCHANGED <<fresh, left, lag, due>>
       \/ /\ exists /\ (VisibleTo(p) # {} \/ (Behind /\ ~draining))
          /\ Goto(p, "claim")
          /\ UNCHANGED <<fresh, left, lag, known, saw_draining, due>>
    /\ UNCHANGED <<log, rows, status, counts, unsent, history>>

\* The read-only query of claim, at some time after the time was read.
Check(p) ==
    /\ pc[p] = "check"
    /\ \/ /\ ~exists
          /\ Return(p)
       \/ /\ exists /\ VisibleTo(p) = {} /\ ~Behind
          /\ Observe(p, Earliest)
          /\ UNCHANGED <<fresh, left, lag, due>>
       \/ /\ exists /\ (VisibleTo(p) # {} \/ Behind)
          /\ Goto(p, "claim")
          /\ UNCHANGED <<fresh, left, lag, known, saw_draining, due>>
    /\ UNCHANGED <<log, rows, status, counts, unsent, history>>

\* The transaction of claim: retries first, then unread entries.  Other consumers'
\* entries are skipped up to the last one taken, or all if the page is not full.
\* Which of the visible deliveries are taken first is LogStore's business.
Claim(p) ==
    /\ pc[p] = "claim"
    /\ \/ /\ ~exists
          /\ Return(p)
          /\ UNCHANGED <<log, rows, announced>>
       \/ /\ exists
          /\ \E retried \in SUBSET VisibleTo(p), new \in SUBSET unread :
               LET remaining == Page - Cardinality(retried)
                   taken == retried \union new
               IN  /\ Limited(retried, VisibleTo(p), Page)
                   /\ Limited(new, unread, remaining)
                   /\ unread' = unread \ new
                   /\ \/ Cardinality(new) < remaining /\ others' = FALSE
                      \/ Cardinality(new) = remaining /\ UNCHANGED others
                      \/ Cardinality(new) = remaining /\ new # {} /\ others' = FALSE
                   /\ visible_in' = [m \in DOMAIN visible_in \union new |->
                                       IF m \in taken THEN Lease - lag[p] ELSE visible_in[m]]
                   /\ held' = held \union taken
                   /\ announced' = announced \ taken
                   /\ \/ taken # {} /\ Return(p)
                      \/ /\ taken = {} /\ Goto(p, "requery")
                         /\ UNCHANGED <<fresh, left, lag, known, saw_draining, due>>
          /\ UNCHANGED <<unpublished, archived>>
    /\ UNCHANGED <<status, counts, unsent, redriven>>

\* mutant: what was published since the transaction is not asked for
RequeryRowsOnly(p) ==
    /\ pc[p] = "requery"
    /\ \/ /\ ~exists
          /\ Return(p)
       \/ /\ exists
          /\ Observe(p, Earliest)
          /\ UNCHANGED <<fresh, left, lag, due>>
    /\ UNCHANGED <<log, rows, status, counts, unsent, history>>

\* The query after a transaction that took nothing: Some(now) if there is something
\* to scan again.
Requery(p) ==
    /\ pc[p] = "requery"
    /\ \/ /\ ~exists
          /\ Return(p)
       \/ /\ exists
          /\ Observe(p, IF Behind THEN - lag[p] ELSE Earliest)
          /\ UNCHANGED <<fresh, left, lag, due>>
    /\ UNCHANGED <<log, rows, status, counts, unsent, history>>

\* mutant: a deadline that is past shortens the timer to less than nothing
SleepForSigned(p) ==
    Min({left[p], Interval} \union (IF known[p] # NULL THEN {known[p]} ELSE {}))

\* duration_until_ms: a time that is past is negative, which `as u64` makes longer
\* than any other duration, so that the timer is not shortened by it.
SleepFor(p) ==
    Min({left[p], Interval} \union (IF known[p] # NULL /\ known[p] >= 0 THEN {known[p]} ELSE {}))

\* mutants: the poll's own deadline ends the sleep, but not the loop; the signals are
\* marked seen after the query, not before
DecideOnce(p) ==
    /\ pc[p] = "decide"
    /\ \/ /\ saw_draining[p] /\ known[p] = NULL
          /\ Return(p)
       \/ /\ ~(saw_draining[p] /\ known[p] = NULL)
          /\ Goto(p, "asleep")
          /\ due' = [due EXCEPT ![p] = SleepFor(p)]
          /\ lag' = [lag EXCEPT ![p] = 0]
          /\ UNCHANGED <<fresh, left, known, saw_draining>>
    /\ UNCHANGED <<log, rows, status, counts, unsent, history>>

DecideThenMark(p) ==
    /\ pc[p] = "decide"
    /\ \/ /\ (saw_draining[p] /\ known[p] = NULL) \/ left[p] = 0
          /\ Return(p)
       \/ /\ ~(saw_draining[p] /\ known[p] = NULL) /\ left[p] > 0
          /\ Goto(p, "asleep")
          /\ due' = [due EXCEPT ![p] = SleepFor(p)]
          /\ lag' = [lag EXCEPT ![p] = 0]
          /\ fresh' = [fresh EXCEPT ![p] = {}]
          /\ UNCHANGED <<left, known, saw_draining>>
    /\ UNCHANGED <<log, rows, status, counts, unsent, history>>

\* A drained consumer or the deadline ends the poll; else it sleeps.
Decide(p) ==
    /\ pc[p] = "decide"
    /\ \/ /\ (saw_draining[p] /\ known[p] = NULL) \/ left[p] = 0
          /\ Return(p)
       \/ /\ ~(saw_draining[p] /\ known[p] = NULL) /\ left[p] > 0
          /\ Goto(p, "asleep")
          /\ due' = [due EXCEPT ![p] = SleepFor(p)]
          /\ lag' = [lag EXCEPT ![p] = 0]
          /\ UNCHANGED <<fresh, left, known, saw_draining>>
    /\ UNCHANGED <<log, rows, status, counts, unsent, history>>

\* The select! of a signal and the timer.  The senders live as long as the poll.
Wake(p) ==
    /\ pc[p] = "asleep"
    /\ fresh[p] # {} \/ due[p] = 0
    /\ Goto(p, "mark")
    /\ due' = [due EXCEPT ![p] = 0]
    /\ known' = [known EXCEPT ![p] = NULL]
    /\ saw_draining' = [saw_draining EXCEPT ![p] = FALSE]
    /\ UNCHANGED <<log, rows, status, counts, unsent, fresh, left, lag, history>>

\* The caller drops the future at an await.
Cancel(p) ==
    /\ pc[p] # Idle
    /\ Fault
    /\ Return(p)
    /\ UNCHANGED <<log, rows, status, unsent, history>>

\* A millisecond passes.  No loop takes longer than MaxLag from reading the time to
\* its sleep.  A deadline that is past longer than that is as good as past.
Tick ==
    /\ \A p \in Pollers : pc[p] \in Running => lag[p] < MaxLag
    /\ visible_in' = [m \in DOMAIN visible_in |-> Max({visible_in[m] - 1, - MaxLag})]
    /\ left' = [p \in Pollers |-> Max({left[p] - 1, 0})]
    /\ due' = [p \in Pollers |-> Max({due[p] - 1, 0})]
    /\ lag' = [p \in Pollers |-> IF pc[p] \in Running THEN lag[p] + 1 ELSE lag[p]]
    /\ known' = [p \in Pollers |-> IF known[p] = NULL THEN NULL
                                   ELSE Max({known[p] - 1, - MaxLag})]
    /\ UNCHANGED <<log, archived, held, status, counts, unsent, pc, fresh, saw_draining,
                   history>>

Loop(p) == Mark(p) \/ Check(p) \/ Claim(p) \/ Requery(p) \/ Decide(p) \/ Wake(p)

Handle(m) ==
    \/ Ack(m) \/ Extend(m) \/ Nack(m) \/ Archive(m) \/ Lapse(m)
    \/ Redrive(m) \/ PurgeArchives(m)

Next ==
    \/ Tick
    \/ Notify
    \/ PublishOther \/ Prune \/ BeginDraining \/ DeleteConsumer
    \/ \E m \in Messages : Publish(m) \/ Handle(m)
    \/ \E p \in Pollers : Call(p) \/ Loop(p) \/ Cancel(p)

Spec == Init /\ [][Next]_vars

\* The runtime runs every task that can run, and time passes; the application polls
\* again after each poll and settles what it works on.
Fairness ==
    /\ WF_vars(Tick)
    /\ \A p \in Pollers : WF_vars(Loop(p)) /\ WF_vars(Call(p))
    /\ \A m \in Messages : WF_vars(Ack(m))

FairSpec == Spec /\ Fairness

-----------------------------------------------------------------------------
(* Types.                                                                  *)

Ago == - MaxLag .. -1

Notification == [signal : Signals, work : SUBSET Messages]

\* Of the variables; a deadline that is past is at most MaxLag past.
TypeOK ==
    /\ unpublished \subseteq Messages /\ unread \subseteq Messages
    /\ others \in BOOLEAN
    /\ visible_in \in [DOMAIN visible_in -> Ago \union Nat] /\ DOMAIN visible_in \subseteq Messages
    /\ archived \subseteq Messages /\ held \subseteq Messages
    /\ draining \in BOOLEAN /\ exists \in BOOLEAN
    /\ nacks \in Nat /\ faults \in Nat
    /\ unsent \subseteq Notification
    /\ pc \in [Pollers -> Running \union {Idle, "mark", "asleep"}]
    /\ fresh \in [Pollers -> SUBSET Signals]
    /\ left \in [Pollers -> Nat] /\ due \in [Pollers -> Nat]
    /\ lag \in [Pollers -> 0..MaxLag]
    /\ known \in [Pollers -> Ago \union Nat \union {NULL}]
    /\ saw_draining \in [Pollers -> BOOLEAN]
    /\ announced \subseteq Messages /\ redriven \subseteq Messages

-----------------------------------------------------------------------------
(* Safety.                                                                 *)

\* While a poller sleeps with no signal to wake it, nothing is claimable that this
\* process has announced: whatever was committed and notified, in any order with the
\* poller's marks, queries and transaction, was seen or has woken it.
NoLostWakeup ==
    \A p \in Pollers : pc[p] = "asleep" /\ fresh[p] = {} => announced = {}

\* A poll that will return nothing, early, because its consumer has drained, is right
\* when it returns: no entry is left or will come, and no delivery but a redriven one.
NoEarlyGoodbye ==
    \A p \in Pollers :
      pc[p] = "decide" /\ saw_draining[p] /\ known[p] = NULL =>
        draining /\ unread = {} /\ DOMAIN visible_in \subseteq redriven

\* A sleeping poller that knows the earliest visible_at of its consumer's deliveries will
\* wake when it comes, as DESIGN.md says of empty polls.  False when it passed between the
\* query and the setting of the timer.
WakesAtKnownDeadline ==
    \A p \in Pollers :
      pc[p] = "asleep" /\ known[p] # NULL /\ known[p] = Earliest =>
        due[p] <= Max({known[p], 0})

\* The polls and their signals do what Broadcast allows, which is what the registry of
\* weak references implements (Signals), and sending a notification is announcing it there:
\* every poll under way has it, asleep or not, until it looks, and no other poll ever has.
Shared == INSTANCE Broadcast WITH
            Handles <- Pollers, Consumers <- {0}, FilterOf <- [c \in {0} |-> Filter],
            Topics <- {Filter}, consumer <- [p \in Pollers |-> 0],
            polling <- {p \in Pollers : pc[p] # Idle}

Announced(n) ==
    IF n.signal = "publishes" THEN Shared!AnnouncePublish({Filter}) ELSE Shared!AnnounceChange(0)

PollsAreBroadcastTo ==
    [][ /\ [Shared!Next]_(Shared!vars)
        /\ \A n \in unsent \ unsent' : Announced(n) ]_vars

-----------------------------------------------------------------------------
(* Liveness.                                                               *)

\* Every poll ends, however it is woken.
PollsEnd == \A p \in Pollers : pc[p] # Idle ~> pc[p] = Idle

\* Every message a consumer is owed is eventually claimed by a worker.
EveryMessageIsClaimed == \A m \in Messages : m \in unread ~> m \notin unread

\* A draining consumer drains: its workers settle all it has.
DrainingEnds == draining ~> unread = {} /\ DOMAIN visible_in = {}

=============================================================================
