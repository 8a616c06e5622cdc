--------------------------- MODULE PollLoop_proofs ---------------------------
(* What TLAPS proves of PollLoop, for any number of pollers and messages,  *)
(* any waits, intervals, leases and lags, and without bounds on faults.    *)
EXTENDS PollLoop, FiniteSetTheorems, WellFoundedInduction, TLAPS

\* A message is still to come, ahead of the cursor, delivered, or archived: one of these.
Apart ==
    /\ unpublished \intersect unread = {}
    /\ unpublished \intersect DOMAIN visible_in = {}
    /\ unpublished \intersect archived = {}
    /\ unread \intersect DOMAIN visible_in = {}
    /\ unread \intersect archived = {}
    /\ DOMAIN visible_in \intersect archived = {}

\* What was announced is claimable until somebody claims or settles it.
AnnouncedIsClaimable == \A m \in announced : Claimable(m)

\* A poller that has seen no signal since it marked them sees, with the time it read, all
\* that was announced; once it has found nothing, there is nothing.
IsAware(p) ==
    fresh[p] = {} =>
      /\ pc[p] \in {"check", "claim"} => announced \subseteq unread \union VisibleTo(p)
      /\ pc[p] \in {"requery", "decide", "asleep"} => announced = {}

\* A poller about to return from a drained consumer.
SaysGoodbye(p) == pc[p] = "decide" /\ saw_draining[p] /\ known[p] = NULL

Inv ==
    /\ TypeOK /\ Apart /\ AnnouncedIsClaimable /\ NoEarlyGoodbye
    /\ \A p \in Pollers : IsAware(p)

-----------------------------------------------------------------------------
(* Minima and maxima.                                                      *)

\* The earliest of the times of some rows, as MIN(visible_at) computes it, is one of them.
LEMMA EarliestOfRows ==
    ASSUME TypeOK
    PROVE  /\ Earliest = NULL <=> DOMAIN visible_in = {}
           /\ Earliest \in Ago \union Nat \union {NULL}
<1> DEFINE T == {visible_in[m] : m \in DOMAIN visible_in}
           shifted == {t + MaxLag : t \in T}
<1>1. T \subseteq Ago \union Nat /\ MaxLag \in Nat
  BY PollBoundsAssumption DEF TypeOK
<1>2. CASE DOMAIN visible_in = {}
  BY <1>2 DEF Earliest
<1>3. CASE DOMAIN visible_in # {}
  <2>1. T # {} /\ shifted # {}
    BY <1>3
  <2> HIDE DEF T
  <2>2. \A t \in T : t \in Int /\ t + MaxLag \in Nat
    BY <1>1 DEF Ago
  <2>3. shifted \subseteq Nat
    BY <2>2
  <2>4. PICK s \in shifted : \A u \in shifted : ~ (<<u, s>> \in OpToRel(<, Nat))
    <3> HIDE DEF shifted
    <3> QED BY <2>1, <2>3, NatLessThanWellFounded, WFMin
  <2>5. PICK t \in T : s = t + MaxLag
    OBVIOUS
  <2>6. ASSUME NEW u \in T PROVE t <= u
    <3>1. u + MaxLag \in shifted /\ t + MaxLag \in Nat /\ u + MaxLag \in Nat
      BY <2>2
    <3>2. ~ (u + MaxLag < t + MaxLag)
      BY <2>4, <2>5, <3>1 DEF OpToRel
    <3> QED BY <1>1, <2>2, <3>2
  <2>7. Min(T) \in T
    BY <2>6 DEF Min
  <2>8. Earliest = Min(T)
    BY <1>3 DEF Earliest, T
  <2> QED BY <1>1, <1>3, <2>7, <2>8, PollNullAssumption DEF Ago
<1> QED BY <1>2, <1>3

\* The later of two times.
LEMMA LaterOfTwo ==
    ASSUME NEW a \in Int, NEW b \in Int
    PROVE  Max({a, b}) = IF a >= b THEN a ELSE b
<1>1. \E x \in {a, b} : \A y \in {a, b} : x >= y
  BY a >= b \/ b >= a
<1>2. Max({a, b}) \in {a, b} /\ \A y \in {a, b} : Max({a, b}) >= y
  BY <1>1 DEF Max
<1> QED BY <1>2

\* The shortest of two or three durations.
LEMMA ShortestDuration ==
    ASSUME NEW a \in Nat, NEW b \in Nat, NEW C, C = {} \/ \E c \in Nat : C = {c}
    PROVE  Min({a, b} \union C) \in Nat
<1> DEFINE D == {a, b} \union C
<1>1. D \subseteq Nat /\ D # {}
  OBVIOUS
<1> HIDE DEF D
<1>2. PICK d \in D : \A e \in D : ~ (<<e, d>> \in OpToRel(<, Nat))
  BY <1>1, NatLessThanWellFounded, WFMin
<1>3. \A e \in D : d <= e
  <2> TAKE e \in D
  <2>1. d \in Nat /\ e \in Nat
    BY <1>1
  <2>2. ~ (e < d)
    BY <1>2, <2>1 DEF OpToRel
  <2> QED BY <2>1, <2>2
<1>4. Min(D) \in D
  BY <1>3 DEF Min
<1> QED BY <1>1, <1>4 DEF D

-----------------------------------------------------------------------------
(* Everybody else.                                                         *)

\* What all operations but those of the loop have in common: they do not touch the pollers;
\* what stays announced stays where it is; a consumer that drains gets no more messages,
\* except what is redriven.
Surroundings ==
    /\ UNCHANGED poll
    /\ draining => draining' /\ unread' \subseteq unread
    /\ announced' \subseteq announced
    /\ announced' \intersect unread \subseteq unread'
    /\ \A m \in announced' \intersect DOMAIN visible_in :
         m \in DOMAIN visible_in' /\ visible_in'[m] = visible_in[m]
    /\ redriven \subseteq redriven'
    /\ DOMAIN visible_in' \subseteq DOMAIN visible_in \union redriven'

\* Such an operation keeps what the pollers know true.
LEMMA SurroundingsPreserve ==
    ASSUME Inv, Surroundings
    PROVE  /\ AnnouncedIsClaimable' /\ NoEarlyGoodbye'
           /\ \A p \in Pollers : IsAware(p)'
<1>1. UNCHANGED <<pc, fresh, lag, known, saw_draining>>
  BY DEF Surroundings, poll
<1>2. AnnouncedIsClaimable'
  BY DEF Inv, Surroundings, AnnouncedIsClaimable, Claimable
<1>3. NoEarlyGoodbye'
  BY <1>1 DEF Inv, Surroundings, NoEarlyGoodbye
<1>4. ASSUME NEW p \in Pollers PROVE IsAware(p)'
  BY <1>1 DEF Inv, Surroundings, IsAware, VisibleTo
<1> QED BY <1>2, <1>3, <1>4

\* The types of the variables of the loop, which these operations leave alone, and of what
\* they leave to notify.
LEMMA CommittedType ==
    ASSUME TypeOK, NEW signal \in Signals, NEW work \in SUBSET Messages, Committed(signal, work)
    PROVE  unsent' \subseteq Notification
BY DEF TypeOK, Committed, Notification

\* Publishing.
LEMMA PublishPreserves ==
    ASSUME Inv, NEW m \in Messages, Publish(m)
    PROVE  TypeOK' /\ Apart' /\ Surroundings
<1>1. /\ m \in unpublished /\ unpublished' = unpublished \ {m}
      /\ unread' = IF draining \/ ~exists THEN unread ELSE unread \union {m}
      /\ Committed("publishes", unread' \ unread)
      /\ UNCHANGED <<others, rows, status, counts, poll, history>>
  BY DEF Publish
<1>2. unsent' \subseteq Notification
  <2>1. unread' \ unread \in SUBSET Messages
    BY <1>1
  <2> QED BY <1>1, <2>1, CommittedType DEF Inv, Signals
<1>3. TypeOK'
  BY <1>1, <1>2 DEF Inv, TypeOK, rows, status, counts, poll, history
<1>4. Apart'
  BY <1>1 DEF Inv, Apart, rows
<1>5. Surroundings
  BY <1>1 DEF Surroundings, rows, status, history
<1> QED BY <1>3, <1>4, <1>5

\* Entries of others, and the end of the consumer.
LEMMA ConsumerPreserves ==
    ASSUME Inv, PublishOther \/ Prune \/ BeginDraining \/ DeleteConsumer
    PROVE  TypeOK' /\ Apart' /\ Surroundings
<1>1. CASE PublishOther \/ Prune
  <2>1. others' \in BOOLEAN
        /\ UNCHANGED <<unpublished, unread, rows, status, counts, unsent, poll, history>>
    BY <1>1 DEF PublishOther, Prune
  <2> QED BY <2>1 DEF Inv, TypeOK, Apart, Surroundings, rows, status, counts, poll, history
<1>2. CASE BeginDraining
  <2>1. /\ draining' = TRUE /\ Committed("consumer_changes", {})
        /\ UNCHANGED <<log, rows, exists, counts, poll, history>>
    BY <1>2 DEF BeginDraining
  <2>2. unsent' \subseteq Notification
    BY <2>1, CommittedType DEF Inv, Signals
  <2> QED BY <2>1, <2>2 DEF Inv, TypeOK, Apart, Surroundings, log, rows, counts, poll, history
<1>3. CASE DeleteConsumer
  <2>1. /\ exists' = FALSE /\ unread' = {} /\ others' = FALSE
        /\ visible_in' = NoRows /\ archived' = {} /\ held' = {} /\ announced' = {}
        /\ Committed("consumer_changes", {})
        /\ UNCHANGED <<unpublished, draining, counts, poll, redriven>>
    BY <1>3 DEF DeleteConsumer
  <2>2. unsent' \subseteq Notification
    BY <2>1, CommittedType DEF Inv, Signals
  <2>3. DOMAIN visible_in' = {} /\ visible_in' \in [{} -> Ago \union Nat]
    BY <2>1 DEF NoRows
  <2>4. TypeOK'
    BY <2>1, <2>2, <2>3 DEF Inv, TypeOK, counts, poll
  <2>5. Apart' /\ Surroundings
    BY <2>1, <2>3 DEF Inv, Apart, Surroundings
  <2> QED BY <2>4, <2>5
<1> QED BY <1>1, <1>2, <1>3

\* A time in the future, less the lag of the clock it was computed from.
LEMMA DeadlineType ==
    ASSUME NEW d \in Nat, NEW old \in 0 .. MaxLag
    PROVE  d - old \in Ago \union Nat
BY PollBoundsAssumption DEF Ago

\* Settling a delivery or leaving it.
LEMMA SettlePreserves ==
    ASSUME Inv, NEW m \in Messages, Ack(m) \/ Archive(m) \/ Lapse(m) \/ PurgeArchives(m)
    PROVE  TypeOK' /\ Apart' /\ Surroundings
<1>1. CASE Ack(m)
  <2>1. /\ visible_in' = Without({m}) /\ held' = held \ {m} /\ announced' = announced \ {m}
        /\ UNCHANGED <<log, archived, status, counts, unsent, poll, redriven>>
    BY <1>1 DEF Ack
  <2>2. /\ DOMAIN visible_in' = DOMAIN visible_in \ {m}
        /\ \A n \in DOMAIN visible_in \ {m} : visible_in'[n] = visible_in[n]
        /\ visible_in' \in [DOMAIN visible_in' -> Ago \union Nat]
    BY <2>1 DEF Inv, TypeOK, Without
  <2>3. TypeOK'
    BY <2>1, <2>2 DEF Inv, TypeOK, log, status, counts, poll
  <2> QED BY <2>1, <2>2, <2>3 DEF Inv, Apart, Surroundings, log, status
<1>2. CASE Archive(m)
  <2>1. /\ visible_in' = Without({m}) /\ held' = held \ {m} /\ announced' = announced \ {m}
        /\ m \in DOMAIN visible_in
        /\ archived' = archived \union {m} /\ Committed("consumer_changes", {})
        /\ UNCHANGED <<log, status, counts, poll, redriven>>
    BY <1>2 DEF Archive
  <2>2. /\ DOMAIN visible_in' = DOMAIN visible_in \ {m}
        /\ \A n \in DOMAIN visible_in \ {m} : visible_in'[n] = visible_in[n]
        /\ visible_in' \in [DOMAIN visible_in' -> Ago \union Nat]
    BY <2>1 DEF Inv, TypeOK, Without
  <2>3. unsent' \subseteq Notification
    BY <2>1, CommittedType DEF Inv, Signals
  <2>4. TypeOK'
    BY <2>1, <2>2, <2>3 DEF Inv, TypeOK, log, status, counts, poll
  <2>5. Apart'
    BY <2>1, <2>2 DEF Inv, Apart, log
  <2>6. Surroundings
    BY <2>1, <2>2 DEF Surroundings, log, status
  <2> QED BY <2>4, <2>5, <2>6
<1>3. CASE Lapse(m)
  BY <1>3 DEF Lapse, Fault, Inv, TypeOK, Apart, Surroundings, log, status, poll, history
<1>4. CASE PurgeArchives(m)
  BY <1>4 DEF PurgeArchives, Inv, TypeOK, Apart, Surroundings, log, status, counts, poll, history
<1> QED BY <1>1, <1>2, <1>3, <1>4

\* Giving a delivery another time.
LEMMA RetimePreserves ==
    ASSUME Inv, NEW m \in Messages, Extend(m) \/ Nack(m)
    PROVE  TypeOK' /\ Apart' /\ Surroundings
<1>1. \E t \in Ago \union Nat : visible_in' = [visible_in EXCEPT ![m] = t]
  <2>1. CASE Extend(m)
    <3>1. PICK old \in 0 .. MaxLag :
            visible_in' = [visible_in EXCEPT ![m] = Max({visible_in[m], Lease - old})]
      BY <2>1 DEF Extend
    <3>2. visible_in[m] \in Ago \union Nat /\ Lease - old \in Ago \union Nat
      BY <2>1, DeadlineType, PollBoundsAssumption DEF Extend, Inv, TypeOK
    <3>3. Max({visible_in[m], Lease - old}) \in Ago \union Nat
      <4>1. visible_in[m] \in Int /\ Lease - old \in Int
        BY <3>2, PollBoundsAssumption DEF Ago
      <4> QED BY <3>2, <4>1, LaterOfTwo
    <3> QED BY <3>1, <3>3
  <2>2. CASE Nack(m)
    <3>1. PICK delay \in Delays, old \in 0 .. MaxLag :
            visible_in' = [visible_in EXCEPT ![m] = delay - old]
      BY <2>2 DEF Nack
    <3> QED BY <3>1, DeadlineType, PollBoundsAssumption
  <2> QED BY <2>1, <2>2
<1>2. /\ m \in DOMAIN visible_in /\ announced' = announced \ {m}
      /\ UNCHANGED <<log, archived, status, faults, poll, redriven>>
      /\ held' \subseteq held /\ nacks' \in Nat
  BY DEF Extend, Nack, counts, Inv, TypeOK
<1>3. unsent' \subseteq Notification
  <2>1. CASE Extend(m)
    BY <2>1 DEF Extend, Inv, TypeOK
  <2>2. CASE Nack(m)
    <3>1. \E work \in SUBSET Messages : Committed("consumer_changes", work)
      BY <2>2 DEF Nack
    <3> QED BY <3>1, CommittedType DEF Inv, Signals
  <2> QED BY <2>1, <2>2
<1>4. /\ DOMAIN visible_in' = DOMAIN visible_in
      /\ \A n \in DOMAIN visible_in \ {m} : visible_in'[n] = visible_in[n]
      /\ visible_in' \in [DOMAIN visible_in' -> Ago \union Nat]
  BY <1>1 DEF Inv, TypeOK
<1>5. TypeOK'
  BY <1>2, <1>3, <1>4 DEF Inv, TypeOK, log, status, poll
<1>6. Apart'
  BY <1>2, <1>4 DEF Inv, Apart, log
<1>7. Surroundings
  BY <1>2, <1>4 DEF Surroundings, log, status
<1> QED BY <1>5, <1>6, <1>7

\* Redriving an archived delivery.
LEMMA RedrivePreserves ==
    ASSUME Inv, NEW m \in Messages, Redrive(m)
    PROVE  TypeOK' /\ Apart' /\ Surroundings
<1>1. PICK delay \in Delays, old \in 0 .. MaxLag :
        /\ visible_in' = WithRow(m, delay - old)
        /\ Committed("consumer_changes", IF delay = 0 THEN {m} ELSE {})
  BY DEF Redrive
<1>2. /\ m \in archived /\ archived' = archived \ {m} /\ redriven' = redriven \union {m}
      /\ faults' = faults + 1
      /\ UNCHANGED <<log, held, status, nacks, poll, announced>>
  BY DEF Redrive, Fault
<1>3. delay - old \in Ago \union Nat
  BY DeadlineType, PollBoundsAssumption
<1>4. /\ DOMAIN visible_in' = DOMAIN visible_in \union {m}
      /\ \A n \in DOMAIN visible_in \ {m} : visible_in'[n] = visible_in[n]
      /\ visible_in' \in [DOMAIN visible_in' -> Ago \union Nat]
  BY <1>1, <1>3 DEF Inv, TypeOK, WithRow
<1>5. unsent' \subseteq Notification
  <2>1. (IF delay = 0 THEN {m} ELSE {}) \in SUBSET Messages
    OBVIOUS
  <2> QED BY <1>1, <2>1, CommittedType DEF Inv, Signals
<1>6. TypeOK'
  BY <1>2, <1>4, <1>5 DEF Inv, TypeOK, log, status, poll
<1>7. Apart'
  BY <1>2, <1>4 DEF Inv, Apart, log
<1>8. m \notin DOMAIN visible_in
  BY <1>2 DEF Inv, Apart
<1>9. Surroundings
  BY <1>2, <1>4, <1>8 DEF Surroundings, log, status
<1> QED BY <1>6, <1>7, <1>9

\* Whatever is done around the loop preserves the invariant.
LEMMA OthersPreserve ==
    ASSUME Inv,
           \/ PublishOther \/ Prune \/ BeginDraining \/ DeleteConsumer
           \/ \E m \in Messages : Publish(m) \/ Handle(m)
    PROVE  Inv'
<1>1. TypeOK' /\ Apart' /\ Surroundings
  BY ConsumerPreserves, PublishPreserves, SettlePreserves, RetimePreserves, RedrivePreserves
  DEF Handle
<1> QED BY <1>1, SurroundingsPreserve DEF Inv

\* A notification marks every poller that is in its loop, and only then is what it is about
\* announced.
LEMMA NotifyPreserves ==
    ASSUME Inv, Notify
    PROVE  Inv'
<1>1. PICK n \in unsent :
        /\ unsent' = unsent \ {n}
        /\ fresh' = [p \in Pollers |-> IF pc[p] = Idle THEN {} ELSE fresh[p] \union {n.signal}]
        /\ announced' = announced \union {m \in n.work : Claimable(m)}
  BY DEF Notify
<1>2. UNCHANGED <<log, rows, status, counts, pc, left, lag, known, saw_draining, due, redriven>>
  BY DEF Notify
<1>3. n.signal \in Signals /\ n.work \subseteq Messages
  BY DEF Inv, TypeOK, Notification
<1>4. TypeOK'
  BY <1>1, <1>2, <1>3 DEF Inv, TypeOK, log, rows, status, counts
<1>5. Apart' /\ AnnouncedIsClaimable' /\ NoEarlyGoodbye'
  BY <1>1, <1>2 DEF Inv, Apart, AnnouncedIsClaimable, Claimable, NoEarlyGoodbye, log, rows,
                    status
<1>6. ASSUME NEW p \in Pollers PROVE IsAware(p)'
  <2>1. CASE pc[p] = Idle
    BY <1>2, <2>1 DEF IsAware, Idle
  <2>2. CASE pc[p] # Idle
    <3>1. fresh'[p] # {}
      BY <1>1, <2>2
    <3> QED BY <3>1 DEF IsAware
  <2> QED BY <2>1, <2>2
<1> QED BY <1>4, <1>5, <1>6 DEF Inv

-----------------------------------------------------------------------------
(* The loop.                                                               *)

\* A step of one poller that changes nothing but its own variables.
OwnStep(p) ==
    /\ UNCHANGED <<log, rows, status, unsent, history>>
    /\ nacks' \in Nat /\ faults' \in Nat
    /\ \A q \in Pollers \ {p} :
         /\ pc'[q] = pc[q] /\ fresh'[q] = fresh[q] /\ lag'[q] = lag[q]
         /\ known'[q] = known[q] /\ saw_draining'[q] = saw_draining[q]

\* The types of the variables of the loop.
PollTypeOK ==
    /\ pc \in [Pollers -> Running \union {Idle, "mark", "asleep"}]
    /\ fresh \in [Pollers -> SUBSET Signals]
    /\ left \in [Pollers -> Nat] /\ due \in [Pollers -> Nat]
    /\ lag \in [Pollers -> 0..MaxLag]
    /\ known \in [Pollers -> Ago \union Nat \union {NULL}]
    /\ saw_draining \in [Pollers -> BOOLEAN]

\* Such a step need only be right about the poller itself.
LEMMA OwnStepPreserves ==
    ASSUME Inv, NEW p \in Pollers, OwnStep(p), PollTypeOK', IsAware(p)',
           SaysGoodbye(p)' => draining /\ unread = {} /\ DOMAIN visible_in \subseteq redriven
    PROVE  Inv'
<1>1. UNCHANGED <<unpublished, unread, others, visible_in, archived, held, draining, exists,
                  unsent, announced, redriven>>
  BY DEF OwnStep, log, rows, status, history
<1>2. TypeOK'
  BY <1>1 DEF Inv, TypeOK, PollTypeOK, OwnStep
<1>3. Apart' /\ AnnouncedIsClaimable'
  BY <1>1 DEF Inv, Apart, AnnouncedIsClaimable, Claimable
<1>4. ASSUME NEW q \in Pollers PROVE IsAware(q)'
  BY <1>1 DEF Inv, OwnStep, IsAware, VisibleTo
<1>5. NoEarlyGoodbye'
  BY <1>1 DEF Inv, OwnStep, NoEarlyGoodbye, SaysGoodbye
<1> QED BY <1>2, <1>3, <1>4, <1>5 DEF Inv

\* A call that returns leaves nothing behind.
LEMMA ReturnIsQuiet ==
    ASSUME TypeOK, NEW p \in Pollers, Return(p)
    PROVE  /\ PollTypeOK' /\ IsAware(p)' /\ ~SaysGoodbye(p)'
           /\ \A q \in Pollers \ {p} :
                /\ pc'[q] = pc[q] /\ fresh'[q] = fresh[q] /\ lag'[q] = lag[q]
                /\ known'[q] = known[q] /\ saw_draining'[q] = saw_draining[q]
<1>1. PollTypeOK'
  BY PollBoundsAssumption DEF Return, TypeOK, PollTypeOK
<1>2. pc'[p] = Idle
  BY DEF Return, TypeOK
<1>3. IsAware(p)' /\ ~SaysGoodbye(p)'
  BY <1>2 DEF IsAware, SaysGoodbye, Idle
<1> QED BY <1>1, <1>3 DEF Return, TypeOK

\* A poll begins, and may be dropped at any await.
LEMMA CallPreserves ==
    ASSUME Inv, NEW p \in Pollers, Call(p) \/ Cancel(p)
    PROVE  Inv'
<1>1. CASE Call(p)
  <2>1. /\ pc' = [pc EXCEPT ![p] = "mark"]
        /\ \E wait \in Waits : left' = [left EXCEPT ![p] = wait]
        /\ UNCHANGED <<log, rows, status, counts, unsent, fresh, lag, known, saw_draining,
                       due, history>>
    BY <1>1 DEF Call, Goto
  <2>2. PollTypeOK' /\ OwnStep(p)
    BY <2>1, PollBoundsAssumption DEF Inv, TypeOK, PollTypeOK, OwnStep, counts
  <2>3. IsAware(p)' /\ ~SaysGoodbye(p)'
    BY <2>1 DEF Inv, TypeOK, IsAware, SaysGoodbye
  <2> QED BY <2>2, <2>3, OwnStepPreserves
<1>2. CASE Cancel(p)
  <2>1. OwnStep(p)
    BY <1>2, ReturnIsQuiet DEF Cancel, Fault, OwnStep, Inv, TypeOK
  <2> QED BY <1>2, <2>1, ReturnIsQuiet, OwnStepPreserves DEF Cancel, Inv
<1> QED BY <1>1, <1>2

\* The signals are marked seen before the tables are looked at: what was announced by then
\* is visible at the time that is read.
LEMMA MarkPreserves ==
    ASSUME Inv, NEW p \in Pollers, Mark(p)
    PROVE  Inv'
<1>1. /\ pc' = [pc EXCEPT ![p] = "check"] /\ fresh' = [fresh EXCEPT ![p] = {}]
      /\ lag' = [lag EXCEPT ![p] = 0] /\ known' = [known EXCEPT ![p] = NULL]
      /\ UNCHANGED <<log, rows, status, counts, unsent, left, saw_draining, due, history>>
  BY DEF Mark, Goto
<1>2. PollTypeOK' /\ OwnStep(p)
  <2>1. PollTypeOK'
    BY <1>1, PollBoundsAssumption DEF Inv, TypeOK, PollTypeOK, Running
  <2>2. OwnStep(p)
    BY <1>1, PollBoundsAssumption DEF Inv, TypeOK, OwnStep, counts
  <2> QED BY <2>1, <2>2
<1>3. pc'[p] = "check" /\ lag'[p] = 0
  BY <1>1 DEF Inv, TypeOK
<1>4. announced' \subseteq (unread \union VisibleTo(p))'
  BY <1>1, <1>3 DEF Inv, AnnouncedIsClaimable, Claimable, VisibleTo, log, rows, history
<1>5. IsAware(p)' /\ ~SaysGoodbye(p)'
  BY <1>3, <1>4 DEF IsAware, SaysGoodbye
<1> QED BY <1>2, <1>5, OwnStepPreserves

\* What a query reads goes into the decision.
LEMMA ObservePreserves ==
    ASSUME Inv, NEW p \in Pollers, NEW t \in Ago \union Nat \union {NULL}, Observe(p, t),
           UNCHANGED <<log, rows, status, counts, unsent, history, fresh, left, lag, due>>,
           fresh[p] = {} => announced = {},
           t = NULL => unread = {} /\ DOMAIN visible_in = {}
    PROVE  Inv'
<1>1. /\ pc' = [pc EXCEPT ![p] = "decide"] /\ known' = [known EXCEPT ![p] = t]
      /\ saw_draining' = [saw_draining EXCEPT ![p] = draining]
  BY DEF Observe, Goto
<1>2. PollTypeOK' /\ OwnStep(p)
  <2>1. PollTypeOK'
    <3>1. draining \in BOOLEAN /\ PollTypeOK
      BY DEF Inv, TypeOK, PollTypeOK
    <3>2. /\ pc' \in [Pollers -> Running \union {Idle, "mark", "asleep"}]
          /\ known' \in [Pollers -> Ago \union Nat \union {NULL}]
      BY <1>1, <3>1 DEF PollTypeOK, Running
    <3>3. saw_draining' \in [Pollers -> BOOLEAN]
      BY <1>1, <3>1, Zenon DEF PollTypeOK
    <3> QED BY <3>1, <3>2, <3>3 DEF PollTypeOK
  <2>2. OwnStep(p)
    BY <1>1 DEF Inv, TypeOK, OwnStep, counts
  <2> QED BY <2>1, <2>2
<1>3. pc'[p] = "decide" /\ known'[p] = t /\ saw_draining'[p] = draining
  BY <1>1 DEF Inv, TypeOK
<1>4. IsAware(p)'
  BY <1>3 DEF IsAware, history
<1>5. SaysGoodbye(p)' => draining /\ unread = {} /\ DOMAIN visible_in \subseteq redriven
  BY <1>3 DEF SaysGoodbye
<1> QED BY <1>2, <1>4, <1>5, OwnStepPreserves

\* The read-only query.
LEMMA CheckPreserves ==
    ASSUME Inv, NEW p \in Pollers, Check(p)
    PROVE  Inv'
<1>1. pc[p] = "check" /\ UNCHANGED <<log, rows, status, counts, unsent, history>>
  BY DEF Check
<1>2. CASE Return(p)
  <2>1. OwnStep(p)
    BY <1>1, <1>2, ReturnIsQuiet DEF OwnStep, counts, Inv, TypeOK
  <2> QED BY <1>2, <2>1, ReturnIsQuiet, OwnStepPreserves DEF Inv
<1>3. CASE /\ VisibleTo(p) = {} /\ ~Behind /\ Observe(p, Earliest)
           /\ UNCHANGED <<fresh, left, lag, due>>
  <2>1. unread = {} /\ (fresh[p] = {} => announced = {})
    BY <1>1, <1>3 DEF Inv, IsAware, Behind
  <2>2. /\ Earliest = NULL => DOMAIN visible_in = {}
        /\ Earliest \in Ago \union Nat \union {NULL}
    BY EarliestOfRows DEF Inv
  <2> QED BY <1>1, <1>3, <2>1, <2>2, ObservePreserves
<1>4. CASE pc' = [pc EXCEPT ![p] = "claim"] /\ UNCHANGED <<fresh, left, lag, known, saw_draining, due>>
  <2>1. PollTypeOK' /\ OwnStep(p)
    <3>1. PollTypeOK'
      BY <1>1, <1>4 DEF Inv, TypeOK, PollTypeOK, Running
    <3>2. OwnStep(p)
      BY <1>1, <1>4 DEF Inv, TypeOK, OwnStep, counts
    <3> QED BY <3>1, <3>2
  <2>2. pc'[p] = "claim"
    BY <1>4 DEF Inv, TypeOK
  <2>3. IsAware(p)' /\ ~SaysGoodbye(p)'
    BY <1>1, <1>4, <2>2 DEF Inv, IsAware, SaysGoodbye, VisibleTo, log, rows, history
  <2> QED BY <2>1, <2>3, OwnStepPreserves
<1> QED BY <1>2, <1>3, <1>4 DEF Check, Goto

\* The query after a transaction that took nothing.
LEMMA RequeryPreserves ==
    ASSUME Inv, NEW p \in Pollers, Requery(p)
    PROVE  Inv'
<1>1. pc[p] = "requery" /\ UNCHANGED <<log, rows, status, counts, unsent, history>>
  BY DEF Requery
<1>2. CASE Return(p)
  <2>1. OwnStep(p)
    BY <1>1, <1>2, ReturnIsQuiet DEF OwnStep, counts, Inv, TypeOK
  <2> QED BY <1>2, <2>1, ReturnIsQuiet, OwnStepPreserves DEF Inv
<1>3. CASE /\ Observe(p, IF Behind THEN - lag[p] ELSE Earliest)
           /\ UNCHANGED <<fresh, left, lag, due>>
  <2> DEFINE t == IF Behind THEN - lag[p] ELSE Earliest
  <2>1. fresh[p] = {} => announced = {}
    BY <1>1 DEF Inv, IsAware
  <2>2. - lag[p] \in Ago \union Nat /\ - lag[p] # NULL
    <3>1. lag[p] \in 0 .. MaxLag
      BY DEF Inv, TypeOK
    <3> QED BY <3>1, PollBoundsAssumption, PollNullAssumption DEF Ago
  <2>3. /\ t \in Ago \union Nat \union {NULL}
        /\ t = NULL => unread = {} /\ DOMAIN visible_in = {}
    BY <2>2, EarliestOfRows DEF Inv, Behind
  <2> HIDE DEF t
  <2>4. Observe(p, t)
    BY <1>3 DEF t
  <2> QED BY <1>1, <1>3, <2>1, <2>3, <2>4, ObservePreserves
<1> QED BY <1>2, <1>3 DEF Requery

\* The decision, and the end of the sleep.
LEMMA DecidePreserves ==
    ASSUME Inv, NEW p \in Pollers, Decide(p) \/ Wake(p)
    PROVE  Inv'
<1>1. UNCHANGED <<log, rows, status, counts, unsent, history>>
  BY DEF Decide, Wake
<1>2. CASE Return(p)
  <2>1. OwnStep(p)
    BY <1>1, <1>2, ReturnIsQuiet DEF OwnStep, counts, Inv, TypeOK
  <2> QED BY <1>2, <2>1, ReturnIsQuiet, OwnStepPreserves DEF Inv
<1>3. CASE /\ pc[p] = "decide" /\ pc' = [pc EXCEPT ![p] = "asleep"]
           /\ due' = [due EXCEPT ![p] = SleepFor(p)] /\ lag' = [lag EXCEPT ![p] = 0]
           /\ UNCHANGED <<fresh, left, known, saw_draining>>
  <2>1. SleepFor(p) \in Nat
    <3> DEFINE C == IF known[p] # NULL /\ known[p] >= 0 THEN {known[p]} ELSE {}
    <3>1. left[p] \in Nat /\ Interval \in Nat
      BY PollBoundsAssumption DEF Inv, TypeOK
    <3>2. known[p] \in Ago \union Nat \union {NULL}
      BY DEF Inv, TypeOK
    <3>3. C = {} \/ \E c \in Nat : C = {c}
      BY <3>2, PollBoundsAssumption DEF Ago
    <3> HIDE DEF C
    <3>4. Min({left[p], Interval} \union C) \in Nat
      BY <3>1, <3>3, ShortestDuration
    <3> QED BY <3>4 DEF SleepFor, C
  <2>2. PollTypeOK' /\ OwnStep(p)
    BY <1>1, <1>3, <2>1, PollBoundsAssumption DEF Inv, TypeOK, PollTypeOK, OwnStep, counts
  <2>3. pc'[p] = "asleep"
    BY <1>3 DEF Inv, TypeOK
  <2>4. IsAware(p)' /\ ~SaysGoodbye(p)'
    BY <1>1, <1>3, <2>3 DEF Inv, IsAware, SaysGoodbye, history
  <2> QED BY <2>2, <2>4, OwnStepPreserves
<1>4. CASE Wake(p)
  <2>1. /\ pc' = [pc EXCEPT ![p] = "mark"] /\ due' = [due EXCEPT ![p] = 0]
        /\ known' = [known EXCEPT ![p] = NULL]
        /\ saw_draining' = [saw_draining EXCEPT ![p] = FALSE]
        /\ UNCHANGED <<fresh, left, lag>>
    BY <1>4 DEF Wake, Goto
  <2>2. PollTypeOK' /\ OwnStep(p)
    BY <1>1, <2>1 DEF Inv, TypeOK, PollTypeOK, OwnStep, counts
  <2>3. pc'[p] = "mark"
    BY <2>1 DEF Inv, TypeOK
  <2>4. IsAware(p)' /\ ~SaysGoodbye(p)'
    BY <2>3 DEF IsAware, SaysGoodbye
  <2> QED BY <2>2, <2>4, OwnStepPreserves
<1> QED BY <1>2, <1>3, <1>4 DEF Decide, Goto

\* The transaction: what it takes, nobody is told of any longer; a transaction that takes
\* nothing has seen that there is nothing.
LEMMA ClaimPreserves ==
    ASSUME Inv, NEW p \in Pollers, Claim(p)
    PROVE  Inv'
<1>1. pc[p] = "claim" /\ UNCHANGED <<status, counts, unsent, redriven>>
  BY DEF Claim
<1>2. CASE ~exists
  <2>1. Return(p) /\ UNCHANGED <<log, rows, announced>>
    BY <1>2 DEF Claim
  <2>2. OwnStep(p)
    BY <1>1, <2>1, ReturnIsQuiet DEF OwnStep, counts, history, Inv, TypeOK
  <2> QED BY <2>1, <2>2, ReturnIsQuiet, OwnStepPreserves DEF Inv
<1>3. CASE exists
  <2>1. PICK retried \in SUBSET VisibleTo(p), new \in SUBSET unread :
          /\ Limited(retried, VisibleTo(p), Page)
          /\ Limited(new, unread, Page - Cardinality(retried))
          /\ unread' = unread \ new
          /\ others' = FALSE \/ UNCHANGED others
          /\ visible_in' = [m \in DOMAIN visible_in \union new |->
                              IF m \in retried \union new THEN Lease - lag[p] ELSE visible_in[m]]
          /\ held' = held \union (retried \union new)
          /\ announced' = announced \ (retried \union new)
          /\ \/ retried \union new # {} /\ Return(p)
             \/ /\ retried \union new = {} /\ Goto(p, "requery")
                /\ UNCHANGED <<fresh, left, lag, known, saw_draining, due>>
          /\ UNCHANGED <<unpublished, archived>>
    BY <1>3 DEF Claim
  <2> DEFINE taken == retried \union new
  <2>2. UNCHANGED <<draining, exists, nacks, faults, unsent, redriven>>
    BY <1>1 DEF status, counts
  <2>3. Lease - lag[p] \in Ago \union Nat
    BY DeadlineType, PollBoundsAssumption DEF Inv, TypeOK
  <2>4. retried \subseteq DOMAIN visible_in
    BY DEF VisibleTo
  <2>5. /\ DOMAIN visible_in' = DOMAIN visible_in \union new
        /\ \A m \in DOMAIN visible_in \ taken : visible_in'[m] = visible_in[m]
        /\ visible_in' \in [DOMAIN visible_in' -> Ago \union Nat]
    BY <2>1, <2>3 DEF Inv, TypeOK
  <2>6. /\ PollTypeOK' /\ IsAware(p)' /\ ~SaysGoodbye(p)'
        /\ \A q \in Pollers \ {p} :
             /\ pc'[q] = pc[q] /\ fresh'[q] = fresh[q] /\ lag'[q] = lag[q]
             /\ known'[q] = known[q] /\ saw_draining'[q] = saw_draining[q]
    <3>1. CASE Return(p)
      BY <3>1, ReturnIsQuiet DEF Inv
    <3>2. CASE /\ retried \union new = {} /\ pc' = [pc EXCEPT ![p] = "requery"]
               /\ UNCHANGED <<fresh, left, lag, known, saw_draining, due>>
      <4>1. PollTypeOK'
        BY <3>2 DEF Inv, TypeOK, PollTypeOK, Running
      <4>2. pc'[p] = "requery"
        BY <3>2 DEF Inv, TypeOK
      <4>3. retried = {} /\ new = {} /\ Cardinality({}) = 0
        BY <3>2, FS_EmptySet
      <4>4. VisibleTo(p) = {} /\ unread = {}
        BY <2>1, <4>3, PollBoundsAssumption DEF Limited
      <4>5. fresh[p] = {} => announced = {}
        BY <1>1, <4>4 DEF Inv, IsAware
      <4>6. IsAware(p)'
        BY <2>1, <3>2, <4>2, <4>5 DEF IsAware
      <4>7. ~SaysGoodbye(p)'
        BY <4>2 DEF SaysGoodbye
      <4> QED BY <3>2, <4>1, <4>6, <4>7 DEF Inv, TypeOK
    <3> QED BY <2>1, <3>1, <3>2 DEF Goto
  <2>7. TypeOK'
    <3>1. others' \in BOOLEAN /\ unread' \subseteq Messages /\ held' \subseteq Messages
          /\ announced' \subseteq Messages /\ DOMAIN visible_in' \subseteq Messages
      BY <2>1, <2>4, <2>5 DEF Inv, TypeOK
    <3> QED BY <2>1, <2>2, <2>5, <2>6, <3>1 DEF Inv, TypeOK, PollTypeOK
  <2>8. Apart'
    BY <2>1, <2>5 DEF Inv, Apart
  <2>9. AnnouncedIsClaimable'
    BY <2>1, <2>5 DEF Inv, AnnouncedIsClaimable, Claimable
  <2>10. NoEarlyGoodbye'
    BY <2>1, <2>2, <2>5, <2>6 DEF Inv, NoEarlyGoodbye, SaysGoodbye
  <2>11. ASSUME NEW q \in Pollers PROVE IsAware(q)'
    <3>1. CASE q = p
      BY <2>6, <3>1
    <3>2. CASE q # p
      <4>1. IsAware(q) /\ pc'[q] = pc[q] /\ fresh'[q] = fresh[q] /\ lag'[q] = lag[q]
        BY <2>6, <3>2 DEF Inv
      <4>2. announced \subseteq unread \union VisibleTo(q)
              => announced' \subseteq unread' \union VisibleTo(q)'
        BY <2>1, <2>5, <4>1 DEF VisibleTo
      <4> QED BY <2>1, <4>1, <4>2 DEF IsAware
    <3> QED BY <3>1, <3>2
  <2> QED BY <2>7, <2>8, <2>9, <2>10, <2>11 DEF Inv
<1> QED BY <1>2, <1>3

\* Time passes: what was visible with the time a poller read, still is.
LEMMA TickPreserves ==
    ASSUME Inv, Tick
    PROVE  Inv'
<1>1. /\ \A p \in Pollers : pc[p] \in Running => lag[p] < MaxLag
      /\ visible_in' = [m \in DOMAIN visible_in |-> Max({visible_in[m] - 1, - MaxLag})]
      /\ left' = [p \in Pollers |-> Max({left[p] - 1, 0})]
      /\ due' = [p \in Pollers |-> Max({due[p] - 1, 0})]
      /\ lag' = [p \in Pollers |-> IF pc[p] \in Running THEN lag[p] + 1 ELSE lag[p]]
      /\ known' = [p \in Pollers |-> IF known[p] = NULL THEN NULL
                                     ELSE Max({known[p] - 1, - MaxLag})]
      /\ UNCHANGED <<unpublished, unread, others, archived, held, draining, exists, nacks,
                     faults, unsent, pc, fresh, saw_draining, announced, redriven>>
  BY DEF Tick, log, status, counts, history
<1>2. ASSUME NEW t \in Ago \union Nat
      PROVE  /\ Max({t - 1, - MaxLag}) \in Ago \union Nat
             /\ Max({t - 1, - MaxLag}) = IF t > - MaxLag THEN t - 1 ELSE - MaxLag
  <2>1. t \in Int /\ MaxLag \in Nat \ {0} /\ t >= - MaxLag
    BY PollBoundsAssumption DEF Ago
  <2>2. Max({t - 1, - MaxLag}) = IF t - 1 >= - MaxLag THEN t - 1 ELSE - MaxLag
    BY <2>1, LaterOfTwo
  <2> QED BY <2>1, <2>2 DEF Ago
<1>3. ASSUME NEW t \in Nat PROVE Max({t - 1, 0}) \in Nat
  <2>1. Max({t - 1, 0}) = IF t - 1 >= 0 THEN t - 1 ELSE 0
    BY LaterOfTwo
  <2> QED BY <2>1
<1>4. /\ DOMAIN visible_in' = DOMAIN visible_in
      /\ visible_in' \in [DOMAIN visible_in' -> Ago \union Nat]
      /\ \A m \in DOMAIN visible_in :
           visible_in'[m] = IF visible_in[m] > - MaxLag THEN visible_in[m] - 1 ELSE - MaxLag
  <2>1. \A m \in DOMAIN visible_in : visible_in[m] \in Ago \union Nat
    BY DEF Inv, TypeOK
  <2> QED BY <1>1, <1>2, <2>1
<1>5. PollTypeOK'
  <2>1. left' \in [Pollers -> Nat] /\ due' \in [Pollers -> Nat]
    BY <1>1, <1>3 DEF Inv, TypeOK
  <2>2. lag' \in [Pollers -> 0 .. MaxLag]
    BY <1>1, PollBoundsAssumption DEF Inv, TypeOK
  <2>3. known' \in [Pollers -> Ago \union Nat \union {NULL}]
    <3>1. SUFFICES ASSUME NEW p \in Pollers
                   PROVE  (IF known[p] = NULL THEN NULL ELSE Max({known[p] - 1, - MaxLag}))
                            \in Ago \union Nat \union {NULL}
      BY <1>1
    <3>2. known[p] \in Ago \union Nat \union {NULL}
      BY DEF Inv, TypeOK
    <3> QED BY <1>2, <3>2
  <2> QED BY <1>1, <2>1, <2>2, <2>3 DEF Inv, TypeOK, PollTypeOK
<1>6. TypeOK'
  BY <1>1, <1>4, <1>5 DEF Inv, TypeOK, PollTypeOK
<1>7. Apart'
  BY <1>1, <1>4 DEF Inv, Apart
<1>8. ASSUME NEW m \in DOMAIN visible_in, NEW d \in 0 .. MaxLag, visible_in[m] <= - d
      PROVE  visible_in'[m] <= - d /\ (d < MaxLag => visible_in'[m] <= - (d + 1))
  <2>1. visible_in[m] \in Int /\ MaxLag \in Nat \ {0}
    <3>1. visible_in[m] \in Ago \union Nat
      BY DEF Inv, TypeOK
    <3> QED BY <3>1, PollBoundsAssumption DEF Ago
  <2>2. visible_in'[m] = IF visible_in[m] > - MaxLag THEN visible_in[m] - 1 ELSE - MaxLag
    BY <1>4
  <2> QED BY <1>8, <2>1, <2>2
<1>9. AnnouncedIsClaimable'
  <2>1. ASSUME NEW m \in DOMAIN visible_in, visible_in[m] <= 0 PROVE visible_in'[m] <= 0
    BY <1>8, <2>1, PollBoundsAssumption
  <2> QED BY <1>1, <1>4, <2>1 DEF Inv, AnnouncedIsClaimable, Claimable
<1>10. NoEarlyGoodbye'
  <2>1. ASSUME NEW p \in Pollers, known'[p] = NULL PROVE known[p] = NULL
    <3>1. known[p] \in Ago \union Nat \union {NULL}
      BY DEF Inv, TypeOK
    <3>2. NULL \notin Ago \union Nat
      BY PollNullAssumption, PollBoundsAssumption DEF Ago
    <3> QED BY <1>1, <1>2, <2>1, <3>1, <3>2
  <2> QED BY <1>1, <1>4, <2>1 DEF Inv, NoEarlyGoodbye
<1>11. ASSUME NEW p \in Pollers PROVE IsAware(p)'
  <2>1. CASE pc[p] \in {"check", "claim"}
    <3>1. pc[p] \in Running /\ lag[p] \in 0 .. MaxLag /\ lag[p] < MaxLag /\ lag'[p] = lag[p] + 1
      BY <1>1, <2>1 DEF Running, Inv, TypeOK
    <3>2. \A m \in VisibleTo(p) : m \in DOMAIN visible_in' /\ visible_in'[m] <= - lag'[p]
      BY <1>4, <1>8, <3>1 DEF VisibleTo
    <3>3. VisibleTo(p) \subseteq VisibleTo(p)'
      BY <3>2 DEF VisibleTo
    <3> QED BY <1>1, <2>1, <3>3 DEF Inv, IsAware
  <2>2. CASE pc[p] \notin {"check", "claim"}
    BY <1>1, <2>2 DEF Inv, IsAware
  <2> QED BY <2>1, <2>2
<1> QED BY <1>6, <1>7, <1>9, <1>10, <1>11 DEF Inv

-----------------------------------------------------------------------------
(* The theorems.                                                           *)

\* Nothing is published, claimed or polled at first.
LEMMA InitEstablishes == Init => Inv
<1> SUFFICES ASSUME Init PROVE Inv
  OBVIOUS
<1>1. TypeOK
  <2>1. visible_in \in [DOMAIN visible_in -> Ago \union Nat] /\ DOMAIN visible_in = {}
    BY DEF Init, NoRows
  <2>2. 0 \in 0 .. MaxLag
    BY PollBoundsAssumption
  <2>3. /\ pc \in [Pollers -> Running \union {Idle, "mark", "asleep"}]
        /\ left \in [Pollers -> Nat] /\ due \in [Pollers -> Nat]
        /\ lag \in [Pollers -> 0 .. MaxLag]
        /\ known \in [Pollers -> Ago \union Nat \union {NULL}]
        /\ fresh \in [Pollers -> SUBSET Signals]
    BY <2>2 DEF Init
  <2>4. saw_draining \in [Pollers -> BOOLEAN]
    BY DEF Init
  <2> QED BY <2>1, <2>3, <2>4 DEF Init, TypeOK
<1>2. Apart /\ AnnouncedIsClaimable
  BY DEF Init, Apart, AnnouncedIsClaimable, NoRows
<1>3. NoEarlyGoodbye /\ \A p \in Pollers : IsAware(p)
  BY DEF Init, NoEarlyGoodbye, IsAware, Idle
<1> QED BY <1>1, <1>2, <1>3 DEF Inv

\* Every step preserves the invariant.
LEMMA StepPreserves == Inv /\ [Next]_vars => Inv'
<1> SUFFICES ASSUME Inv, [Next]_vars PROVE Inv'
  OBVIOUS
<1>1. CASE Tick
  BY <1>1, TickPreserves
<1>2. CASE Notify
  BY <1>2, NotifyPreserves
<1>3. CASE \/ PublishOther \/ Prune \/ BeginDraining \/ DeleteConsumer
           \/ \E m \in Messages : Publish(m) \/ Handle(m)
  BY <1>3, OthersPreserve
<1>4. CASE \E p \in Pollers : Call(p) \/ Loop(p) \/ Cancel(p)
  BY <1>4, CallPreserves, MarkPreserves, CheckPreserves, ClaimPreserves, RequeryPreserves,
     DecidePreserves DEF Loop
<1>5. CASE UNCHANGED vars
  BY <1>5 DEF vars, log, rows, status, counts, poll, history, Inv, TypeOK, Apart, Claimable,
              AnnouncedIsClaimable, NoEarlyGoodbye, IsAware, VisibleTo
<1> QED BY <1>1, <1>2, <1>3, <1>4, <1>5 DEF Next

\* The inductive invariant holds in every reachable state.
THEOREM Invariance == Spec => []Inv
BY InitEstablishes, StepPreserves, PTL DEF Spec

\* Every variable keeps its type: deadlines are never further past than the lag of a loop.
THEOREM TypeCorrect == Spec => []TypeOK
<1>1. Inv => TypeOK
  BY DEF Inv
<1> QED BY Invariance, <1>1, PTL

\* Consumer::poll marks the signals seen before it queries and sleeps only if none came
\* since: no poller sleeps on what this process has announced, whatever was committed and
\* notified between its steps.
THEOREM NoWakeupIsLost == Spec => []NoLostWakeup
<1>1. Inv => NoLostWakeup
  BY DEF Inv, IsAware, NoLostWakeup
<1> QED BY Invariance, <1>1, PTL

\* A poll that ends early because its consumer has drained is still right when it decides,
\* though others went on since it read the flag and the rows.
THEOREM NoGoodbyeIsEarly == Spec => []NoEarlyGoodbye
<1>1. Inv => NoEarlyGoodbye
  BY DEF Inv
<1> QED BY Invariance, <1>1, PTL

-----------------------------------------------------------------------------
(* What the loop assumes of signals is what Broadcast allows.              *)

\* A poller has no receivers between its polls.
IdleIsQuiet == \A p \in Pollers : pc[p] = Idle => fresh[p] = {}

\* What the polls and their signals do in a step, of which the rest is no concern here.
PollsGoOn ==
    \/ UNCHANGED <<pc, fresh>>
    \/ \E p \in Pollers, label \in Running \union {"mark", "asleep"} :
         pc[p] # Idle /\ pc' = [pc EXCEPT ![p] = label] /\ UNCHANGED fresh

PollsLook ==
    \E p \in Pollers, label \in {"mark", "check"} :
      /\ pc' = [pc EXCEPT ![p] = label]
      /\ fresh' = [fresh EXCEPT ![p] = {}]

PollsReturn ==
    \E p \in Pollers :
      /\ pc' = [pc EXCEPT ![p] = Idle]
      /\ fresh' = [fresh EXCEPT ![p] = {}]

PollsHear == \E n \in unsent : Announced(n) /\ UNCHANGED pc /\ unsent' = unsent \ {n}

\* A notification is announced to every poll under way, as there are no other receivers.
LEMMA NotifyAnnounces ==
    ASSUME TypeOK, IdleIsQuiet, Notify
    PROVE  PollsHear
<1> DEFINE consumer == [p \in Pollers |-> 0]
           polling == {p \in Pollers : pc[p] # Idle}
<1>1. fresh \in [Pollers -> SUBSET Signals] /\ unsent \subseteq Notification /\ NULL # 0
  BY PollNullAssumption DEF TypeOK
<1>2. PICK n \in unsent :
        /\ unsent' = unsent \ {n} /\ UNCHANGED pc
        /\ fresh' = [p \in Pollers |->
                       IF pc[p] = Idle THEN {} ELSE fresh[p] \union {n.signal}]
  BY DEF Notify
<1>3. fresh' = [p \in Pollers |->
                  IF p \in polling \intersect Pollers THEN fresh[p] \union {n.signal}
                  ELSE fresh[p]]
  BY <1>1, <1>2 DEF IdleIsQuiet
<1>4. /\ {p \in Pollers : consumer[p] # NULL /\ [c \in {0} |-> Filter][consumer[p]] \in {Filter}}
           = Pollers
      /\ {p \in Pollers : consumer[p] = 0} = Pollers
  BY <1>1
<1>5. n.signal = "publishes" => Shared!AnnouncePublish({Filter})
  BY <1>2, <1>3, <1>4 DEF Shared!AnnouncePublish, Shared!Reach
<1>6. n.signal = "consumer_changes" => Shared!AnnounceChange(0)
  BY <1>2, <1>3, <1>4 DEF Shared!AnnounceChange, Shared!Reach
<1>7. n.signal \in Signals
  BY <1>1 DEF Notification
<1>8. Announced(n)
  BY <1>5, <1>6, <1>7 DEF Announced, Signals
<1> QED BY <1>2, <1>8 DEF PollsHear

\* Whatever else is done leaves what has not been sent to be sent.
LEMMA OnlyNotifySends ==
    ASSUME [Next]_vars
    PROVE  Notify \/ unsent \subseteq unsent'
<1>1. ASSUME NEW signal, NEW work, Committed(signal, work) PROVE unsent \subseteq unsent'
  BY <1>1 DEF Committed
<1>2. ASSUME NEW m \in Messages, Publish(m) \/ Handle(m) PROVE unsent \subseteq unsent'
  BY <1>1, <1>2 DEF Publish, Handle, Ack, Extend, Nack, Archive, Lapse, Redrive, PurgeArchives
<1>3. ASSUME NEW p \in Pollers, Call(p) \/ Loop(p) \/ Cancel(p) PROVE unsent \subseteq unsent'
  BY <1>3 DEF Call, Loop, Cancel, Mark, Check, Claim, Requery, Decide, Wake
<1>4. CASE Tick \/ PublishOther \/ Prune \/ UNCHANGED vars
  BY <1>4 DEF Tick, PublishOther, Prune, vars
<1>5. CASE BeginDraining \/ DeleteConsumer
  BY <1>1, <1>5 DEF BeginDraining, DeleteConsumer
<1> QED BY <1>2, <1>3, <1>4, <1>5 DEF Next

\* Every step is one of these.
LEMMA StepsOfPolls ==
    ASSUME TypeOK, IdleIsQuiet, [Next]_vars
    PROVE  PollsGoOn \/ PollsLook \/ PollsReturn \/ PollsHear
<1>1. /\ pc \in [Pollers -> Running \union {Idle, "mark", "asleep"}]
      /\ fresh \in [Pollers -> SUBSET Signals]
  BY DEF TypeOK
<1>2. CASE Tick \/ PublishOther \/ Prune \/ BeginDraining \/ DeleteConsumer \/ UNCHANGED vars
  BY <1>2 DEF Tick, PublishOther, Prune, BeginDraining, DeleteConsumer, vars, poll, PollsGoOn
<1>3. ASSUME NEW m \in Messages, Publish(m) \/ Handle(m) PROVE PollsGoOn
  BY <1>3 DEF Publish, Handle, Ack, Extend, Nack, Archive, Lapse, Redrive, PurgeArchives,
              poll, PollsGoOn
<1>4. CASE Notify
  BY <1>4, NotifyAnnounces
<1>5. ASSUME NEW p \in Pollers, Call(p) PROVE PollsLook
  <2>1. pc[p] = Idle /\ pc' = [pc EXCEPT ![p] = "mark"] /\ UNCHANGED fresh
    BY <1>5 DEF Call, Goto
  <2>2. fresh' = [fresh EXCEPT ![p] = {}]
    BY <1>1, <2>1 DEF IdleIsQuiet
  <2> QED BY <2>1, <2>2 DEF PollsLook
<1>6. ASSUME NEW p \in Pollers, Mark(p) PROVE PollsLook
  BY <1>6 DEF Mark, Goto, PollsLook
<1>7. ASSUME NEW p \in Pollers, Return(p) PROVE PollsReturn
  BY <1>7 DEF Return, PollsReturn
<1>8. ASSUME NEW p \in Pollers, NEW label \in Running \union {"mark", "asleep"},
             pc[p] # Idle, Goto(p, label), UNCHANGED fresh
      PROVE  PollsGoOn
  BY <1>8 DEF Goto, PollsGoOn
<1>9. ASSUME NEW p \in Pollers, Check(p) \/ Requery(p) \/ Decide(p) \/ Claim(p) \/ Wake(p)
      PROVE  PollsGoOn \/ PollsReturn
  <2>1. pc[p] # Idle
    BY <1>9 DEF Check, Requery, Decide, Claim, Wake, Idle
  <2>2. \/ Return(p)
        \/ UNCHANGED fresh /\ \E label \in Running \union {"mark", "asleep"} : Goto(p, label)
    BY <1>9 DEF Check, Requery, Decide, Claim, Wake, Observe, Running
  <2> QED BY <1>7, <1>8, <2>1, <2>2
<1>10. ASSUME NEW p \in Pollers, Cancel(p) PROVE PollsReturn
  BY <1>7, <1>10 DEF Cancel
<1> QED BY <1>2, <1>3, <1>4, <1>5, <1>6, <1>9, <1>10 DEF Next, Loop

\* None leaves anything for the next poll of the same task.
LEMMA QuietAlways == TypeOK /\ IdleIsQuiet /\ [Next]_vars => IdleIsQuiet'
<1> SUFFICES ASSUME TypeOK, IdleIsQuiet, [Next]_vars PROVE IdleIsQuiet'
  OBVIOUS
<1>1. /\ pc \in [Pollers -> Running \union {Idle, "mark", "asleep"}]
      /\ fresh \in [Pollers -> SUBSET Signals]
  BY DEF TypeOK
<1>2. PollsGoOn \/ PollsLook \/ PollsReturn \/ PollsHear
  BY StepsOfPolls
<1>3. CASE PollsHear
  <2>1. /\ UNCHANGED pc
        /\ \A p \in Pollers : pc[p] = Idle => fresh'[p] = fresh[p]
    BY <1>3 DEF PollsHear, Announced, Shared!AnnouncePublish, Shared!AnnounceChange, Shared!Reach
  <2> QED BY <2>1 DEF IdleIsQuiet
<1> QED BY <1>1, <1>2, <1>3
  DEF IdleIsQuiet, PollsGoOn, PollsLook, PollsReturn, Running, Idle

\* Every step of the polls is one of Broadcast or one that it does not see.
LEMMA StepIsBroadcast ==
    ASSUME TypeOK, IdleIsQuiet, [Next]_vars
    PROVE  [Shared!Next]_(Shared!vars)
<1> DEFINE consumer == [p \in Pollers |-> 0]
           polling == {p \in Pollers : pc[p] # Idle}
<1>1. /\ pc \in [Pollers -> Running \union {Idle, "mark", "asleep"}]
      /\ fresh \in [Pollers -> SUBSET Signals] /\ NULL # 0
  BY PollNullAssumption DEF TypeOK
<1>2. PollsGoOn \/ PollsLook \/ PollsReturn \/ PollsHear
  BY StepsOfPolls
<1>3. CASE PollsGoOn
  <2>1. polling' = polling /\ UNCHANGED fresh
    BY <1>1, <1>3 DEF PollsGoOn, Running, Idle
  <2> QED BY <2>1 DEF Shared!vars
<1>4. CASE PollsLook
  <2>1. PICK p \in Pollers, label \in {"mark", "check"} :
          pc' = [pc EXCEPT ![p] = label] /\ fresh' = [fresh EXCEPT ![p] = {}]
    BY <1>4 DEF PollsLook
  <2>2. polling' = polling \union {p}
    BY <1>1, <2>1 DEF Idle
  <2>3. Shared!Look(p)
    BY <1>1, <2>1, <2>2 DEF Shared!Look
  <2> QED BY <2>3 DEF Shared!Next
<1>5. CASE PollsReturn
  <2>1. PICK p \in Pollers :
          pc' = [pc EXCEPT ![p] = Idle] /\ fresh' = [fresh EXCEPT ![p] = {}]
    BY <1>5 DEF PollsReturn
  <2>2. polling' = polling \ {p}
    BY <1>1, <2>1
  <2>3. Shared!Leave(p)
    BY <1>1, <2>1, <2>2 DEF Shared!Leave
  <2> QED BY <2>3 DEF Shared!Next
<1>6. CASE PollsHear
  BY <1>6 DEF PollsHear, Announced, Shared!Next
<1> QED BY <1>2, <1>3, <1>4, <1>5, <1>6

\* What is sent, is sent by Notify.
LEMMA SentIsAnnounced ==
    ASSUME TypeOK, IdleIsQuiet, [Next]_vars, NEW n \in unsent \ unsent'
    PROVE  Announced(n)
<1>1. Notify
  BY OnlyNotifySends
<1>2. PollsHear
  BY <1>1, NotifyAnnounces
<1>3. PICK k \in unsent : Announced(k) /\ unsent' = unsent \ {k}
  BY <1>2 DEF PollsHear
<1>4. n = k
  BY <1>3
<1> QED BY <1>3, <1>4

\* What poll relies on when it marks its receivers and sleeps is no more than Broadcast
\* promises, and so no more than the registry of weak references in signals.rs delivers.
THEOREM LoopAssumesBroadcast == Spec => PollsAreBroadcastTo
<1>1. Init => IdleIsQuiet
  BY DEF Init, IdleIsQuiet
<1>2. Inv => TypeOK
  BY DEF Inv
<1>3. TypeOK /\ IdleIsQuiet /\ [Next]_vars =>
        [ /\ [Shared!Next]_(Shared!vars)
          /\ \A n \in unsent \ unsent' : Announced(n) ]_vars
  BY StepIsBroadcast, SentIsAnnounced
<1> QED BY <1>1, <1>2, <1>3, Invariance, QuietAlways, PTL DEF Spec, PollsAreBroadcastTo

=============================================================================
