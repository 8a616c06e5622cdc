------------------------------- MODULE Opening -------------------------------
(***************************************************************************)
(* LiteFan::open_with_config and the schema (src/src/store.rs, schema.rs,  *)
(* error.rs): several processes open one file, new, half made, complete,   *)
(* of an older release or of a newer one.                                  *)
(*                                                                         *)
(* Opening is not a transaction.  The version is read, the statements of   *)
(* the schema run and commit one by one, two probes look for the columns   *)
(* that older releases did not have, and the version is written.  Others   *)
(* do the same in between, a newer release may migrate the file, any       *)
(* statement may fail and any call may be abandoned.                       *)
(***************************************************************************)
EXTENDS Integers, Sequences

CONSTANTS
    Processes,  \* that open the file
    Older,      \* tables that older releases left: functions from tables to what they lack
    MaxFaults   \* bound on failed statements and abandoned calls

\* What SQL creates, in its order: tables, each followed by its indexes.
Schema == <<
    "messages", "messages_topic",
    "idempotency", "idempotency_expiry",
    "consumers",
    "deliveries", "deliveries_visible", "deliveries_message",
    "archived_deliveries", "archives_consumer", "archives_message">>

VERSION == 2

\* What its first statements create.
First(n) == {Schema[i] : i \in 1 .. n}

Objects == First(Len(Schema))

\* The table that an index is on.
TableOf == [
    messages_topic |-> "messages",
    idempotency_expiry |-> "idempotency",
    deliveries_visible |-> "deliveries", deliveries_message |-> "deliveries",
    archives_consumer |-> "archived_deliveries", archives_message |-> "archived_deliveries"]

Indexes == DOMAIN TableOf

\* What may be the matter with a table of an older release: it lacks a column that an index
\* is on, one that a probe selects and no index is on, or one that neither looks at.
Lacking == [
    messages |-> {"unindexable", "unprobed"},
    idempotency |-> {"unindexable", "unprobed"},
    consumers |-> {"obsolete", "unprobed"},
    deliveries |-> {"unindexable", "unprobed"},
    archived_deliveries |-> {"unindexable", "obsolete", "unprobed"}]

Tables == DOMAIN Lacking

ASSUME OpeningAssumption ==
    /\ MaxFaults \in Nat
    /\ \A old \in Older : DOMAIN old \subseteq Tables /\ \A t \in DOMAIN old : old[t] \in Lacking[t]

VARIABLES
    user_version,  \* PRAGMA user_version
    objects,       \* table or index -> "current", what it lacks, or "newer"
    pc,            \* process -> what its call does next, or how it ended
    found,         \* process -> the version its call read
    statement,     \* process -> the statement of SQL its call runs next
    failed,        \* processes whose last call lost a statement, or was abandoned
    faults         \* faults so far

file == <<user_version, objects>>
vars == <<file, pc, found, statement, failed, faults>>

UnderWay == {"create", "probe_consumers", "probe_archives", "set_version"}

Endings == {"opened", "UnsupportedSchemaVersion", "IncompatibleSchema", "Sqlx", "abandoned"}

\* A newer release has the file, whatever version it is marked with.
Upgraded == \E o \in DOMAIN objects : objects[o] = "newer"

Present(kinds) == [o \in {p \in Objects : kinds[p] # "absent"} |-> kinds[o]]

\* A file that is new or older: older releases had tables of their own, and the first
\* statements of SQL have run.  Or one that is complete, or that a newer release made.
InitialFile ==
    \/ /\ user_version \in 0 .. VERSION - 1
       /\ \E n \in 0 .. Len(Schema), old \in Older :
            objects = Present([o \in Objects |->
                         IF o \in DOMAIN old THEN old[o]
                         ELSE IF /\ o \in Indexes
                                 /\ TableOf[o] \in DOMAIN old
                                 /\ old[TableOf[o]] = "unindexable" THEN "absent"
                         ELSE IF o \in First(n) THEN "current"
                         ELSE "absent"])
    \/ user_version = VERSION /\ objects = [o \in Objects |-> "current"]
    \/ user_version = VERSION + 1 /\ objects = [o \in Objects |-> "newer"]

Init ==
    /\ InitialFile
    /\ pc = [p \in Processes |-> "closed"]
    /\ found = [p \in Processes |-> 0]
    /\ statement = [p \in Processes |-> 1]
    /\ failed = {}
    /\ faults = 0

-----------------------------------------------------------------------------

To(p, next) == pc' = [pc EXCEPT ![p] = next]

\* A process calls for the first time, or again after an error; nothing obliges it to.
Begins(p) ==
    /\ pc[p] \notin UnderWay \union {"opened"}
    /\ found' = [found EXCEPT ![p] = user_version]
    /\ failed' = failed \ {p}

\* mutant: a call goes on where the last one of its process stopped
ReadVersionAndResume(p) ==
    /\ Begins(p)
    /\ To(p, IF user_version > VERSION THEN "UnsupportedSchemaVersion" ELSE "create")
    /\ UNCHANGED <<file, statement, faults>>

\* mutant: the version is written before the schema
ReadVersionAndMark(p) ==
    /\ Begins(p)
    /\ statement' = [statement EXCEPT ![p] = 1]
    /\ To(p, IF user_version > VERSION THEN "UnsupportedSchemaVersion" ELSE "create")
    /\ user_version' = IF user_version > VERSION THEN user_version ELSE VERSION
    /\ UNCHANGED <<objects, faults>>

\* mutant: a file with tables needs no statements
ReadVersionAndSkip(p) ==
    /\ Begins(p)
    /\ statement' = [statement EXCEPT ![p] = 1]
    /\ To(p, IF user_version > VERSION THEN "UnsupportedSchemaVersion"
             ELSE IF "messages" \in DOMAIN objects THEN "probe_consumers" ELSE "create")
    /\ UNCHANGED <<file, faults>>

ReadVersion(p) ==
    /\ Begins(p)
    /\ statement' = [statement EXCEPT ![p] = 1]
    /\ To(p, IF user_version > VERSION THEN "UnsupportedSchemaVersion" ELSE "create")
    /\ UNCHANGED <<file, faults>>

MovesTo(p, error) == To(p, error) /\ UNCHANGED <<file, found, statement, failed, faults>>

\* The next statement creates what it names unless that exists.
Creates(p) ==
    /\ LET o == Schema[statement[p]]
       IN  objects' = [x \in DOMAIN objects \union {o} |->
                         IF x \in DOMAIN objects THEN objects[x] ELSE "current"]
    /\ statement' = [statement EXCEPT ![p] = @ + 1]
    /\ To(p, IF statement[p] = Len(Schema) THEN "probe_consumers" ELSE "create")
    /\ UNCHANGED <<user_version, found, failed, faults>>

\* mutant: CREATE without IF NOT EXISTS
CreateAnew(p) ==
    /\ pc[p] = "create"
    /\ IF Schema[statement[p]] \in DOMAIN objects THEN MovesTo(p, "Sqlx") ELSE Creates(p)

Unindexable(o) ==
    /\ o \in Indexes \ DOMAIN objects
    /\ TableOf[o] \in DOMAIN objects
    /\ objects[TableOf[o]] = "unindexable"

Newer(o) == o \in DOMAIN objects /\ objects[o] = "newer"

\* CREATE ... IF NOT EXISTS: an object that exists, of whatever shape, is left alone.  With
\* what a newer release made there, it may fail.
Create(p) ==
    /\ pc[p] = "create"
    /\ LET o == Schema[statement[p]]
       IN  \/ ~Unindexable(o) /\ Creates(p)
           \/ (Unindexable(o) \/ Newer(o)) /\ MovesTo(p, "Sqlx")

Selectable(table) ==
    table \in DOMAIN objects /\ objects[table] \notin {"obsolete", "unindexable"}

\* A probe goes on to the next statement or refuses the file; a newer table may be either.
Probe(p, table, next) ==
    \/ Selectable(table) /\ MovesTo(p, next)
    \/ (~Selectable(table) \/ Newer(table)) /\ MovesTo(p, "IncompatibleSchema")

AfterProbes(p) == IF found[p] < VERSION THEN "set_version" ELSE "opened"

\* mutant: archives are not probed
ProbeConsumersOnly(p) == pc[p] = "probe_consumers" /\ Probe(p, "consumers", AfterProbes(p))

ProbeConsumers(p) == pc[p] = "probe_consumers" /\ Probe(p, "consumers", "probe_archives")

\* mutant: the version is written whatever was found
ProbeArchivesAndMark(p) ==
    pc[p] = "probe_archives" /\ Probe(p, "archived_deliveries", "set_version")

ProbeArchives(p) == pc[p] = "probe_archives" /\ Probe(p, "archived_deliveries", AfterProbes(p))

SetVersion(p) ==
    /\ pc[p] = "set_version"
    /\ user_version' = VERSION
    /\ To(p, "opened")
    /\ UNCHANGED <<objects, found, statement, failed, faults>>

Continue(p) == Create(p) \/ ProbeConsumers(p) \/ ProbeArchives(p) \/ SetVersion(p)

Fault(p) ==
    /\ faults < MaxFaults
    /\ faults' = faults + 1
    /\ failed' = failed \union {p}
    /\ UNCHANGED <<file, found, statement>>

\* A statement fails for no reason of the file: the writer lock is not to be had within
\* busy_timeout, the disk fails.  At a probe every error is an IncompatibleSchema.
StatementFails(p) ==
    /\ pc[p] # "opened"
    /\ To(p, IF pc[p] \in {"probe_consumers", "probe_archives"} THEN "IncompatibleSchema"
             ELSE "Sqlx")
    /\ Fault(p)

\* The process dies, or the future of the call is dropped.
Abandon(p) ==
    /\ pc[p] \in UnderWay
    /\ To(p, "abandoned")
    /\ Fault(p)

\* A newer release migrates the file, in a transaction of its own, and makes of every table
\* and index what it likes.
Upgrade ==
    /\ ~Upgraded
    /\ user_version' = VERSION + 1
    /\ objects' = [o \in Objects |-> "newer"]
    /\ UNCHANGED <<pc, found, statement, failed, faults>>

Next ==
    \/ \E p \in Processes : ReadVersion(p) \/ Continue(p) \/ StatementFails(p) \/ Abandon(p)
    \/ Upgrade

\* A call under way goes on.
Spec == Init /\ [][Next]_vars /\ \A p \in Processes : WF_vars(Continue(p))

-----------------------------------------------------------------------------
(* Properties.                                                             *)

\* As far as the probes and the indexes can tell.
Complete ==
    /\ DOMAIN objects = Objects
    /\ \A o \in Objects : objects[o] \in {"current", "unprobed"}

\* Of the variables; a call that creates has a statement to run.
TypeOK ==
    /\ user_version \in 0 .. VERSION + 1
    /\ DOMAIN objects \subseteq Objects
    /\ \A o \in DOMAIN objects :
         objects[o] \in {"current", "newer", "obsolete", "unindexable", "unprobed"}
    /\ pc \in [Processes -> Endings \union UnderWay \union {"closed"}]
    /\ found \in [Processes -> 0 .. VERSION + 1]
    /\ statement \in [Processes -> 1 .. Len(Schema) + 1]
    /\ \A p \in Processes : pc[p] = "create" => statement[p] <= Len(Schema)
    /\ failed \subseteq Processes

\* A store that was opened has every table and index, and what the probes and the indexes
\* look at has the shape of this release, though others may have made, or still be making,
\* any part of it; unless a newer release took it over.
OpenedIsComplete == \A p \in Processes : pc[p] = "opened" => Complete \/ Upgraded

\* A file is marked with the version only when it is complete, so that no crash between the
\* statements leaves a marked file that is not, and no file that a probe refuses is marked.
VersionIsTrue == user_version = VERSION => Complete \/ Upgraded

\* A call that loses no statement of its own is refused only for what is in the file: never
\* because other calls are at the schema, lost a statement there or were abandoned.  (One
\* that does lose a statement at a probe is told that the schema is incompatible.)
RefusalsAreTrue ==
    \A p \in Processes \ failed :
      /\ pc[p] = "IncompatibleSchema" =>
           (\E o \in DOMAIN objects : objects[o] = "obsolete") \/ Upgraded
      /\ pc[p] = "Sqlx" =>
           (\E o \in DOMAIN objects : objects[o] = "unindexable") \/ Upgraded
      /\ pc[p] = "UnsupportedSchemaVersion" => Upgraded

\* A file that a newer release migrates under calls of this one keeps its newer version,
\* except by a call that had read the version when the file was not yet marked with VERSION;
\* in particular a file that was complete before anyone called is never set back.
NewerStaysMarked ==
    Upgraded /\ user_version <= VERSION =>
      \E p \in Processes : pc[p] = "opened" /\ found[p] < VERSION

Compatible ==
    /\ user_version <= VERSION
    /\ \A o \in DOMAIN objects : objects[o] \in {"current", "unprobed"}

\* Whatever part of its schema a compatible file has, and whoever failed or died at it, also
\* the same process in earlier calls, a call that loses no statement opens it, unless a newer
\* release is faster.
CompatibleIsOpened ==
    \A p \in Processes :
      pc[p] = "create" /\ Compatible ~> pc[p] = "opened" \/ p \in failed \/ Upgraded
=============================================================================
