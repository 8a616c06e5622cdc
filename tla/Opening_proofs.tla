--------------------------- MODULE Opening_proofs ----------------------------
(* What TLAPS proves of Opening, for any number of processes and faults,   *)
(* and for any tables that older releases left.                            *)
EXTENDS Opening, TLAPS

\* Until a newer release has the file, what exists is of this release, except for the tables
\* that an older one made.
KindsAreKnown ==
    ~Upgraded =>
      \A o \in DOMAIN objects :
        objects[o] = "current" \/ (o \in Tables /\ objects[o] \in Lacking[o])

\* A table that an index cannot be on has none.
UnindexableHasNone ==
    \A o \in Indexes \intersect DOMAIN objects :
      TableOf[o] \in DOMAIN objects => objects[TableOf[o]] # "unindexable"

\* What a process has seen created is there: nothing is ever dropped.
MadeIsThere ==
    \A p \in Processes :
      /\ pc[p] = "create" =>
           \A i \in 1 .. Len(Schema) : i < statement[p] => Schema[i] \in DOMAIN objects
      /\ pc[p] \in (UnderWay \ {"create"}) \union {"opened"} => Objects \subseteq DOMAIN objects

\* A process has probed the file before it goes on.
ProbedIsSelectable ==
    ~Upgraded =>
      \A p \in Processes :
        /\ pc[p] \in {"probe_archives", "set_version", "opened"} => Selectable("consumers")
        /\ pc[p] \in {"set_version", "opened"} => Selectable("archived_deliveries")

\* Only a call that read an older version writes the version.
MarksAreOwed == \A p \in Processes : pc[p] = "set_version" => found[p] < VERSION

\* Only a newer release has a newer version.
NewerIsUpgraded == user_version > VERSION => Upgraded

\* What the invariant says of the file.
FileInv ==
    /\ user_version \in 0 .. VERSION + 1
    /\ DOMAIN objects \subseteq Objects
    /\ \A o \in DOMAIN objects :
         objects[o] \in {"current", "newer", "obsolete", "unindexable", "unprobed"}
    /\ VersionIsTrue /\ KindsAreKnown /\ UnindexableHasNone /\ NewerIsUpgraded

\* What it says of the calls under way, and of what came of the others.
CallsInv == MadeIsThere /\ ProbedIsSelectable /\ MarksAreOwed /\ RefusalsAreTrue

Inv == TypeOK /\ FileInv /\ CallsInv /\ NewerStaysMarked

-----------------------------------------------------------------------------
(* The schema.                                                             *)

\* The statements of SQL and what they create.
LEMMA SchemaFacts ==
    /\ Len(Schema) = 11 /\ DOMAIN Schema = 1 .. 11
    /\ \A i \in 1 .. 11 : Schema[i] \in Objects
    /\ \A o \in Objects : \E i \in 1 .. 11 : o = Schema[i]
    /\ Tables \subseteq Objects /\ Indexes \subseteq Objects
    /\ Tables \intersect Indexes = {}
    /\ "consumers" \in Tables /\ "archived_deliveries" \in Tables
<1>1. Len(Schema) = 11 /\ DOMAIN Schema = 1 .. 11
  BY DEF Schema
<1>2. /\ \A i \in 1 .. 11 : Schema[i] \in Objects
      /\ \A o \in Objects : \E i \in 1 .. 11 : o = Schema[i]
  BY <1>1 DEF Objects, First
<1>3. /\ Schema[1] = "messages" /\ Schema[3] = "idempotency" /\ Schema[5] = "consumers"
      /\ Schema[6] = "deliveries" /\ Schema[9] = "archived_deliveries"
  BY DEF Schema
<1>4. /\ Schema[2] = "messages_topic" /\ Schema[4] = "idempotency_expiry"
      /\ Schema[7] = "deliveries_visible" /\ Schema[8] = "deliveries_message"
      /\ Schema[10] = "archives_consumer" /\ Schema[11] = "archives_message"
  BY DEF Schema
<1>5. Tables = {"messages", "idempotency", "consumers", "deliveries", "archived_deliveries"}
  BY DEF Tables, Lacking
<1>6. Indexes = {"messages_topic", "idempotency_expiry", "deliveries_visible",
                 "deliveries_message", "archives_consumer", "archives_message"}
  BY DEF Indexes, TableOf
<1>7. Tables \subseteq Objects
  BY <1>2, <1>3, <1>5
<1>8. Indexes \subseteq Objects
  BY <1>2, <1>4, <1>6
<1>9. Tables \intersect Indexes = {} /\ "consumers" \in Tables /\ "archived_deliveries" \in Tables
  BY <1>5, <1>6
<1> QED BY <1>1, <1>2, <1>7, <1>8, <1>9

\* What tables may lack, and the indexes that show it.
LEMMA LackingFacts ==
    /\ \A t \in Tables : Lacking[t] \subseteq {"unindexable", "obsolete", "unprobed"}
    /\ \A t \in Tables \ {"consumers"} :
         \E o \in Indexes : TableOf[o] = t
    /\ Lacking["consumers"] = {"obsolete", "unprobed"}
    /\ \A t \in Tables \ {"consumers", "archived_deliveries"} : "obsolete" \notin Lacking[t]
<1>1. Tables = {"messages", "idempotency", "consumers", "deliveries", "archived_deliveries"}
  BY DEF Tables, Lacking
<1>2. /\ Lacking["messages"] = {"unindexable", "unprobed"}
      /\ Lacking["idempotency"] = {"unindexable", "unprobed"}
      /\ Lacking["consumers"] = {"obsolete", "unprobed"}
      /\ Lacking["deliveries"] = {"unindexable", "unprobed"}
      /\ Lacking["archived_deliveries"] = {"unindexable", "obsolete", "unprobed"}
  BY DEF Lacking
<1>3. Indexes = {"messages_topic", "idempotency_expiry", "deliveries_visible",
                 "deliveries_message", "archives_consumer", "archives_message"}
  BY DEF Indexes, TableOf
<1>4. /\ TableOf["messages_topic"] = "messages"
      /\ TableOf["idempotency_expiry"] = "idempotency"
      /\ TableOf["deliveries_visible"] = "deliveries"
      /\ TableOf["archives_consumer"] = "archived_deliveries"
  BY DEF TableOf
<1>5. \A t \in Tables : Lacking[t] \subseteq {"unindexable", "obsolete", "unprobed"}
  BY <1>1, <1>2
<1>6. \A t \in Tables \ {"consumers"} : \E o \in Indexes : TableOf[o] = t
  BY <1>1, <1>3, <1>4
<1>7. \A t \in Tables \ {"consumers", "archived_deliveries"} : "obsolete" \notin Lacking[t]
  BY <1>1, <1>2
<1> QED BY <1>2, <1>5, <1>6, <1>7

\* A file in which some objects are present.
LEMMA PresentObjects ==
    ASSUME NEW kinds
    PROVE  /\ DOMAIN Present(kinds) \subseteq Objects
           /\ \A o \in DOMAIN Present(kinds) :
                Present(kinds)[o] = kinds[o] /\ kinds[o] # "absent"
BY DEF Present

-----------------------------------------------------------------------------

\* The files that the first process may find are of a release, made in its order.
LEMMA InitialFileIsKnown ==
    ASSUME InitialFile
    PROVE  FileInv /\ (Upgraded => user_version > VERSION)
<1> DEFINE Goal == FileInv /\ (Upgraded => user_version > VERSION)
<1>1. ASSUME user_version \in 0 .. VERSION - 1,
             NEW n \in 0 .. Len(Schema), NEW old \in Older,
             objects = Present([o \in Objects |->
                         IF o \in DOMAIN old THEN old[o]
                         ELSE IF /\ o \in Indexes
                                 /\ TableOf[o] \in DOMAIN old
                                 /\ old[TableOf[o]] = "unindexable" THEN "absent"
                         ELSE IF o \in First(n) THEN "current"
                         ELSE "absent"])
      PROVE  Goal
  <2> DEFINE kinds == [o \in Objects |->
                         IF o \in DOMAIN old THEN old[o]
                         ELSE IF /\ o \in Indexes
                                 /\ TableOf[o] \in DOMAIN old
                                 /\ old[TableOf[o]] = "unindexable" THEN "absent"
                         ELSE IF o \in First(n) THEN "current"
                         ELSE "absent"]
  <2>1. /\ DOMAIN objects \subseteq Objects
        /\ \A o \in DOMAIN objects : objects[o] = kinds[o] /\ kinds[o] # "absent"
    BY <1>1, PresentObjects
  <2>2. DOMAIN old \subseteq Tables /\ \A t \in DOMAIN old : old[t] \in Lacking[t]
    BY OpeningAssumption
  <2>3. \A o \in Objects :
          kinds[o] \in {"current", "absent"} \/ (o \in Tables /\ kinds[o] \in Lacking[o])
    BY <2>2
  <2>4. \A o \in Indexes :
          TableOf[o] \in Objects /\ kinds[TableOf[o]] = "unindexable" => kinds[o] = "absent"
    BY <2>2, SchemaFacts
  <2> HIDE DEF kinds
  <2>5. \A o \in DOMAIN objects :
          objects[o] = "current" \/ (o \in Tables /\ objects[o] \in Lacking[o])
    BY <2>1, <2>3
  <2>6. \A o \in DOMAIN objects :
          objects[o] \in {"current", "obsolete", "unindexable", "unprobed"}
    BY <2>5, LackingFacts
  <2>7. UnindexableHasNone
    BY <2>1, <2>4 DEF UnindexableHasNone
  <2>8. ~Upgraded
    BY <2>6 DEF Upgraded
  <2> QED BY <1>1, <2>1, <2>5, <2>6, <2>7, <2>8
          DEF FileInv, VersionIsTrue, KindsAreKnown, NewerIsUpgraded, VERSION
<1>2. ASSUME user_version = VERSION, objects = [o \in Objects |-> "current"]
      PROVE  Goal
  BY <1>2 DEF FileInv, VersionIsTrue, Complete, KindsAreKnown, UnindexableHasNone,
              NewerIsUpgraded, Upgraded, VERSION
<1>3. ASSUME user_version = VERSION + 1, objects = [o \in Objects |-> "newer"]
      PROVE  Goal
  <2>1. Upgraded
    BY <1>3, SchemaFacts DEF Upgraded
  <2> QED BY <1>3, <2>1 DEF FileInv, VersionIsTrue, KindsAreKnown, UnindexableHasNone,
                            NewerIsUpgraded, VERSION
<1> QED BY <1>1, <1>2, <1>3 DEF InitialFile

\* A process that has not begun knows nothing yet.
LEMMA InitEstablishes == Init => Inv
<1> SUFFICES ASSUME Init PROVE Inv
  OBVIOUS
<1>1. \A p \in Processes : pc[p] = "closed"
  BY DEF Init
<1>2. FileInv /\ NewerStaysMarked
  BY InitialFileIsKnown DEF Init, NewerStaysMarked, FileInv, VERSION
<1>3. TypeOK
  BY <1>2, SchemaFacts DEF Init, TypeOK, FileInv, Endings, UnderWay, VERSION
<1>4. CallsInv
  BY <1>1 DEF CallsInv, RefusalsAreTrue, MadeIsThere, ProbedIsSelectable, MarksAreOwed, UnderWay
<1> QED BY <1>2, <1>3, <1>4 DEF Inv

-----------------------------------------------------------------------------
(* The steps.                                                              *)

\* A step that leaves the file alone keeps what the invariant says of the file.
LEMMA FileUnchanged ==
    ASSUME FileInv, UNCHANGED file
    PROVE  FileInv' /\ Upgraded' = Upgraded
BY DEF FileInv, file, VersionIsTrue, Complete, Upgraded, KindsAreKnown, UnindexableHasNone,
       NewerIsUpgraded

\* A step of a call that has not opened the file, and opens none, unmarks nothing.
LEMMA MarkUnchanged ==
    ASSUME NewerStaysMarked, UNCHANGED user_version, Upgraded' => Upgraded,
           NEW p \in Processes, pc[p] # "opened",
           \A q \in Processes \ {p} : pc'[q] = pc[q] /\ found'[q] = found[q]
    PROVE  NewerStaysMarked'
BY DEF NewerStaysMarked

\* What the invariant says of the calls under way survives a step of one of them, if it holds
\* of that one and the file is the same.
LEMMA CallsUnchanged ==
    ASSUME Inv, UNCHANGED file, NEW p \in Processes,
           \A q \in Processes \ {p} :
             pc'[q] = pc[q] /\ found'[q] = found[q] /\ statement'[q] = statement[q],
           failed' \ {p} = failed \ {p},
           pc'[p] = "create" =>
             \A i \in 1 .. Len(Schema) : i < statement'[p] => Schema[i] \in DOMAIN objects,
           pc'[p] \in (UnderWay \ {"create"}) \union {"opened"} => Objects \subseteq DOMAIN objects,
           ~Upgraded =>
             /\ pc'[p] \in {"probe_archives", "set_version", "opened"} => Selectable("consumers")
             /\ pc'[p] \in {"set_version", "opened"} => Selectable("archived_deliveries"),
           pc'[p] = "set_version" => found'[p] < VERSION,
           p \notin failed' =>
             /\ pc'[p] = "IncompatibleSchema" =>
                  (\E o \in DOMAIN objects : objects[o] = "obsolete") \/ Upgraded
             /\ pc'[p] = "Sqlx" =>
                  (\E o \in DOMAIN objects : objects[o] = "unindexable") \/ Upgraded
             /\ pc'[p] = "UnsupportedSchemaVersion" => Upgraded
    PROVE  CallsInv'
<1>1. UNCHANGED objects /\ Upgraded' = Upgraded
  BY FileUnchanged DEF Inv, file
<1>2. MadeIsThere'
  BY <1>1 DEF Inv, CallsInv, MadeIsThere
<1>3. ProbedIsSelectable'
  BY <1>1 DEF Inv, CallsInv, ProbedIsSelectable, Selectable
<1>4. MarksAreOwed'
  BY DEF Inv, CallsInv, MarksAreOwed
<1>5. RefusalsAreTrue'
  BY <1>1 DEF Inv, CallsInv, RefusalsAreTrue
<1> QED BY <1>2, <1>3, <1>4, <1>5 DEF CallsInv

\* The version is compared, and the schema begun.
LEMMA ReadVersionPreserves ==
    ASSUME Inv, NEW p \in Processes, ReadVersion(p)
    PROVE  Inv'
<1>1. /\ pc[p] # "opened"
      /\ found' = [found EXCEPT ![p] = user_version]
      /\ statement' = [statement EXCEPT ![p] = 1]
      /\ failed' = failed \ {p}
      /\ pc' = [pc EXCEPT ![p] =
                  IF user_version > VERSION THEN "UnsupportedSchemaVersion" ELSE "create"]
      /\ UNCHANGED file
  BY DEF ReadVersion, Begins, To
<1>2. TypeOK'
  BY <1>1, SchemaFacts, FileUnchanged DEF Inv, FileInv, TypeOK, Endings, UnderWay
<1>3. /\ pc'[p] = IF user_version > VERSION THEN "UnsupportedSchemaVersion" ELSE "create"
      /\ statement'[p] = 1
      /\ \A q \in Processes \ {p} :
           pc'[q] = pc[q] /\ found'[q] = found[q] /\ statement'[q] = statement[q]
  BY <1>1 DEF Inv, TypeOK
<1>4. CallsInv'
  <2>1. pc'[p] = "UnsupportedSchemaVersion" => Upgraded
    BY <1>3 DEF Inv, FileInv, NewerIsUpgraded
  <2> QED BY <1>1, <1>3, <2>1, CallsUnchanged, SchemaFacts DEF UnderWay
<1>5. NewerStaysMarked'
  BY <1>1, <1>3, MarkUnchanged, FileUnchanged DEF Inv, file
<1> QED BY <1>1, <1>2, <1>4, <1>5, FileUnchanged DEF Inv

\* A call that ends with an error that its own statement did not cause alone, or that goes
\* on, while everything but its program counter stays as it is.
LEMMA MovePreserves ==
    ASSUME Inv, NEW p \in Processes, NEW next, MovesTo(p, next), pc[p] # "opened",
           next \in (UnderWay \ {"create"}) \union Endings,
           next \in (UnderWay \ {"create"}) \union {"opened"} => Objects \subseteq DOMAIN objects,
           ~Upgraded =>
             /\ next \in {"probe_archives", "set_version", "opened"} => Selectable("consumers")
             /\ next \in {"set_version", "opened"} => Selectable("archived_deliveries"),
           next = "set_version" => found[p] < VERSION,
           next = "IncompatibleSchema" =>
             (\E o \in DOMAIN objects : objects[o] = "obsolete") \/ Upgraded,
           next = "Sqlx" =>
             (\E o \in DOMAIN objects : objects[o] = "unindexable") \/ Upgraded,
           next # "UnsupportedSchemaVersion"
    PROVE  Inv'
<1>1. pc' = [pc EXCEPT ![p] = next] /\ UNCHANGED <<file, found, statement, failed>>
  BY DEF MovesTo, To
<1>2. pc'[p] = next /\ \A q \in Processes \ {p} : pc'[q] = pc[q]
  BY <1>1 DEF Inv, TypeOK
<1>3. TypeOK'
  BY <1>1, FileUnchanged DEF Inv, FileInv, TypeOK, Endings, UnderWay
<1>4. CallsInv'
  <2>1. next # "create"
    BY DEF UnderWay, Endings
  <2> QED BY <1>1, <1>2, <2>1, CallsUnchanged
<1>5. NewerStaysMarked'
  BY <1>1, <1>2, MarkUnchanged, FileUnchanged DEF Inv, file
<1> QED BY <1>1, <1>3, <1>4, <1>5, FileUnchanged DEF Inv

\* A statement creates what is not there, and nothing else.
LEMMA CreatesPreserves ==
    ASSUME Inv, NEW p \in Processes, pc[p] = "create", Creates(p),
           ~Unindexable(Schema[statement[p]])
    PROVE  Inv'
<1> DEFINE o == Schema[statement[p]]
<1>1. statement[p] \in 1 .. 11 /\ o \in Objects
  BY SchemaFacts DEF Inv, TypeOK
<1>2. /\ objects' = [x \in DOMAIN objects \union {o} |->
                       IF x \in DOMAIN objects THEN objects[x] ELSE "current"]
      /\ statement' = [statement EXCEPT ![p] = @ + 1]
      /\ pc' = [pc EXCEPT ![p] = IF statement[p] = 11 THEN "probe_consumers" ELSE "create"]
      /\ UNCHANGED <<user_version, found, failed>>
  BY SchemaFacts DEF Creates, To
<1> HIDE DEF o
<1>3. /\ DOMAIN objects' = DOMAIN objects \union {o}
      /\ \A x \in DOMAIN objects : objects'[x] = objects[x]
      /\ o \notin DOMAIN objects => objects'[o] = "current"
  BY <1>2
<1>4. Upgraded' = Upgraded
  BY <1>3 DEF Upgraded
<1>5. FileInv'
  <2>1. /\ DOMAIN objects' \subseteq Objects
        /\ \A x \in DOMAIN objects' :
             objects'[x] \in {"current", "newer", "obsolete", "unindexable", "unprobed"}
    BY <1>1, <1>3 DEF Inv, FileInv
  <2>2. VersionIsTrue'
    BY <1>1, <1>2, <1>3, <1>4 DEF Inv, FileInv, VersionIsTrue, Complete
  <2>3. KindsAreKnown' /\ NewerIsUpgraded'
    BY <1>2, <1>3, <1>4 DEF Inv, FileInv, KindsAreKnown, NewerIsUpgraded
  <2>4. UnindexableHasNone'
    <3> SUFFICES ASSUME NEW x \in Indexes \intersect DOMAIN objects',
                        TableOf[x] \in DOMAIN objects', objects'[TableOf[x]] = "unindexable"
                 PROVE  FALSE
      BY DEF UnindexableHasNone
    <3>1. TableOf[x] \in DOMAIN objects /\ objects[TableOf[x]] = "unindexable"
      BY <1>3
    <3>2. x \notin DOMAIN objects
      BY <3>1 DEF Inv, FileInv, UnindexableHasNone
    <3>3. x = o
      BY <1>3, <3>2
    <3> QED BY <3>1, <3>2, <3>3 DEF Unindexable, o
  <2> QED BY <1>2, <2>1, <2>2, <2>3, <2>4 DEF Inv, FileInv
<1>6. TypeOK'
  <2>1. pc' \in [Processes -> Endings \union UnderWay \union {"closed"}]
    BY <1>2 DEF Inv, TypeOK, UnderWay
  <2>2. /\ statement' \in [Processes -> 1 .. Len(Schema) + 1]
        /\ \A q \in Processes : pc'[q] = "create" => statement'[q] <= Len(Schema)
    BY <1>1, <1>2, SchemaFacts DEF Inv, TypeOK
  <2> QED BY <1>2, <1>5, <2>1, <2>2 DEF Inv, TypeOK, FileInv
<1>7. MadeIsThere'
  <2> SUFFICES ASSUME NEW q \in Processes
               PROVE  /\ pc'[q] = "create" =>
                           \A i \in 1 .. 11 : i < statement'[q] => Schema[i] \in DOMAIN objects'
                      /\ pc'[q] \in (UnderWay \ {"create"}) \union {"opened"} =>
                           Objects \subseteq DOMAIN objects'
    BY SchemaFacts DEF MadeIsThere
  <2>1. CASE q # p
    BY <1>2, <1>3, <2>1, SchemaFacts DEF Inv, TypeOK, CallsInv, MadeIsThere
  <2>2. CASE q = p
    <3>1. \A i \in 1 .. 11 : i < statement[p] + 1 => Schema[i] \in DOMAIN objects'
      BY <1>1, <1>3, SchemaFacts DEF Inv, CallsInv, MadeIsThere, o
    <3>2. statement'[p] = statement[p] + 1
      BY <1>2 DEF Inv, TypeOK
    <3>3. pc'[p] \in (UnderWay \ {"create"}) \union {"opened"} => statement[p] = 11
      BY <1>2 DEF Inv, TypeOK
    <3> QED BY <2>2, <3>1, <3>2, <3>3, SchemaFacts
  <2> QED BY <2>1, <2>2
<1>8. ProbedIsSelectable'
  BY <1>2, <1>3, <1>4 DEF Inv, TypeOK, CallsInv, ProbedIsSelectable, Selectable
<1>9. MarksAreOwed'
  BY <1>2 DEF Inv, TypeOK, CallsInv, MarksAreOwed
<1>10. RefusalsAreTrue'
  BY <1>2, <1>3, <1>4 DEF Inv, TypeOK, CallsInv, RefusalsAreTrue
<1>11. NewerStaysMarked'
  <2>1. \A q \in Processes \ {p} : pc'[q] = pc[q] /\ found'[q] = found[q]
    BY <1>2 DEF Inv, TypeOK
  <2> QED BY <1>2, <1>4, <2>1, MarkUnchanged DEF Inv
<1> QED BY <1>5, <1>6, <1>7, <1>8, <1>9, <1>10, <1>11 DEF Inv, CallsInv

\* It fails only at a table that no index can be on, or at what a newer release made.
LEMMA CreatePreserves ==
    ASSUME Inv, NEW p \in Processes, Create(p)
    PROVE  Inv'
<1> DEFINE o == Schema[statement[p]]
<1>1. pc[p] = "create"
  BY DEF Create
<1>2. CASE ~Unindexable(o) /\ Creates(p)
  BY <1>1, <1>2, CreatesPreserves
<1>3. CASE (Unindexable(o) \/ Newer(o)) /\ MovesTo(p, "Sqlx")
  <2>1. (\E x \in DOMAIN objects : objects[x] = "unindexable") \/ Upgraded
    BY <1>3 DEF Unindexable, Newer, Upgraded
  <2> QED BY <1>1, <1>3, <2>1, MovePreserves DEF Endings, UnderWay
<1> QED BY <1>2, <1>3 DEF Create

\* A table that was created and cannot be selected from is obsolete, or newer.
LEMMA Unselectable ==
    ASSUME Inv, Objects \subseteq DOMAIN objects, ~Upgraded,
           NEW t \in {"consumers", "archived_deliveries"}, ~Selectable(t)
    PROVE  objects[t] = "obsolete" /\ t \in DOMAIN objects
<1>1. t \in Tables /\ t \in DOMAIN objects /\ objects[t] \in {"obsolete", "unindexable"}
  BY SchemaFacts DEF Selectable
<1>2. ASSUME objects[t] = "unindexable" PROVE FALSE
  <2>1. objects[t] \in Lacking[t]
    BY <1>1, <1>2 DEF Inv, FileInv, KindsAreKnown
  <2>2. t # "consumers"
    BY <1>2, <2>1, LackingFacts
  <2>3. PICK o \in Indexes : TableOf[o] = t
    BY <1>1, <2>2, LackingFacts
  <2>4. o \in DOMAIN objects
    BY SchemaFacts
  <2> QED BY <1>1, <1>2, <2>3, <2>4 DEF Inv, FileInv, UnindexableHasNone
<1> QED BY <1>1, <1>2

\* A file with every object whose probed tables can be selected from is complete.
LEMMA SelectableIsComplete ==
    ASSUME Inv, ~Upgraded, Objects \subseteq DOMAIN objects,
           Selectable("consumers"), Selectable("archived_deliveries")
    PROVE  Complete
<1>1. DOMAIN objects = Objects
  BY DEF Inv, FileInv
<1>2. ASSUME NEW o \in Objects PROVE objects[o] \in {"current", "unprobed"}
  <2>1. CASE objects[o] = "current"
    BY <2>1
  <2>2. CASE o \in Tables /\ objects[o] \in Lacking[o]
    <3>1. objects[o] \in {"unindexable", "obsolete", "unprobed"}
      BY <2>2, LackingFacts
    <3>2. objects[o] # "obsolete"
      BY <2>2, LackingFacts DEF Selectable
    <3>3. CASE o = "consumers"
      BY <3>1, <3>2, <3>3 DEF Selectable
    <3>4. CASE o # "consumers"
      <4>1. PICK x \in Indexes : TableOf[x] = o
        BY <2>2, <3>4, LackingFacts
      <4>2. x \in DOMAIN objects
        BY SchemaFacts
      <4>3. objects[o] # "unindexable"
        BY <1>1, <4>1, <4>2 DEF Inv, FileInv, UnindexableHasNone
      <4> QED BY <3>1, <3>2, <4>3
    <3> QED BY <3>3, <3>4
  <2> QED BY <1>1, <2>1, <2>2 DEF Inv, FileInv, KindsAreKnown
<1> QED BY <1>1, <1>2 DEF Complete

\* The first probe refuses what is obsolete.
LEMMA ProbeConsumersPreserves ==
    ASSUME Inv, NEW p \in Processes, ProbeConsumers(p)
    PROVE  Inv'
<1>1. pc[p] = "probe_consumers" /\ Objects \subseteq DOMAIN objects
  BY DEF ProbeConsumers, Inv, CallsInv, MadeIsThere, UnderWay
<1>2. CASE Selectable("consumers") /\ MovesTo(p, "probe_archives")
  BY <1>1, <1>2, MovePreserves DEF UnderWay
<1>3. CASE (~Selectable("consumers") \/ Newer("consumers")) /\ MovesTo(p, "IncompatibleSchema")
  <2>1. (\E o \in DOMAIN objects : objects[o] = "obsolete") \/ Upgraded
    BY <1>1, <1>3, Unselectable DEF Newer, Upgraded
  <2> QED BY <1>1, <1>3, <2>1, MovePreserves DEF Endings, UnderWay
<1> QED BY <1>2, <1>3 DEF ProbeConsumers, Probe

\* The second one too, and then the version is written if it was an older one.
LEMMA ProbeArchivesPreserves ==
    ASSUME Inv, NEW p \in Processes, ProbeArchives(p)
    PROVE  Inv'
<1>1. /\ pc[p] = "probe_archives" /\ Objects \subseteq DOMAIN objects
      /\ Upgraded \/ Selectable("consumers")
  BY DEF ProbeArchives, Inv, CallsInv, MadeIsThere, ProbedIsSelectable, UnderWay
<1>2. CASE Selectable("archived_deliveries") /\ MovesTo(p, AfterProbes(p))
  <2>1. /\ AfterProbes(p) \in {"set_version", "opened"}
        /\ AfterProbes(p) = "set_version" => found[p] < VERSION
    BY DEF AfterProbes
  <2> QED BY <1>1, <1>2, <2>1, MovePreserves DEF UnderWay, Endings
<1>3. CASE /\ ~Selectable("archived_deliveries") \/ Newer("archived_deliveries")
           /\ MovesTo(p, "IncompatibleSchema")
  <2>1. (\E o \in DOMAIN objects : objects[o] = "obsolete") \/ Upgraded
    BY <1>1, <1>3, Unselectable DEF Newer, Upgraded
  <2> QED BY <1>1, <1>3, <2>1, MovePreserves DEF Endings, UnderWay
<1> QED BY <1>2, <1>3 DEF ProbeArchives, Probe

\* The version is written to a file that was probed, or that a newer release has meanwhile.
LEMMA SetVersionPreserves ==
    ASSUME Inv, NEW p \in Processes, SetVersion(p)
    PROVE  Inv'
<1>1. /\ pc[p] = "set_version" /\ user_version' = VERSION
      /\ pc' = [pc EXCEPT ![p] = "opened"]
      /\ UNCHANGED <<objects, found, statement, failed>>
  BY DEF SetVersion, To
<1>2. Complete \/ Upgraded
  BY <1>1, SelectableIsComplete
     DEF Inv, CallsInv, MadeIsThere, ProbedIsSelectable, UnderWay
<1>3. Upgraded' = Upgraded
  BY <1>1 DEF Upgraded
<1>4. pc'[p] = "opened" /\ \A q \in Processes \ {p} : pc'[q] = pc[q]
  BY <1>1 DEF Inv, TypeOK
<1>5. TypeOK'
  BY <1>1 DEF Inv, TypeOK, Endings, VERSION
<1>6. FileInv'
  BY <1>1, <1>2, <1>3 DEF Inv, FileInv, VersionIsTrue, Complete, KindsAreKnown,
                          UnindexableHasNone, NewerIsUpgraded, VERSION
<1>7. MadeIsThere'
  BY <1>1, <1>4 DEF Inv, CallsInv, MadeIsThere, UnderWay
<1>8. ProbedIsSelectable'
  BY <1>1, <1>3, <1>4 DEF Inv, CallsInv, ProbedIsSelectable, Selectable
<1>9. MarksAreOwed' /\ RefusalsAreTrue'
  BY <1>1, <1>3, <1>4 DEF Inv, CallsInv, MarksAreOwed, RefusalsAreTrue
<1>10. NewerStaysMarked'
  BY <1>1, <1>4 DEF Inv, CallsInv, MarksAreOwed, NewerStaysMarked
<1> QED BY <1>5, <1>6, <1>7, <1>8, <1>9, <1>10 DEF Inv, CallsInv

\* A call that lost a statement, or that is abandoned, ends.
LEMMA FaultPreserves ==
    ASSUME Inv, NEW p \in Processes, StatementFails(p) \/ Abandon(p)
    PROVE  Inv'
<1>1. /\ pc[p] # "opened" /\ failed' = failed \union {p}
      /\ UNCHANGED <<file, found, statement>>
      /\ \E next \in {"IncompatibleSchema", "Sqlx", "abandoned"} :
           pc' = [pc EXCEPT ![p] = next]
  BY DEF StatementFails, Abandon, Fault, To, UnderWay
<1>2. PICK next \in {"IncompatibleSchema", "Sqlx", "abandoned"} :
        pc' = [pc EXCEPT ![p] = next]
  BY <1>1
<1>3. pc'[p] = next /\ \A q \in Processes \ {p} : pc'[q] = pc[q]
  BY <1>2 DEF Inv, TypeOK
<1>4. TypeOK'
  BY <1>1, <1>2, FileUnchanged DEF Inv, FileInv, TypeOK, Endings, UnderWay
<1>5. CallsInv'
  BY <1>1, <1>3, CallsUnchanged DEF UnderWay
<1>6. NewerStaysMarked'
  BY <1>1, <1>3, MarkUnchanged, FileUnchanged DEF Inv, file
<1> QED BY <1>1, <1>4, <1>5, <1>6, FileUnchanged DEF Inv

\* A newer release makes something of every table and index.
LEMMA UpgradePreserves ==
    ASSUME Inv, Upgrade
    PROVE  Inv'
<1>1. /\ user_version' = VERSION + 1 /\ objects' = [o \in Objects |-> "newer"]
      /\ UNCHANGED <<pc, found, statement, failed>>
  BY DEF Upgrade
<1>2. Upgraded'
  BY <1>1, SchemaFacts DEF Upgraded
<1>3. FileInv'
  BY <1>1, <1>2 DEF FileInv, VersionIsTrue, KindsAreKnown, UnindexableHasNone, NewerIsUpgraded,
                    VERSION
<1>4. TypeOK'
  BY <1>1, <1>3 DEF Inv, TypeOK, FileInv
<1>5. MadeIsThere'
  BY <1>1, SchemaFacts DEF MadeIsThere
<1>6. ProbedIsSelectable' /\ RefusalsAreTrue'
  BY <1>2 DEF ProbedIsSelectable, RefusalsAreTrue
<1>7. MarksAreOwed' /\ NewerStaysMarked'
  BY <1>1 DEF Inv, CallsInv, MarksAreOwed, NewerStaysMarked, VERSION
<1> QED BY <1>3, <1>4, <1>5, <1>6, <1>7 DEF Inv, CallsInv

\* No step of a process or of a newer release breaks the invariant.
LEMMA StepPreserves == Inv /\ [Next]_vars => Inv'
<1> SUFFICES ASSUME Inv, [Next]_vars PROVE Inv'
  OBVIOUS
<1>1. CASE UNCHANGED vars
  <2>1. UNCHANGED <<file, pc, found, statement, failed>>
    BY <1>1 DEF vars
  <2>2. FileInv' /\ Upgraded' = Upgraded /\ UNCHANGED <<objects, user_version>>
    BY <2>1, FileUnchanged DEF Inv, file
  <2>3. TypeOK' /\ NewerStaysMarked'
    BY <2>1, <2>2 DEF Inv, TypeOK, NewerStaysMarked
  <2>4. CallsInv'
    BY <2>1, <2>2 DEF Inv, CallsInv, RefusalsAreTrue, MadeIsThere, ProbedIsSelectable,
                      MarksAreOwed, Selectable
  <2> QED BY <2>2, <2>3, <2>4 DEF Inv
<1>2. CASE Next
  BY <1>2, ReadVersionPreserves, CreatePreserves, ProbeConsumersPreserves,
     ProbeArchivesPreserves, SetVersionPreserves, FaultPreserves, UpgradePreserves
     DEF Next, Continue
<1> QED BY <1>1, <1>2

-----------------------------------------------------------------------------

\* The file, and what each process knows of it, at every step of any number of calls that
\* open it, lose statements and are abandoned, and of a newer release that migrates it.
THEOREM Invariance == Spec => []Inv
BY InitEstablishes, StepPreserves, PTL DEF Spec

\* The variables have their types; a call that creates has a statement to run.
THEOREM TypeCorrect == Spec => []TypeOK
<1>1. Inv => TypeOK
  BY DEF Inv
<1> QED BY <1>1, Invariance, PTL

\* A store that was opened has every table and index, in the shape of this release as far as
\* the probes and the indexes can tell, until a newer release takes it over.
THEOREM OpeningIsEnough == Spec => []OpenedIsComplete
<1>1. Inv => OpenedIsComplete
  <2> SUFFICES ASSUME Inv, NEW p \in Processes, pc[p] = "opened", ~Upgraded PROVE Complete
    BY DEF OpenedIsComplete
  <2> QED BY SelectableIsComplete DEF Inv, CallsInv, MadeIsThere, ProbedIsSelectable
<1> QED BY <1>1, Invariance, PTL

\* The file is marked with the version only when it is complete.
THEOREM MarkedIsComplete == Spec => []VersionIsTrue
<1>1. Inv => VersionIsTrue
  BY DEF Inv, FileInv
<1> QED BY <1>1, Invariance, PTL

\* A call that loses no statement of its own is refused only for what is in the file, never
\* for what other calls do, lose or leave behind.
THEOREM NoSpuriousRefusal == Spec => []RefusalsAreTrue
<1>1. Inv => RefusalsAreTrue
  BY DEF Inv, CallsInv
<1> QED BY <1>1, Invariance, PTL

\* A newer release that migrates the file under calls of this one loses its mark only to a
\* call that had read the version when the file was not yet marked with this one's.
THEOREM NewerIsUnmarkedByOldReaders == Spec => []NewerStaysMarked
<1>1. Inv => NewerStaysMarked
  BY DEF Inv
<1> QED BY <1>1, Invariance, PTL
=============================================================================
