---------------------------- MODULE StartupProofs ----------------------------
(* That a start finds or makes the tables its build needs, and wipes only   *)
(* what it may, for every set of images, those that do not mind the version *)
(* included, every set of rows and any number of kills.                     *)
EXTENDS Startup, StoreProofs

\* The place of each step in the order of the code.
LEMMA Places ==
  /\ Doing("config") <=> at = 1
  /\ Doing("version") <=> at = 2
  /\ Doing("connect") <=> at = 3
  /\ Doing("drop releases") <=> at = 4
  /\ Doing("drop jobs") <=> at = 5
  /\ Doing("create releases") <=> at = 6
  /\ Doing("create jobs") <=> at = 7
  /\ Doing("stamp") <=> at = 8
<1>1. /\ Steps[1] = "config" /\ Steps[2] = "version" /\ Steps[3] = "connect"
      /\ Steps[4] = "drop releases" /\ Steps[5] = "drop jobs"
      /\ Steps[6] = "create releases" /\ Steps[7] = "create jobs" /\ Steps[8] = "stamp"
  BY DEF Steps
<1>2. Up <=> at = 1 \/ at = 2 \/ at = 3 \/ at = 4 \/ at = 5 \/ at = 6 \/ at = 7 \/ at = 8
  BY DEF Up
<1>3. Doing("config") <=> at = 1
  BY <1>1, <1>2 DEF Doing
<1>4. Doing("version") <=> at = 2
  BY <1>1, <1>2 DEF Doing
<1>5. Doing("connect") <=> at = 3
  BY <1>1, <1>2 DEF Doing
<1>6. Doing("drop releases") <=> at = 4
  BY <1>1, <1>2 DEF Doing
<1>7. Doing("drop jobs") <=> at = 5
  BY <1>1, <1>2 DEF Doing
<1>8. Doing("create releases") <=> at = 6
  BY <1>1, <1>2 DEF Doing
<1>9. Doing("create jobs") <=> at = 7
  BY <1>1, <1>2 DEF Doing
<1>10. Doing("stamp") <=> at = 8
  BY <1>1, <1>2 DEF Doing
<1> QED BY <1>3, <1>4, <1>5, <1>6, <1>7, <1>8, <1>9, <1>10

\* The table a DROP or CREATE is about says at which step it runs.
LEMMA TablePlaces ==
  ASSUME NEW t \in Tables
  PROVE  /\ Drop(t) => at = IF t = "jobs" THEN 5 ELSE 4
         /\ Create(t) => at = IF t = "jobs" THEN 7 ELSE 6
<1>1. CASE t = "jobs"
  BY <1>1, Places DEF Drop, Create
<1>2. CASE t # "jobs"
  BY <1>2, Places DEF Drop, Create
<1> QED BY <1>1, <1>2

\* A step of the program takes the process to the next one, and only the stamp
\* leads to service.
LEMMA AdvanceOn ==
  ASSUME NEW passed, Advance(passed), at \in 1..8
  PROVE  /\ at' = at + 1
         /\ at = 8 => promised' = Known(rows') /\ owner' = image /\ accepted' = {}
         /\ at < 8 => promised' = promised /\ owner' = owner /\ accepted' = accepted \cup passed
BY DEF Advance, Serving

-----------------------------------------------------------------------------
(* Rows.                                                                     *)

\* Until another build passes the checks, the database is as the last serving
\* process left it and its callers know it: its version is that process's build,
\* if it minds the version, so that no start of the same build migrates.  No
\* transaction is open before the process serves.
RowsInv ==
  /\ at \in 0..9
  /\ StoreTypeOK
  /\ IF at = 9 THEN StoreInv ELSE Quiet
  /\ accepted \subseteq {owner, 0} => Stands(rows) /\ (owner # 0 => version = owner)
  /\ at \in 3..8 => image \in accepted
  /\ at \in 4..8 /\ accepted \subseteq {owner, 0} => ~migrates
  /\ at \in 4..8 => image = 0 \/ migrates \/ version = image
  /\ at = 9 => accepted = {} /\ owner = image

\* Steps of a start that change neither table nor connection.
LEMMA RowsRest ==
  ASSUME StoreTypeOK, Quiet, UNCHANGED <<rows, connection, promised>>
  PROVE  StoreTypeOK' /\ Quiet' /\ (Stands(rows) => Stands(rows)')
BY DEF StoreTypeOK, Quiet, connection, Stands

\* Nothing has been accepted on a database found.
LEMMA RowsInit == Init => RowsInv
<1> SUFFICES ASSUME Init PROVE RowsInv
  OBVIOUS
<1>1. rows \in Contents
  BY DEF Init, Contents
<1>2. Stands(rows) /\ promised \in [Tables -> [Rows -> {"in", "out", "open"}]]
  BY <1>1, KnownStands DEF Init
<1>3. StoreTypeOK
  BY <1>1, <1>2 DEF Init, Quiet, NoWrites, StoreTypeOK
<1> QED BY <1>2, <1>3 DEF Init, RowsInv

\* Serving keeps the store's invariant: every statement is one of Store's.
LEMMA ServeKeeps ==
  ASSUME StoreInv, NEW t \in Threads, Serve(t)
  PROVE  StoreInv'
<1>1. ASSUME NEW k \in Rows, PutRelease(t, k) PROVE StoreInv'
  <2>1. [table |-> "releases", keys |-> {k}, puts |-> TRUE] \in Writes
    BY DEF Writes, Tables
  <2> QED BY <1>1, <2>1, ExecuteKeeps DEF PutRelease
<1>2. ASSUME NEW old \in SUBSET Rows, PurgeReleases(t, old) PROVE StoreInv'
  <2>1. [table |-> "releases", keys |-> old, puts |-> FALSE] \in Writes
    BY DEF Writes, Tables
  <2> QED BY <1>2, <2>1, ExecuteKeeps DEF PurgeReleases
<1>3. ASSUME NEW k \in Rows, AddJob(t, k) PROVE StoreInv'
  <2>1. [table |-> "jobs", keys |-> {k}, puts |-> TRUE] \in Writes
    BY DEF Writes, Tables
  <2> QED BY <1>3, <2>1, ExecuteKeeps DEF AddJob
<1>4. ASSUME NEW k \in Rows, RemoveJob(t, k) PROVE StoreInv'
  <2>1. [table |-> "jobs", keys |-> {k}, puts |-> FALSE] \in Writes
    BY DEF Writes, Tables
  <2> QED BY <1>4, <2>1, ExecuteKeeps DEF RemoveJob
<1>5. CASE StatementFails(t)
  BY <1>5, FailureKeeps
<1>6. CASE Commit(t)
  BY <1>6, CommitKeeps
<1>7. CASE CommitFails(t)
  BY <1>7, CommitFailureKeeps
<1> QED BY <1>1, <1>2, <1>3, <1>4, <1>5, <1>6, <1>7 DEF Serve

\* Every step of a start or of service keeps the rows accounted for.
LEMMA RowsStep == RowsInv /\ [Next]_vars => RowsInv'
<1> SUFFICES ASSUME RowsInv, [Next]_vars PROVE RowsInv'
  OBVIOUS
<1>1. ASSUME NEW b \in Builds, Launch(b) PROVE RowsInv'
  <2>1. at = 0 /\ at' = 1 /\ UNCHANGED <<database, connection, history>>
    BY <1>1 DEF Launch
  <2>2. StoreTypeOK' /\ Quiet' /\ (Stands(rows) => Stands(rows)')
    BY <2>1, RowsRest DEF RowsInv, database, history
  <2> QED BY <2>1, <2>2 DEF RowsInv, database, history
<1>2. CASE Exit
  <2>1. /\ at' = 0 /\ Close
        /\ UNCHANGED <<version, layout, image, migrates, torn, owner, accepted>>
    BY <1>2 DEF Exit
  <2>2. StoreTypeOK' /\ Quiet' /\ (Stands(rows) => Stands(rows)')
    BY <2>1 DEF RowsInv, Close, StoreTypeOK, Quiet, NoWrites, Stands, connection
  <2> QED BY <2>1, <2>2 DEF RowsInv
<1>3. CASE CheckConfig
  <2>1. at = 1 /\ UNCHANGED <<database, connection, image, migrates>> /\ (Refuse \/ Advance({}))
    BY <1>3, Places DEF CheckConfig
  <2>2. /\ at' \in {0, 2}
        /\ promised' = promised /\ owner' = owner /\ accepted' = accepted
    BY <2>1, AdvanceOn DEF Refuse
  <2>3. StoreTypeOK' /\ Quiet' /\ (Stands(rows) => Stands(rows)')
    BY <2>1, <2>2, RowsRest DEF RowsInv, database
  <2> QED BY <2>1, <2>2, <2>3 DEF RowsInv, database
<1>4. CASE CheckVersion
  <2>1. at = 2 /\ UNCHANGED <<database, connection, image, migrates>> /\ (Refuse \/ Advance({image}))
    BY <1>4, Places DEF CheckVersion
  <2>2. /\ promised' = promised /\ owner' = owner
        /\ \/ at' = 0 /\ accepted' = accepted
           \/ at' = 3 /\ accepted' = accepted \cup {image}
    BY <2>1, AdvanceOn DEF Refuse
  <2>3. StoreTypeOK' /\ Quiet' /\ (Stands(rows) => Stands(rows)')
    BY <2>1, <2>2, RowsRest DEF RowsInv, database
  <2> QED BY <2>1, <2>2, <2>3 DEF RowsInv, database
<1>5. CASE Connect
  <2>1. /\ at = 3 /\ migrates' = (image # 0 /\ version # image)
        /\ UNCHANGED <<database, connection, image>>
    BY <1>5, Places DEF Connect
  <2>2. at' = 4 /\ owner' = owner /\ promised' = promised /\ accepted' = accepted
    BY <1>5, <2>1, AdvanceOn DEF Connect
  <2>3. accepted \subseteq {owner, 0} => image = 0 \/ version = image
    BY <2>1 DEF RowsInv
  <2>4. /\ accepted' \subseteq {owner', 0} => ~migrates'
        /\ image' = 0 \/ migrates' \/ version' = image'
    BY <2>1, <2>2, <2>3 DEF database
  <2>5. StoreTypeOK' /\ Quiet' /\ (Stands(rows) => Stands(rows)')
    BY <2>1, <2>2, RowsRest DEF RowsInv, database
  <2> QED BY <2>1, <2>2, <2>4, <2>5 DEF RowsInv, database
<1>6. ASSUME NEW c \in Tables, Drop(c) PROVE RowsInv'
  <2>1. /\ at \in {4, 5} /\ UNCHANGED <<version, lock, writing, image, migrates>>
        /\ rows' = IF migrates THEN [rows EXCEPT ![c] = {}] ELSE rows
        /\ view' = rows'
    BY <1>6, TablePlaces DEF Drop
  <2>2. Advance({})
    BY <1>6 DEF Drop
  <2>3. at' = at + 1 /\ owner' = owner /\ promised' = promised /\ accepted' = accepted
    BY <2>1, <2>2, AdvanceOn
  <2>4. rows' \in Contents
    BY <2>1 DEF RowsInv, StoreTypeOK, Contents
  <2>5. StoreTypeOK' /\ Quiet' /\ (~migrates /\ Stands(rows) => Stands(rows)')
    BY <2>1, <2>3, <2>4 DEF RowsInv, StoreTypeOK, Quiet, Stands
  <2> QED BY <2>1, <2>3, <2>5 DEF RowsInv
<1>7. ASSUME NEW c \in Tables, Create(c) PROVE RowsInv'
  <2>1. at \in {6, 7} /\ UNCHANGED <<version, rows, connection, image, migrates>>
    BY <1>7, TablePlaces DEF Create
  <2>2. Advance({})
    BY <1>7 DEF Create
  <2>3. at' = at + 1 /\ owner' = owner /\ promised' = promised /\ accepted' = accepted
    BY <2>1, <2>2, AdvanceOn
  <2>4. StoreTypeOK' /\ Quiet' /\ (Stands(rows) => Stands(rows)')
    BY <2>1, <2>3, RowsRest DEF RowsInv
  <2> QED BY <2>1, <2>3, <2>4 DEF RowsInv
<1>8. CASE Stamp
  <2>1. /\ at = 8 /\ version' = (IF image = 0 THEN version ELSE image)
        /\ UNCHANGED <<rows, connection, image>>
    BY <1>8, Places DEF Stamp
  <2>2. at' = 9 /\ owner' = image /\ promised' = Known(rows') /\ accepted' = {}
    BY <1>8, <2>1, AdvanceOn DEF Stamp
  <2>3. rows' \in Contents
    BY <2>1 DEF RowsInv, StoreTypeOK
  <2>4. Stands(rows)' /\ promised' \in [Tables -> [Rows -> {"in", "out", "open"}]]
    BY <2>2, <2>3 DEF Known, Stands
  <2>5. StoreTypeOK' /\ Quiet'
    BY <2>1, <2>3, <2>4 DEF RowsInv, StoreTypeOK, Quiet, connection
  <2>6. StoreInv'
    BY <2>4, <2>5 DEF StoreInv, Quiet, Locked, Executed, NoWrites, Stands
  <2> QED BY <2>1, <2>2, <2>4, <2>5, <2>6 DEF RowsInv
<1>9. ASSUME NEW t \in Threads, Serve(t) PROVE RowsInv'
  <2>1. /\ at = 9
        /\ UNCHANGED <<version, layout, process, torn, owner, accepted>>
    BY <1>9 DEF Serve, Serving
  <2>2. StoreInv'
    BY <1>9, <2>1, ServeKeeps DEF RowsInv
  <2> QED BY <2>1, <2>2 DEF RowsInv, StoreInv, process
<1>10. CASE UNCHANGED vars
  BY <1>10 DEF RowsInv, StoreInv, StoreTypeOK, Quiet, Locked, Executed, Stands,
               vars, database, connection, process, history
<1> QED
  BY <1>1, <1>2, <1>3, <1>4, <1>5, <1>6, <1>7, <1>8, <1>9, <1>10 DEF Next

\* No restart of the build that served loses or brings back a row its callers
\* were told of, and neither does a start that is refused (KeepsRows).
THEOREM RowsKept == Spec => []KeepsRows
<1>1. RowsInv => KeepsRows
  BY DEF RowsInv, KeepsRows
<1> QED BY <1>1, RowsInit, RowsStep, PTL DEF Spec

\* However threads interleave and whichever of their statements and commits
\* fail, a read never contradicts a call that returned (ReadsStand).
THEOREM ReadsTrue == Spec => []ReadsStand
<1>1. RowsInv => ReadsStand
  BY DEF RowsInv, ReadsStand, StoreInv, Serving
<1> QED BY <1>1, RowsInit, RowsStep, PTL DEF Spec

-----------------------------------------------------------------------------
(* Layouts.                                                                  *)

\* The version vouches for the tables there are, unless a start that migrates
\* has torn them, and for both once it is stamped; from the drop of a table on,
\* what a start that migrates finds is its own.
LayoutInv ==
  /\ at \in 0..9
  /\ DOMAIN layout \subseteq Tables
  /\ torn = 0 => /\ \A t \in DOMAIN layout : layout[t] = version
                 /\ version # 0 => DOMAIN layout = Tables
  /\ at \in 4..8 => IF migrates THEN image # 0 /\ torn = image
                    ELSE image = 0 \/ version = image
  /\ at = 5 /\ migrates => "releases" \notin DOMAIN layout
  /\ at \in 6..8 /\ migrates => \A t \in DOMAIN layout : layout[t] = image
  /\ at \in 7..9 => "releases" \in DOMAIN layout
  /\ at \in 8..9 => "jobs" \in DOMAIN layout
  /\ at = 9 => image = 0 \/ version = image

\* What a start finds was made by the version it carries.
LEMMA LayoutInit == Init => LayoutInv
BY DEF Init, LayoutInv

\* A DROP or CREATE moves on to the next step, and touches neither the version
\* nor the process's locals.
LEMMA TableStep ==
  ASSUME NEW t \in Tables, Drop(t) \/ Create(t)
  PROVE  at \in 4..7 /\ at' = at + 1 /\ UNCHANGED <<version, image, migrates, torn>>
<1>1. Advance({}) /\ UNCHANGED <<version, image, migrates, torn>>
  BY DEF Drop, Create
<1>2. at \in 4..7
  BY TablePlaces
<1> QED BY <1>1, <1>2, AdvanceOn

\* A DROP leaves nothing of another build once both are done.
LEMMA DropKeeps ==
  ASSUME LayoutInv, NEW t \in Tables, Drop(t)
  PROVE  LayoutInv'
<1>1. at \in {4, 5} /\ at' = at + 1 /\ UNCHANGED <<version, image, migrates, torn>>
  BY TablePlaces, TableStep
<1>2. CASE ~migrates
  <2>1. layout' = layout
    BY <1>2 DEF Drop
  <2> QED BY <1>1, <1>2, <2>1 DEF LayoutInv
<1>3. CASE migrates
  <2>1. image # 0 /\ torn = image
    BY <1>1, <1>3 DEF LayoutInv
  <2>2. DOMAIN layout' = DOMAIN layout \ {t}
    BY <1>3 DEF Drop
  <2>3. IF t = "jobs" THEN at = 5 /\ DOMAIN layout' = {}
                      ELSE at = 4 /\ "releases" \notin DOMAIN layout'
    BY <1>1, <1>3, <2>2, TablePlaces DEF LayoutInv, Tables
  <2> QED BY <1>1, <1>3, <2>1, <2>2, <2>3 DEF LayoutInv
<1> QED BY <1>2, <1>3

\* A CREATE adds a table of the process's build where there was none.
LEMMA CreateKeeps ==
  ASSUME LayoutInv, NEW t \in Tables, Create(t)
  PROVE  LayoutInv'
<1>1. at \in {6, 7} /\ at' = at + 1 /\ UNCHANGED <<version, image, migrates, torn>>
  BY TablePlaces, TableStep
<1>2. /\ DOMAIN layout' = DOMAIN layout \cup {t}
      /\ \A u \in DOMAIN layout' : layout'[u] = IF u \in DOMAIN layout THEN layout[u] ELSE image
  BY DEF Create
<1>3. IF t = "jobs" THEN at = 7 /\ "jobs" \in DOMAIN layout'
                    ELSE at = 6 /\ "releases" \in DOMAIN layout'
  BY <1>2, TablePlaces DEF Tables
<1>4. torn' = 0 => /\ \A u \in DOMAIN layout' : layout'[u] = version'
                   /\ version' # 0 => DOMAIN layout' = Tables
  <2>1. torn = 0 => ~migrates /\ (image = 0 \/ version = image)
    BY <1>1 DEF LayoutInv
  <2> QED BY <1>1, <1>2, <2>1 DEF LayoutInv
<1>5. migrates => \A u \in DOMAIN layout' : layout'[u] = image
  BY <1>1, <1>2 DEF LayoutInv
<1> QED BY <1>1, <1>2, <1>3, <1>4, <1>5 DEF LayoutInv

\* Every step keeps the layouts accounted for.
LEMMA LayoutStep == LayoutInv /\ [Next]_vars => LayoutInv'
<1> SUFFICES ASSUME LayoutInv, [Next]_vars PROVE LayoutInv'
  OBVIOUS
<1>1. ASSUME NEW b \in Builds, Launch(b) PROVE LayoutInv'
  BY <1>1 DEF LayoutInv, Launch, database, history
<1>2. CASE Exit
  BY <1>2 DEF LayoutInv, Exit
<1>3. CASE CheckConfig \/ CheckVersion
  <2>1. at \in {1, 2} /\ UNCHANGED <<database, torn>>
    BY <1>3, Places DEF CheckConfig, CheckVersion
  <2>2. Refuse \/ Advance({}) \/ Advance({image})
    BY <1>3 DEF CheckConfig, CheckVersion
  <2>3. at' \in {0, at + 1}
    BY <2>1, <2>2, AdvanceOn DEF Refuse
  <2> QED BY <2>1, <2>3 DEF LayoutInv, database
<1>4. CASE Connect
  <2>1. /\ at = 3 /\ UNCHANGED <<database, image>>
        /\ migrates' = (image # 0 /\ version # image)
        /\ torn' = IF migrates' THEN image ELSE torn
    BY <1>4, Places DEF Connect
  <2>2. at' = 4
    BY <1>4, <2>1, AdvanceOn DEF Connect
  <2>3. CASE image # 0 /\ version # image
    <3>1. migrates' /\ torn' = image /\ image # 0
      BY <2>1, <2>3
    <3> QED BY <2>1, <2>2, <3>1 DEF LayoutInv, database
  <2>4. CASE image = 0 \/ version = image
    <3>1. ~migrates' /\ torn' = torn
      BY <2>1, <2>4
    <3> QED BY <2>1, <2>2, <2>4, <3>1 DEF LayoutInv, database
  <2> QED BY <2>3, <2>4
<1>5. ASSUME NEW t \in Tables, Drop(t) PROVE LayoutInv'
  BY <1>5, DropKeeps
<1>6. ASSUME NEW t \in Tables, Create(t) PROVE LayoutInv'
  BY <1>6, CreateKeeps
<1>7. CASE Stamp
  <2>1. /\ at = 8 /\ UNCHANGED <<layout, image, migrates>>
        /\ version' = IF image = 0 THEN version ELSE image
        /\ torn' = IF migrates THEN 0 ELSE torn
    BY <1>7, Places DEF Stamp
  <2>2. at' = 9
    BY <1>7, <2>1, AdvanceOn DEF Stamp
  <2>3. DOMAIN layout = Tables
    BY <2>1 DEF LayoutInv, Tables
  <2>4. CASE migrates
    BY <2>1, <2>2, <2>3, <2>4 DEF LayoutInv
  <2>5. CASE ~migrates
    BY <2>1, <2>2, <2>3, <2>5 DEF LayoutInv
  <2> QED BY <2>4, <2>5
<1>8. ASSUME NEW t \in Threads, Serve(t) PROVE LayoutInv'
  BY <1>8 DEF LayoutInv, Serve, process
<1>9. CASE UNCHANGED vars
  BY <1>9 DEF LayoutInv, vars, database, process, history
<1> QED
  BY <1>1, <1>2, <1>3, <1>4, <1>5, <1>6, <1>7, <1>8, <1>9 DEF Next

\* Whichever images came up before it and however many of their starts were
\* killed, a process that minds the version serves on the tables of its build;
\* unless another build's migration was cut short and no start has migrated to
\* the end since (ServesOwnLayout).
THEOREM OwnLayout == Spec => []ServesOwnLayout
<1>1. LayoutInv => ServesOwnLayout
  BY DEF LayoutInv, ServesOwnLayout, MismatchRecreates, OwnLayouts, Tables, Serving
<1> QED BY <1>1, LayoutInit, LayoutStep, PTL DEF Spec
=============================================================================
