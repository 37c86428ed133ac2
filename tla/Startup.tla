------------------------------- MODULE Startup -------------------------------
(***************************************************************************)
(* How a process of the bridge comes up on the database an earlier one     *)
(* left: main.build_app's checks, then SqliteStore.__init__ with its       *)
(* migration, then service, for which Store has the steps.  A container    *)
(* may be killed between any two steps and started again, on the same      *)
(* image or on another.                                                    *)
(*                                                                         *)
(* A build stands for its SCHEMA_VERSION, and a table's layout is the      *)
(* build whose _DDL made it.  Build 0 stands for the images of before      *)
(* user_version was used: such an image creates the tables it misses and   *)
(* looks at nothing (docs/backlog.md:38-43).  Every statement commits by   *)
(* itself: neither DROP and CREATE under executescript nor PRAGMA open a   *)
(* transaction.                                                            *)
(***************************************************************************)
EXTENDS Naturals, Store

CONSTANT Builds   \* the images a user may run

ASSUME StartupAssumption == Builds \subseteq Nat

VARIABLES
  version,   \* PRAGMA user_version; 0 on a database no versioned build touched
  layout,    \* the tables there are -> the build whose columns they have
  at,        \* the step the process is at; 0: there is no process
  image,     \* its build, or that of the last process
  migrates,  \* local of __init__: the version read was another build's
  torn,      \* history: the build of the last start that migrated, until one that
             \* migrated is stamped; 0: none
  owner,     \* history: the build of the last process that served
  accepted   \* history: builds that passed the checks since that process

database == <<version, layout, rows>>
process == <<at, image, migrates>>
history == <<torn, promised, owner, accepted>>
vars == <<database, connection, process, history>>

StepsStoresFirst == <<"config", "connect", "drop releases", "drop jobs",
                      "create releases", "create jobs", "stamp", "version">>
StepsStampFirst == <<"config", "version", "connect", "stamp", "drop releases",
                     "drop jobs", "create releases", "create jobs">>
\* build_app, and within it SqliteStore.__init__, in the order of the code.
Steps == <<"config", "version", "connect", "drop releases", "drop jobs",
           "create releases", "create jobs", "stamp">>

Serving == 9
Up == at \in 1..8
Doing(step) == Up /\ Steps[at] = step

\* A new volume, or one written before user_version was used.
Init ==
  /\ version = 0
  /\ \/ /\ layout = [t \in {} |-> 0]
        /\ rows = [t \in Tables |-> {}]
     \/ /\ layout = [t \in Tables |-> 0]
        /\ rows \in [Tables -> SUBSET Rows]
  /\ at = 0 /\ image = 0 /\ migrates = FALSE
  /\ torn = 0 /\ owner = 0 /\ accepted = {}
  /\ Quiet /\ promised = Known(rows)

-----------------------------------------------------------------------------
(* The container.                                                            *)

Launch(b) ==
  /\ at = 0
  /\ at' = 1 /\ image' = b /\ migrates' = FALSE
  /\ UNCHANGED <<database, connection, history>>

\* The process is stopped or killed: what was committed stays.
Exit ==
  /\ at # 0
  /\ at' = 0
  /\ Close
  /\ UNCHANGED <<version, layout, image, migrates, torn, owner, accepted>>

\* The step under way is done, with it the check the builds passed stand for;
\* the last step of all leads to service.
Advance(passed) ==
  /\ at' = at + 1
  /\ IF at' = Serving
     THEN promised' = Known(rows') /\ owner' = image /\ accepted' = {}
     ELSE accepted' = accepted \cup passed /\ UNCHANGED <<promised, owner>>

\* The process gives up before the step is done.
Refuse == at' = 0 /\ UNCHANGED <<promised, owner, accepted>>

-----------------------------------------------------------------------------
(* build_app: two checks that may refuse to start.                           *)

\* Config.from_env: a variable is missing or malformed, or all is well.
CheckConfig ==
  /\ Doing("config")
  /\ UNCHANGED <<database, connection, image, migrates, torn>>
  /\ Advance({}) \/ Refuse

\* Only a version that was read, parses and is too old refuses the start.
TooOld(reported) == reported = "old"

CheckVersion ==
  /\ Doing("version")
  /\ UNCHANGED <<database, connection, image, migrates, torn>>
  /\ \E reported \in {"unreadable", "development", "old", "recent"} :
       IF TooOld(reported) THEN Refuse ELSE Advance({image})

-----------------------------------------------------------------------------
(* SqliteStore.__init__, one statement after the other.                      *)

\* _migrate: a version of another build; an image of before it has no _migrate.
Connect ==
  /\ Doing("connect")
  /\ migrates' = (image # 0 /\ version # image)
  /\ torn' = IF migrates' THEN image ELSE torn
  /\ UNCHANGED <<database, connection, image>>
  /\ Advance({})

\* DROP TABLE IF EXISTS, if the start migrates.
Drop(t) ==
  /\ Doing(IF t = "jobs" THEN "drop jobs" ELSE "drop releases")
  /\ IF migrates
     THEN /\ layout' = [u \in DOMAIN layout \ {t} |-> layout[u]]
          /\ rows' = [rows EXCEPT ![t] = {}]
     ELSE UNCHANGED <<layout, rows>>
  /\ view' = rows'
  /\ UNCHANGED <<version, lock, writing, image, migrates, torn>>
  /\ Advance({})

\* CREATE TABLE IF NOT EXISTS: a table that is there keeps its layout.
Create(t) ==
  /\ Doing(IF t = "jobs" THEN "create jobs" ELSE "create releases")
  /\ layout' = [u \in DOMAIN layout \cup {t} |-> IF u \in DOMAIN layout THEN layout[u] ELSE image]
  /\ UNCHANGED <<version, rows, connection, image, migrates, torn>>
  /\ Advance({})

\* PRAGMA user_version = SCHEMA_VERSION.
Stamp ==
  /\ Doing("stamp")
  /\ version' = IF image = 0 THEN version ELSE image
  /\ torn' = IF migrates THEN 0 ELSE torn
  /\ UNCHANGED <<layout, rows, connection, image, migrates>>
  /\ Advance({})

-----------------------------------------------------------------------------
(* Service: the statements on rows.  An INSERT names every column, and so    *)
(* raises on a table of another layout; a DELETE may raise on one.           *)

Serve(t) ==
  /\ at = Serving
  /\ \/ layout["releases"] = image /\ \E k \in Rows : PutRelease(t, k)
     \/ \E old \in SUBSET Rows : PurgeReleases(t, old)
     \/ layout["jobs"] = image /\ \E k \in Rows : AddJob(t, k)
     \/ \E k \in Rows : RemoveJob(t, k)
     \/ StatementFails(t) \/ Commit(t) \/ CommitFails(t)
  /\ UNCHANGED <<version, layout, process, torn, owner, accepted>>

Next ==
  \/ \E b \in Builds : Launch(b)
  \/ Exit
  \/ CheckConfig \/ CheckVersion
  \/ Connect \/ (\E t \in Tables : Drop(t) \/ Create(t)) \/ Stamp
  \/ \E t \in Threads : Serve(t)

Spec == Init /\ [][Next]_vars

-----------------------------------------------------------------------------
(* What the start-up promises.                                               *)

OwnLayouts == DOMAIN layout = Tables /\ \A t \in Tables : layout[t] = image

\* "A mismatch recreates the tables": a process of a build that minds the
\* version serves on tables with its own columns (sqlite_store.py:34-37).
MismatchRecreates == at = Serving /\ image # 0 => OwnLayouts

\* A process of a build that minds the version serves on tables with its own
\* columns, whichever images, older ones that do not mind it among them, were
\* started, killed halfway or served before it; unless another build's start was
\* killed halfway, and since then only images that trusted the version found
\* have come up (sqlite_store.py:132-166).
ServesOwnLayout == torn = 0 => MismatchRecreates

\* What a caller was told of a row, by a call that returned, survives every
\* restart of the build that served it, killed halfway or not, every start
\* another build refused, whatever it refused it for, and every start of an
\* image that does not mind the version: a row whose insertion returned is there
\* and one whose removal returned is gone, although other threads' statements
\* and commits fail in between and may roll back what the connection has open.
\* Only a build that passed both checks may wipe the database (main.py:93-98;
\* sqlite_store.py:140-150, 217-238, 276-295).
KeepsRows == accepted \subseteq {owner, 0} => Stands(rows)

\* Reads, which take no lock and see what is not committed, tell every thread the
\* same of the rows some call has returned about (sqlite_store.py:241-245,
\* 297-319).
ReadsStand == at = Serving => Stands(view)
=============================================================================
