-------------------------------- MODULE Store --------------------------------
(***************************************************************************)
(* The two tables in service: worker threads that share one connection of  *)
(* SQLite (adapters/outbound/sqlite_store.py).  A writer takes the write   *)
(* lock, executes its statement, which opens a transaction, and commits;   *)
(* readers take no lock and see, on the same connection, what is not       *)
(* committed yet.                                                          *)
(*                                                                         *)
(* Either half of a write may raise.  SQLite then rolls the transaction    *)
(* back or leaves it open, as the error has it; the code does neither      *)
(* itself, so the next writer's commit takes along what was left open.     *)
(***************************************************************************)
CONSTANTS
  Threads, Nobody,  \* worker threads, and the holder of a free lock
  Rows              \* keys of rows

ASSUME StoreAssumption == Nobody \notin Threads

Tables == {"releases", "jobs"}

VARIABLES
  rows,      \* what is committed: the keys in each table
  view,      \* what the connection sees: with the open transaction, if any
  lock,      \* the holder of _write_lock
  writing,   \* thread -> its write, executed and not committed
  promised   \* history: what callers know of each key, from calls that returned

connection == <<view, lock, writing>>

\* A statement puts keys into a table, or takes them out.
Writes == [table : Tables, keys : SUBSET Rows, puts : BOOLEAN]
NoWrite == [table |-> "none", keys |-> {}, puts |-> FALSE]
NoWrites == [t \in Threads |-> NoWrite]

After(keys, w) == IF w.puts THEN keys \cup w.keys ELSE keys \ w.keys

\* Of the keys of w, callers now know this much; a write that failed leaves
\* them "open": it may have taken effect, may do so yet, or never.
Promise(w, known) ==
  [t \in Tables |-> [k \in Rows |-> IF t = w.table /\ k \in w.keys THEN known ELSE promised[t][k]]]

\* What is known when a process starts to serve from tables d.
Known(d) == [t \in Tables |-> [k \in Rows |-> IF k \in d[t] THEN "in" ELSE "out"]]

\* No transaction is open and nobody writes.
Quiet == view = rows /\ lock = Nobody /\ writing = NoWrites

MayWriteUnlocked(t) == writing[t] = NoWrite
\* with self._write_lock.
MayWrite(t) == writing[t] = NoWrite /\ lock = Nobody

Execute(t, w) ==
  /\ MayWrite(t)
  /\ lock' = t
  /\ writing' = [writing EXCEPT ![t] = w]
  /\ view' = [view EXCEPT ![w.table] = After(@, w)]
  /\ promised' = Promise(w, "open")
  /\ UNCHANGED rows

\* The statement raises; the lock is released on the way out.
StatementFails(t) ==
  /\ MayWrite(t)
  /\ view' \in {view, rows}
  /\ UNCHANGED <<rows, lock, writing, promised>>

Release(t) == lock' = Nobody /\ writing' = [writing EXCEPT ![t] = NoWrite]

\* Everything the connection has open becomes durable, and the call returns.
Commit(t) ==
  /\ writing[t] # NoWrite
  /\ rows' = view
  /\ promised' = Promise(writing[t], IF writing[t].puts THEN "in" ELSE "out")
  /\ Release(t)
  /\ UNCHANGED view

\* The commit raises, and so does the call.
CommitFails(t) ==
  /\ writing[t] # NoWrite
  /\ view' \in {view, rows}
  /\ Release(t)
  /\ UNCHANGED <<rows, promised>>

\* The process is gone, and its open transaction with it.
Close ==
  /\ view' = rows /\ lock' = Nobody /\ writing' = NoWrites
  /\ UNCHANGED <<rows, promised>>

-----------------------------------------------------------------------------
(* The statements of the code.                                               *)

\* INSERT OR REPLACE INTO releases.
PutRelease(t, k) == Execute(t, [table |-> "releases", keys |-> {k}, puts |-> TRUE])

\* DELETE of the releases found too old.
PurgeReleases(t, old) == Execute(t, [table |-> "releases", keys |-> old, puts |-> FALSE])

\* INSERT of a job under an id just minted.
AddJob(t, k) ==
  /\ k \notin view["jobs"]
  /\ Execute(t, [table |-> "jobs", keys |-> {k}, puts |-> TRUE])

RemoveJob(t, k) == Execute(t, [table |-> "jobs", keys |-> {k}, puts |-> FALSE])

-----------------------------------------------------------------------------
\* Tables d hold what callers were promised, and nothing they saw removed.
Stands(d) ==
  \A t \in Tables, k \in Rows :
    /\ promised[t][k] = "in" => k \in d[t]
    /\ promised[t][k] = "out" => k \notin d[t]
=============================================================================
