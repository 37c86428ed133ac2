----------------------------- MODULE StoreProofs -----------------------------
(* What each half of a write leaves of the store, for any threads and rows. *)
EXTENDS Store, TLAPS

Contents == [Tables -> SUBSET Rows]

StoreTypeOK ==
  /\ rows \in Contents /\ view \in Contents
  /\ lock \in Threads \cup {Nobody}
  /\ writing \in [Threads -> Writes \cup {NoWrite}]
  /\ promised \in [Tables -> [Rows -> {"in", "out", "open"}]]

\* Who writes has the lock.
Locked == \A t \in Threads : writing[t] # NoWrite => lock = t

\* A write that is executed and not committed is in the view, and nobody has
\* been promised anything of its keys.
Executed ==
  \A t \in Threads : writing[t] # NoWrite =>
    \A k \in writing[t].keys :
      /\ promised[writing[t].table][k] = "open"
      /\ k \in view[writing[t].table] <=> writing[t].puts

\* What holds of the store while it serves.
StoreInv == StoreTypeOK /\ Locked /\ Executed /\ Stands(rows) /\ Stands(view)

\* A write names one of the tables, which no NoWrite does.
LEMMA WritesName ==
  ASSUME NEW w \in Writes
  PROVE  w.table \in Tables /\ w.keys \subseteq Rows /\ w.puts \in BOOLEAN /\ w # NoWrite
BY DEF Writes, NoWrite, Tables

\* The statement runs: nothing is promised of its keys until the commit.
LEMMA ExecuteKeeps ==
  ASSUME StoreInv, NEW t \in Threads, NEW w \in Writes, Execute(t, w)
  PROVE  StoreInv'
<1>1. /\ w.table \in Tables /\ w.keys \subseteq Rows /\ w.puts \in BOOLEAN
  BY WritesName
<1>2. /\ lock = Nobody /\ lock' = t /\ rows' = rows
      /\ writing' = [writing EXCEPT ![t] = w]
      /\ view' = [view EXCEPT ![w.table] = After(@, w)]
      /\ promised' = Promise(w, "open")
  BY DEF Execute, MayWrite
<1>3. \A u \in Threads : writing[u] = NoWrite
  BY <1>2, StoreAssumption DEF StoreInv, Locked
<1>4. writing' \in [Threads -> Writes \cup {NoWrite}] /\ writing'[t] = w
  BY <1>2 DEF StoreInv, StoreTypeOK
<1>5. \A u \in Threads \ {t} : writing'[u] = NoWrite
  BY <1>2, <1>3 DEF StoreInv, StoreTypeOK
<1>6. /\ view' \in Contents
      /\ view'[w.table] = After(view[w.table], w)
      /\ \A c \in Tables \ {w.table} : view'[c] = view[c]
  <2>1. After(view[w.table], w) \subseteq Rows
    BY <1>1 DEF After, StoreInv, StoreTypeOK, Contents
  <2> QED BY <1>1, <1>2, <2>1 DEF StoreInv, StoreTypeOK, Contents
<1>7. /\ promised' \in [Tables -> [Rows -> {"in", "out", "open"}]]
      /\ \A c \in Tables, k \in Rows :
           promised'[c][k] = IF c = w.table /\ k \in w.keys THEN "open" ELSE promised[c][k]
  BY <1>2 DEF Promise, StoreInv, StoreTypeOK
<1>8. StoreTypeOK'
  BY <1>2, <1>4, <1>6, <1>7 DEF StoreInv, StoreTypeOK
<1>9. Locked'
  BY <1>2, <1>5 DEF Locked
<1>10. Executed'
  <2>1. \A k \in w.keys : promised'[w.table][k] = "open" /\ (k \in view'[w.table] <=> w.puts)
    BY <1>1, <1>6, <1>7 DEF After
  <2> QED BY <1>4, <1>5, <2>1 DEF Executed
<1>11. Stands(rows)'
  BY <1>2, <1>7 DEF StoreInv, Stands
<1>12. Stands(view)'
  BY <1>6, <1>7 DEF StoreInv, Stands, After
<1> QED BY <1>8, <1>9, <1>10, <1>11, <1>12 DEF StoreInv

\* A statement that raises undoes at most what failed before it.
LEMMA FailureKeeps ==
  ASSUME StoreInv, NEW t \in Threads, StatementFails(t)
  PROVE  StoreInv'
<1>1. /\ lock = Nobody /\ view' \in {view, rows} /\ UNCHANGED <<rows, lock, writing, promised>>
  BY DEF StatementFails, MayWrite
<1>2. \A u \in Threads : writing[u] = NoWrite
  BY <1>1, StoreAssumption DEF StoreInv, Locked
<1>3. StoreTypeOK' /\ Locked'
  BY <1>1 DEF StoreInv, StoreTypeOK, Locked
<1>4. Executed'
  BY <1>1, <1>2 DEF Executed
<1>5. Stands(rows)' /\ Stands(view)'
  BY <1>1 DEF StoreInv, Stands
<1> QED BY <1>3, <1>4, <1>5 DEF StoreInv

\* The writer lets go of the lock.
LEMMA ReleaseKeeps ==
  ASSUME StoreTypeOK, Locked, NEW t \in Threads, writing[t] # NoWrite, Release(t)
  PROVE  /\ lock' \in Threads \cup {Nobody}
         /\ writing' \in [Threads -> Writes \cup {NoWrite}]
         /\ \A u \in Threads : writing'[u] = NoWrite
<1>1. \A u \in Threads \ {t} : writing[u] = NoWrite
  BY DEF Locked
<1> QED BY <1>1 DEF Release, StoreTypeOK

\* The commit makes durable what the view has, and what is promised from then on
\* of the write's keys is what the view has of them.
LEMMA CommitKeeps ==
  ASSUME StoreInv, NEW t \in Threads, Commit(t)
  PROVE  StoreInv'
<1> DEFINE w == writing[t]
<1> DEFINE known == IF w.puts THEN "in" ELSE "out"
<1>1. w # NoWrite /\ rows' = view /\ view' = view /\ promised' = Promise(w, known) /\ Release(t)
  BY DEF Commit
<1>2. w \in Writes
  BY <1>1 DEF StoreInv, StoreTypeOK
<1>3. w.table \in Tables /\ w.keys \subseteq Rows /\ w.puts \in BOOLEAN
  BY <1>2, WritesName
<1>4. \A u \in Threads : writing'[u] = NoWrite
  BY <1>1, ReleaseKeeps DEF StoreInv
<1>5. /\ promised' \in [Tables -> [Rows -> {"in", "out", "open"}]]
      /\ \A c \in Tables, k \in Rows :
           promised'[c][k] = IF c = w.table /\ k \in w.keys THEN known ELSE promised[c][k]
  BY <1>1 DEF Promise, StoreInv, StoreTypeOK
<1>6. StoreTypeOK'
  BY <1>1, <1>5, ReleaseKeeps DEF StoreInv, StoreTypeOK
<1>7. Locked' /\ Executed'
  BY <1>4 DEF Locked, Executed
<1>8. \A k \in w.keys : k \in view[w.table] <=> w.puts
  BY <1>1 DEF StoreInv, Executed
<1>9. Stands(view)'
  BY <1>1, <1>5, <1>8 DEF StoreInv, Stands
<1>10. Stands(rows)'
  BY <1>1, <1>9 DEF Stands
<1> QED BY <1>6, <1>7, <1>9, <1>10 DEF StoreInv

\* A commit that raises promises nothing.
LEMMA CommitFailureKeeps ==
  ASSUME StoreInv, NEW t \in Threads, CommitFails(t)
  PROVE  StoreInv'
<1>1. writing[t] # NoWrite /\ view' \in {view, rows} /\ Release(t) /\ UNCHANGED <<rows, promised>>
  BY DEF CommitFails
<1>2. \A u \in Threads : writing'[u] = NoWrite
  BY <1>1, ReleaseKeeps DEF StoreInv
<1>3. StoreTypeOK'
  BY <1>1, ReleaseKeeps DEF StoreInv, StoreTypeOK
<1>4. Locked' /\ Executed'
  BY <1>2 DEF Locked, Executed
<1>5. Stands(rows)' /\ Stands(view)'
  BY <1>1 DEF StoreInv, Stands
<1> QED BY <1>3, <1>4, <1>5 DEF StoreInv

\* What a process knows when it starts to serve stands.
LEMMA KnownStands ==
  ASSUME NEW d \in Contents, promised = Known(d)
  PROVE  Stands(d) /\ promised \in [Tables -> [Rows -> {"in", "out", "open"}]]
BY DEF Known, Stands

\* When nobody writes and nothing is open, what stands of the rows is all there is.
LEMMA QuietKeeps ==
  ASSUME StoreTypeOK, Quiet, Stands(rows)
  PROVE  StoreInv
BY DEF StoreInv, Quiet, Locked, Executed, NoWrites, Stands
=============================================================================
