------------------------ MODULE DownloadServiceProofs ------------------------
(* Theorems about the download service, for every number of threads, jobs,  *)
(* files and peers and every value of the settings and of the bounds.       *)
EXTENDS DownloadProperties, FiniteSetTheorems, TLAPS

-----------------------------------------------------------------------------
(* Facts about the operators the model is built from.                        *)

\* A job's files are files, and its discs are numbered.
LEMMA PayloadFacts ==
  ASSUME NEW j \in Jobs
  PROVE  /\ FilesOf(j) \subseteq Files
         /\ JobUser[j] \in Users
         /\ DOMAIN DiscsOf[j] \subseteq Nat
         /\ \A i \in DOMAIN DiscsOf[j] : DiscsOf[j][i] \subseteq Files
<1>1. DiscsOf[j] \in Seq(SUBSET Files) /\ JobUser[j] \in Users
  BY PayloadAssumption
<1>2. DOMAIN DiscsOf[j] = 1 .. Len(DiscsOf[j]) /\ Len(DiscsOf[j]) \in Nat
  BY <1>1
<1>3. \A i \in DOMAIN DiscsOf[j] : DiscsOf[j][i] \subseteq Files
  BY <1>1, <1>2
<1> QED BY <1>1, <1>2, <1>3 DEF FilesOf

\* The byte count of a job is a natural number.
LEMMA TransferredType ==
  ASSUME NEW snap, NEW j \in Jobs
  PROVE  Transferred(snap, j) \in Nat
<1>1. IsFiniteSet(FilesOf(j))
  BY PayloadFacts, PayloadAssumption, FS_Subset
<1>2. IsFiniteSet(1 .. FileSize)
  BY SettingsAssumption, FS_Interval
<1>3. IsFiniteSet(FilesOf(j) \X (1 .. FileSize))
  BY <1>1, <1>2, FS_Product
<1>4. IsFiniteSet({p \in FilesOf(j) \X (1 .. FileSize) : p[2] <= snap[p[1]].bytes})
  BY <1>3, FS_Subset
<1> QED BY <1>4, FS_CardinalityType DEF Transferred

\* A dictionary keeps its type when an entry is put or popped.
LEMMA PutType ==
  ASSUME NEW K, NEW V, NEW d, IsDict(d, K, V), NEW k \in K, NEW v \in V
  PROVE  IsDict(Put(d, k, v), K, V)
BY DEF IsDict, Put

\* Popping an entry keeps the type of the rest.
LEMMA PopType ==
  ASSUME NEW K, NEW V, NEW d, IsDict(d, K, V), NEW k
  PROVE  IsDict(Pop(d, k), K, V)
BY DEF IsDict, Pop

\* A batch POST leaves well-typed transfers.
LEMMA EnqueuedType ==
  ASSUME slskd \in [Files -> Transfer], NEW batch
  PROVE  Enqueued(batch) \in [Files -> Transfer]
BY SettingsAssumption DEF Enqueued, Transfer

\* The absent transfer is a transfer.
LEMMA NoTransferType == NoTransfer \in Transfer
BY SettingsAssumption DEF NoTransfer, Transfer

\* A free thread's locals are well-typed.
LEMMA IdleType == Idle \in Requests
BY NoTransferType DEF Idle, Requests, Verdicts, States

\* retries.get(nzo_id, 0) is a natural number.
LEMMA UsedType ==
  ASSUME IsDict(retries, Jobs, Nat), NEW j \in Jobs
  PROVE  Used(j) \in Nat
BY DEF Used, IsDict
-----------------------------------------------------------------------------
(* Type correctness.                                                         *)

\* A request that names a job in its next step has one, and a grab posts discs
\* of its own: what typing needs to know of control.
Controlled(r) ==
  /\ r.pc \in {"enqueue", "add", "retry", "stall", "conclude", "forget"} => r.job \in Jobs
  /\ r.pc = "enqueue" => r.discs \subseteq DOMAIN DiscsOf[r.job]

TypeInv == TypeOK /\ \A t \in Threads : Controlled(req[t])

\* A step that gives one thread a well-typed request keeps requests well-typed.
LEMMA RequestStep ==
  ASSUME TypeInv, NEW t \in Threads, NEW r \in Requests, Controlled(r), Become(t, r)
  PROVE  req' \in [Threads -> Requests] /\ \A u \in Threads : Controlled(req'[u])
BY DEF TypeInv, TypeOK, Become

\* A step counts one more failure or none.
LEMMA FaultType ==
  ASSUME faults \in Nat, NEW kind, Fault(kind) \/ UNCHANGED faults
  PROVE  faults' \in Nat
BY DEF Fault

\* A free thread is at no point that needs a job.
LEMMA IdleControlled == Controlled(Idle)
BY DEF Controlled, Idle

\* A batch POST, taken or not, keeps its types.
LEMMA PostType ==
  ASSUME TypeOK, NEW batch \in SUBSET Files, Posts(batch) \/ PostRaises(batch)
  PROVE  slskd' \in [Files -> Transfer] /\ late' \subseteq Files /\ faults' \in Nat
<1>1. CASE Posts(batch)
  BY <1>1, EnqueuedType DEF TypeOK, Posts
<1>2. CASE PostRaises(batch)
  <2>1. PICK kind \in {"enqueue", "late"}, taken \in SUBSET batch :
          /\ Fault(kind)
          /\ slskd' = Enqueued(taken)
          /\ late' = IF kind = "late" THEN late \cup (batch \ taken) ELSE late
    BY <1>2 DEF PostRaises
  <2> QED BY <2>1, EnqueuedType, FaultType DEF TypeOK
<1> QED BY <1>1, <1>2

\* A write on the table, made or failed, keeps its types.
LEMMA WriteType ==
  ASSUME TypeOK, NEW rows \in SUBSET Jobs, NEW own, Strays(own),
         (Writes(rows) /\ UNCHANGED faults) \/ WriteFails(rows)
  PROVE  jobs' \subseteq Jobs /\ stored' \subseteq Jobs /\ astray' \subseteq Jobs /\ faults' \in Nat
<1>1. jobs' \subseteq Jobs /\ stored' \subseteq Jobs
  BY DEF TypeOK, Writes, WriteFails
<1>2. faults' \in Nat
  BY FaultType DEF TypeOK, WriteFails
<1> QED BY <1>1, <1>2 DEF TypeOK, Strays, Kept

\* The empty dictionary has every type.
LEMMA EmptyDictType == \A K, V : IsDict(EmptyDict, K, V)
BY DEF IsDict, EmptyDict

\* The service starts well-typed.
LEMMA TypeInit == Init => TypeInv
<1> SUFFICES ASSUME Init PROVE TypeInv
  OBVIOUS
<1>1. slskd \in [Files -> Transfer] /\ req \in [Threads -> Requests]
  BY IdleType, NoTransferType DEF Init
<1>2. told \in [Jobs -> States] /\ rounds \in [Jobs -> Nat]
  BY DEF Init, States
<1>3. /\ IsDict(retries, Jobs, Nat)
      /\ IsDict(progress, Jobs, Marks)
      /\ IsDict(terminalSince, Jobs, Nat)
  BY EmptyDictType DEF Init
<1>4. \A t \in Threads : Controlled(req[t])
  BY IdleControlled DEF Init
<1> QED BY <1>1, <1>2, <1>3, <1>4 DEF Init, TypeOK, TypeInv

\* slskd, the peers, the clock and a restart keep every type.
LEMMA TypeEnvironment ==
  ASSUME TypeInv, Environment
  PROVE  TypeInv'
<1>a. TypeOK
  BY DEF TypeInv
<1>1. ASSUME NEW f \in Files, PeerSends(f) PROVE TypeInv'
  <2>1. slskd[f] \in Transfer /\ slskd[f].bytes + 1 \in 0 .. FileSize
    BY <1>a, <1>1, SettingsAssumption DEF TypeOK, PeerSends, Transfer
  <2>2. slskd' \in [Files -> Transfer]
    BY <1>a, <1>1, <2>1 DEF TypeOK, PeerSends, Transfer
  <2> QED BY <1>1, <2>2 DEF TypeInv, TypeOK, PeerSends, world, table, memory, heard, IsDict
<1>2. ASSUME NEW f \in Files, TransferSucceeds(f) PROVE TypeInv'
  BY <1>2 DEF TypeInv, TypeOK, TransferSucceeds, Transfer, world, table, memory, heard, IsDict
<1>3. ASSUME NEW f \in Files, TransferFails(f) PROVE TypeInv'
  BY <1>3 DEF TypeInv, TypeOK, TransferFails, Fault, Transfer, world, table, memory, heard, IsDict
<1>6. ASSUME NEW f \in Files, LateEnqueue(f) PROVE TypeInv'
  <2>1. slskd' \in [Files -> Transfer]
    BY <1>a, <1>6, EnqueuedType DEF TypeOK, LateEnqueue
  <2> QED BY <1>6, <2>1 DEF TypeInv, TypeOK, LateEnqueue, table, memory, heard, IsDict
<1>7. CASE ReleaseWrite \/ ReleaseWriteFails
  <2>1. jobs \in SUBSET Jobs
    BY <1>a DEF TypeOK
  <2>2. jobs' \subseteq Jobs /\ stored' \subseteq Jobs /\ astray' \subseteq Jobs /\ faults' \in Nat
    BY <1>a, <1>7, <2>1, WriteType DEF ReleaseWrite, ReleaseWriteFails
  <2> QED BY <1>7, <2>2 DEF TypeInv, TypeOK, ReleaseWrite, ReleaseWriteFails, world, memory, heard, IsDict
<1>4. CASE Tick
  BY <1>4 DEF TypeInv, TypeOK, Tick, table, memory, heard, IsDict
<1>5. CASE Restart
  <2>1. /\ IsDict(retries', Jobs, Nat)
        /\ IsDict(progress', Jobs, Marks)
        /\ IsDict(terminalSince', Jobs, Nat)
    BY <1>5, EmptyDictType DEF Restart
  <2>2. req' \in [Threads -> Requests] /\ rounds' \in [Jobs -> Nat]
    BY <1>5, IdleType DEF Restart
  <2>3. /\ clock' \in Nat /\ faults' \in Nat /\ restarts' \in Nat
        /\ slskd' \in [Files -> Transfer]
        /\ late' \subseteq Files
        /\ jobs' \subseteq Jobs /\ stored' \subseteq Jobs /\ astray' \subseteq Jobs
        /\ grabbed' \subseteq Jobs /\ purged' \subseteq Jobs
        /\ told' \in [Jobs -> States] /\ assured' \subseteq Jobs
    BY <1>a, <1>5 DEF TypeOK, Restart, heard
  <2>5. dirKnown' \in BOOLEAN
    BY <1>5, Zenon DEF Restart
  <2>4. \A t \in Threads : Controlled(req'[t])
    BY <1>5, IdleControlled DEF Restart
  <2> QED BY <2>1, <2>2, <2>3, <2>4, <2>5 DEF TypeInv, TypeOK
<1> QED BY <1>1, <1>2, <1>3, <1>4, <1>5, <1>6, <1>7 DEF Environment

\* So does a request that begins.
LEMMA TypeBegin ==
  ASSUME TypeInv, NEW t \in Threads, Begin(t)
  PROVE  TypeInv'
<1>a. TypeOK
  BY DEF TypeInv
<1>1. CASE PollBegin(t)
  <2> DEFINE r == [Idle EXCEPT !.op = "poll", !.pc = "rows", !.now = clock]
  <2>1. r \in Requests /\ Controlled(r)
    BY <1>a, IdleType DEF TypeOK, Requests, Idle, Controlled
  <2>2. Become(t, r)
    BY <1>1 DEF PollBegin
  <2> HIDE DEF r
  <2> QED BY <1>1, <2>1, <2>2, RequestStep
          DEF TypeInv, TypeOK, PollBegin, world, table, memory, heard, IsDict
<1>2. ASSUME NEW j \in Jobs, StartBegin(t, j) PROVE TypeInv'
  <2> DEFINE r == [Idle EXCEPT !.op = "start", !.pc = "enqueue", !.now = clock,
                               !.job = j, !.discs = DOMAIN DiscsOf[j]]
  <2>1. r \in Requests /\ Controlled(r)
    BY <1>a, PayloadFacts, IdleType DEF TypeOK, Requests, Idle, Controlled
  <2>2. Become(t, r)
    BY <1>2 DEF StartBegin
  <2> HIDE DEF r
  <2> QED BY <1>2, <2>1, <2>2, RequestStep DEF TypeInv, TypeOK, StartBegin, world, table, memory, heard, IsDict
<1>3. ASSUME NEW j \in Jobs, RemoveBegin(t, j) PROVE TypeInv'
  <2> DEFINE r == [Idle EXCEPT !.op = "remove", !.pc = "locate", !.now = clock,
                               !.files = FilesOf(j), !.purge = {j}]
  <2>1. FilesOf(j) \in SUBSET Files
    BY PayloadFacts
  <2>2. r \in Requests /\ Controlled(r)
    BY <1>a, <2>1, IdleType DEF TypeOK, Requests, Idle, Controlled
  <2>3. Become(t, r)
    BY <1>3 DEF RemoveBegin
  <2> HIDE DEF r
  <2> QED BY <1>3, <2>2, <2>3, RequestStep DEF TypeInv, TypeOK, RemoveBegin, world, table, memory, heard, IsDict
<1> QED BY <1>1, <1>2, <1>3 DEF Begin

\* So does every step of start(), remove() and statuses(): one case per step.
LEMMA TypeWork ==
  ASSUME TypeInv, NEW t \in Threads, Work(t)
  PROVE  TypeInv'
<1> DEFINE RequestsOK == req' \in [Threads -> Requests] /\ \A u \in Threads : Controlled(req'[u])
<1>a. TypeOK /\ req[t] \in Requests /\ Controlled(req[t])
  BY DEF TypeInv, TypeOK
<1>f. faults \in Nat /\ slskd \in [Files -> Transfer]
  BY <1>a DEF TypeOK
<1>i. ASSUME Leave(t) PROVE RequestsOK
  BY <1>i, IdleType, IdleControlled, RequestStep DEF Leave
<1>1. CASE StartEnqueue(t)
  <2>1. PICK i \in NextDisc(t) :
    LET batch == DiscsOf[req[t].job][i]
        rest == req[t].discs \ {i}
    IN
    /\ req[t].pc = "enqueue"
    /\ \/ /\ Posts(batch)
          /\ Become(t, [req[t] EXCEPT !.discs = rest, !.files = @ \cup batch,
                                      !.pc = IF rest = {} THEN "add" ELSE "enqueue"])
       \/ /\ PostRaises(batch)
          /\ Become(t, [req[t] EXCEPT !.files = Attempted(@, batch), !.pc = "locate"])
    BY <1>1 DEF StartEnqueue
  <2> DEFINE batch == DiscsOf[req[t].job][i]
             rest == req[t].discs \ {i}
             r == [req[t] EXCEPT !.discs = rest, !.files = @ \cup batch,
                                 !.pc = IF rest = {} THEN "add" ELSE "enqueue"]
             q == [req[t] EXCEPT !.files = Attempted(@, batch), !.pc = "locate"]
  <2>2. req[t].job \in Jobs /\ i \in DOMAIN DiscsOf[req[t].job]
    BY <1>a, <2>1 DEF Controlled, NextDisc
  <2>3. batch \subseteq Files
    BY <2>2, PayloadFacts
  <2>4. r \in Requests /\ Controlled(r)
    BY <1>a, <2>1, <2>2, <2>3 DEF Requests, Controlled
  <2>5. q \in Requests /\ Controlled(q)
    BY <1>a, <2>3 DEF Requests, Controlled, Attempted
  <2> HIDE DEF r, q
  <2>6. Become(t, r) \/ Become(t, q)
    BY <2>1 DEF r, q
  <2>7. RequestsOK
    BY <2>4, <2>5, <2>6, RequestStep
  <2>8. slskd' \in [Files -> Transfer] /\ late' \subseteq Files /\ faults' \in Nat
    <3>1. batch \in SUBSET Files /\ (Posts(batch) \/ PostRaises(batch))
      BY <2>1, <2>3
    <3> HIDE DEF batch
    <3> QED BY <1>a, <3>1, PostType
  <2> QED BY <1>1, <2>7, <2>8 DEF TypeInv, TypeOK, StartEnqueue, table, memory, heard, IsDict
<1>2. CASE StartAdd(t)
  <2>1. RequestsOK
    BY <1>i, <1>2 DEF StartAdd
  <2>2. jobs \cup {req[t].job} \in SUBSET Jobs
    BY <1>a, <1>2 DEF StartAdd, TypeOK, Controlled
  <2>3. jobs' \subseteq Jobs /\ stored' \subseteq Jobs /\ astray' \subseteq Jobs /\ faults' \in Nat
    BY <1>a, <1>2, <2>2, WriteType DEF StartAdd
  <2> QED BY <1>2, <2>1, <2>3 DEF TypeInv, TypeOK, StartAdd, world, memory, heard, IsDict
<1>3. CASE StartRaise(t)
  BY <1>i, <1>3 DEF TypeInv, TypeOK, StartRaise, world, table, memory, heard, IsDict
<1>4. CASE CancelLocate(t)
  <2> DEFINE found == Running(req[t].files)
             r == [req[t] EXCEPT !.cancels = found,
                                 !.pc = IF found = {} THEN AfterCancel(t) ELSE "cancel"]
             q == [req[t] EXCEPT !.pc = AfterCancel(t)]
  <2>1. found \subseteq Files \X Nat
    BY <1>a DEF Running, TypeOK, Requests, Transfer
  <2>2. r \in Requests /\ Controlled(r)
    BY <1>a, <2>1 DEF Requests, Controlled, AfterCancel
  <2>3. q \in Requests /\ Controlled(q)
    BY <1>a DEF Requests, Controlled, AfterCancel
  <2>4. Become(t, r) \/ Become(t, q)
    BY <1>4 DEF CancelLocate
  <2> HIDE DEF r, q
  <2>5. RequestsOK
    BY <2>2, <2>3, <2>4, RequestStep
  <2>6. faults' \in Nat
    BY <1>f, <1>4, FaultType DEF CancelLocate
  <2> QED BY <1>4, <2>5, <2>6 DEF TypeInv, TypeOK, CancelLocate, world, table, memory, heard, IsDict
<1>5. CASE CancelOne(t)
  <2>1. PICK c \in req[t].cancels :
    LET rest == req[t].cancels \ {c} IN
    /\ \/ /\ slskd' = IF slskd[c[1]].id = c[2]
                      THEN [slskd EXCEPT ![c[1]] = [NoTransfer EXCEPT !.id = c[2]]]
                      ELSE slskd
          /\ UNCHANGED faults
       \/ Fault("cancel") /\ UNCHANGED slskd
    /\ Become(t, [req[t] EXCEPT !.cancels = rest,
                                !.pc = IF rest = {} THEN AfterCancel(t) ELSE "cancel"])
    BY <1>5 DEF CancelOne
  <2> DEFINE rest == req[t].cancels \ {c}
             r == [req[t] EXCEPT !.cancels = rest,
                                 !.pc = IF rest = {} THEN AfterCancel(t) ELSE "cancel"]
  <2>2. c \in Files \X Nat
    BY <1>a, <2>1 DEF Requests
  <2>3. [NoTransfer EXCEPT !.id = c[2]] \in Transfer
    BY <2>2, SettingsAssumption DEF NoTransfer, Transfer
  <2>4. slskd' \in [Files -> Transfer]
    BY <1>f, <2>1, <2>2, <2>3
  <2>5. r \in Requests /\ Controlled(r)
    BY <1>a DEF Requests, Controlled, AfterCancel
  <2>6. Become(t, r)
    BY <2>1
  <2> HIDE DEF r
  <2>7. RequestsOK
    BY <2>5, <2>6, RequestStep
  <2>8. faults' \in Nat
    BY <1>f, <2>1, FaultType
  <2> QED BY <1>5, <2>4, <2>7, <2>8 DEF TypeInv, TypeOK, CancelOne, world, table, memory, heard, IsDict
<1>6. CASE PollList(t)
  <2>1. PICK u \in req[t].users :
    LET rest == req[t].users \ {u} IN
    \/ /\ Become(t, [req[t] EXCEPT !.users = rest,
                                   !.snap = [f \in Files |-> IF FileUser[f] = u THEN slskd[f] ELSE @[f]],
                                   !.pc = IF rest = {} THEN "visit" ELSE "list"])
       /\ UNCHANGED faults
    \/ Fault("list") /\ Leave(t)
    BY <1>6 DEF PollList
  <2> DEFINE rest == req[t].users \ {u}
             snap == [f \in Files |-> IF FileUser[f] = u THEN slskd[f] ELSE req[t].snap[f]]
             r == [req[t] EXCEPT !.users = rest, !.snap = snap,
                                 !.pc = IF rest = {} THEN "visit" ELSE "list"]
  <2>2. snap \in [Files -> Transfer]
    BY <1>a, <1>f DEF Requests
  <2>3. r \in Requests /\ Controlled(r)
    BY <1>a, <2>2 DEF Requests, Controlled
  <2>4. Become(t, r) \/ Leave(t)
    BY <2>1
  <2> HIDE DEF r
  <2>5. RequestsOK
    BY <1>i, <2>3, <2>4, RequestStep
  <2>6. faults' \in Nat
    BY <1>f, <2>1, FaultType
  <2> QED BY <1>6, <2>5, <2>6 DEF TypeInv, TypeOK, PollList, world, table, memory, heard, IsDict
<1>18. CASE PollRows(t)
  <2> DEFINE peers == {JobUser[j] : j \in jobs}
             r == [req[t] EXCEPT !.todo = jobs, !.users = peers,
                                 !.pc = IF peers = {} THEN "visit" ELSE "list"]
  <2>1. peers \subseteq Users
    BY <1>a, PayloadFacts DEF TypeOK
  <2>2. r \in Requests /\ Controlled(r)
    BY <1>a, <2>1 DEF TypeOK, Requests, Controlled
  <2>3. Become(t, r) \/ Leave(t)
    BY <1>18 DEF PollRows
  <2> HIDE DEF r
  <2>4. RequestsOK
    BY <1>i, <2>2, <2>3, RequestStep
  <2>5. faults' \in Nat
    BY <1>f, <1>18, FaultType DEF PollRows
  <2> QED BY <1>18, <2>4, <2>5 DEF TypeInv, TypeOK, PollRows, world, table, memory, heard, IsDict
<1>7. ASSUME NEW j \in Jobs, VisitCompleted(t, j) PROVE TypeInv'
  <2> DEFINE r == [req[t] EXCEPT !.todo = @ \ {j}, !.job = j, !.pc = "conclude", !.verdict = "completed"]
  <2>1. r \in Requests /\ Controlled(r)
    BY <1>a DEF Requests, Controlled, Verdicts
  <2>2. Become(t, r) \/ Leave(t)
    BY <1>7 DEF VisitCompleted
  <2> HIDE DEF r
  <2>3. RequestsOK
    BY <1>i, <2>1, <2>2, RequestStep
  <2>4. faults' \in Nat
    BY <1>f, <1>7, FaultType DEF VisitCompleted
  <2>5. dirKnown' \in BOOLEAN
    BY <1>a, <1>7, Zenon DEF VisitCompleted, TypeOK
  <2> QED BY <1>7, <2>3, <2>4, <2>5 DEF TypeInv, TypeOK, VisitCompleted, world, table, heard, IsDict
<1>8. ASSUME NEW j \in Jobs, VisitFailed(t, j) PROVE TypeInv'
  <2> DEFINE chosen == {i \in DOMAIN DiscsOf[j] : RetryFiles(req[t].snap, j, i) # {}}
             mark == [bytes |-> Transferred(req[t].snap, j), at |-> req[t].now]
             r == [req[t] EXCEPT !.todo = @ \ {j}, !.job = j, !.pc = "retry", !.discs = chosen]
             q == [req[t] EXCEPT !.todo = @ \ {j}, !.job = j, !.pc = "conclude", !.verdict = "failed"]
  <2>1. chosen \subseteq Nat
    BY PayloadFacts
  <2>2. r \in Requests /\ Controlled(r)
    BY <1>a, <2>1 DEF Requests, Controlled
  <2>3. q \in Requests /\ Controlled(q)
    BY <1>a DEF Requests, Controlled, Verdicts
  <2>4. mark \in Marks
    BY <1>a, TransferredType DEF Requests, Marks
  <2>5. Used(j) \in Nat
    BY <1>a, UsedType DEF TypeOK
  <2>6. \/ /\ retries' = Put(retries, j, Used(j) + 1) /\ progress' = Put(progress, j, mark)
           /\ rounds' = [rounds EXCEPT ![j] = @ + 1] /\ Become(t, r)
        \/ UNCHANGED <<retries, progress, rounds>> /\ Become(t, q)
    BY <1>8 DEF VisitFailed
  <2> HIDE DEF r, q, mark
  <2>7. RequestsOK
    BY <2>2, <2>3, <2>6, RequestStep
  <2>8. IsDict(retries', Jobs, Nat)
    BY <1>a, <2>5, <2>6, PutType DEF TypeOK
  <2>9. IsDict(progress', Jobs, Marks)
    BY <1>a, <2>4, <2>6, PutType DEF TypeOK
  <2>10. rounds' \in [Jobs -> Nat]
    BY <1>a, <2>6 DEF TypeOK
  <2> QED BY <1>8, <2>7, <2>8, <2>9, <2>10 DEF TypeInv, TypeOK, VisitFailed, world, table, heard, IsDict
<1>9. ASSUME NEW j \in Jobs, VisitRunning(t, j) PROVE TypeInv'
  <2> DEFINE r == [req[t] EXCEPT !.todo = @ \ {j}, !.job = j, !.pc = "stall"]
  <2>1. r \in Requests /\ Controlled(r)
    BY <1>a DEF Requests, Controlled
  <2>2. Become(t, r)
    BY <1>9 DEF VisitRunning
  <2> HIDE DEF r
  <2> QED BY <1>9, <2>1, <2>2, RequestStep DEF TypeInv, TypeOK, VisitRunning, world, table, memory, heard, IsDict
<1>10. CASE RetryEnqueue(t)
  <2>1. PICK i \in NextDisc(t) :
    LET batch == RetryFiles(req[t].snap, req[t].job, i)
        rest == req[t].discs \ {i}
    IN
    /\ req[t].pc = "retry"
    /\ \/ /\ Posts(batch)
          /\ Become(t, [req[t] EXCEPT !.discs = rest, !.pc = IF rest = {} THEN "stall" ELSE "retry"])
       \/ /\ PostRaises(batch)
          /\ Become(t, [req[t] EXCEPT !.discs = {}, !.pc = "stall"])
    BY <1>10 DEF RetryEnqueue
  <2> DEFINE rest == req[t].discs \ {i}
             r == [req[t] EXCEPT !.discs = rest, !.pc = IF rest = {} THEN "stall" ELSE "retry"]
             q == [req[t] EXCEPT !.discs = {}, !.pc = "stall"]
  <2>2. r \in Requests /\ Controlled(r) /\ q \in Requests /\ Controlled(q)
    BY <1>a, <2>1 DEF Requests, Controlled
  <2>3. Become(t, r) \/ Become(t, q)
    BY <2>1
  <2> HIDE DEF r, q
  <2>4. RequestsOK
    BY <2>2, <2>3, RequestStep
  <2>5. slskd' \in [Files -> Transfer] /\ late' \subseteq Files /\ faults' \in Nat
    <3> DEFINE batch == RetryFiles(req[t].snap, req[t].job, i)
    <3>1. req[t].job \in Jobs
      BY <1>a, <2>1 DEF Controlled
    <3>2. batch \in SUBSET Files
      BY <3>1, PayloadFacts DEF RetryFiles, InState
    <3>3. Posts(batch) \/ PostRaises(batch)
      BY <2>1
    <3> HIDE DEF batch
    <3> QED BY <1>a, <3>2, <3>3, PostType
  <2> QED BY <1>10, <2>4, <2>5 DEF TypeInv, TypeOK, RetryEnqueue, table, memory, heard, IsDict
<1>11. CASE StallCheck(t)
  <2> DEFINE j == req[t].job
             mark == [bytes |-> Transferred(req[t].snap, j), at |-> req[t].now]
             r == [req[t] EXCEPT !.pc = "conclude", !.verdict = "stalled"]
             q == [req[t] EXCEPT !.pc = "visit", !.views[j] = "downloading"]
  <2>1. j \in Jobs
    BY <1>a, <1>11 DEF Controlled, StallCheck
  <2>2. r \in Requests /\ Controlled(r)
    BY <1>a, <2>1 DEF Requests, Controlled, Verdicts
  <2>3. q \in Requests /\ Controlled(q)
    BY <1>a, <2>1 DEF Requests, Controlled, States
  <2>4. mark \in Marks
    BY <1>a, <2>1, TransferredType DEF Requests, Marks
  <2>5. /\ Become(t, r) \/ Become(t, q)
        /\ UNCHANGED progress \/ progress' = Put(progress, j, mark)
    BY <1>11 DEF StallCheck
  <2> HIDE DEF r, q, mark, j
  <2>6. RequestsOK
    BY <2>2, <2>3, <2>5, RequestStep
  <2>7. IsDict(progress', Jobs, Marks)
    BY <1>a, <2>1, <2>4, <2>5, PutType DEF TypeOK
  <2> QED BY <1>11, <2>6, <2>7 DEF TypeInv, TypeOK, StallCheck, world, table, heard, IsDict
<1>12. CASE Conclude(t)
  <2> DEFINE j == req[t].job
             r == [req[t] EXCEPT !.pc = "visit", !.purge = @ \cup {j}]
             q == [req[t] EXCEPT !.pc = "visit", !.views[j] = Reported(req[t].verdict)]
  <2>1. j \in Jobs
    BY <1>a, <1>12 DEF Controlled, Conclude
  <2>2. r \in Requests /\ Controlled(r)
    BY <1>a, <2>1 DEF Requests, Controlled
  <2>3. Reported(req[t].verdict) \in States
    BY <1>a DEF Requests, Verdicts, Reported, States
  <2>4. q \in Requests /\ Controlled(q)
    BY <1>a, <2>1, <2>3 DEF Requests, Controlled
  <2>5. /\ Become(t, r) \/ Become(t, q)
        /\ UNCHANGED terminalSince \/ terminalSince' = Put(terminalSince, j, req[t].now)
    BY <1>12 DEF Conclude
  <2>6. req[t].now \in Nat
    BY <1>a DEF Requests
  <2> HIDE DEF r, q, j
  <2>7. RequestsOK
    BY <2>2, <2>4, <2>5, RequestStep
  <2>8. IsDict(terminalSince', Jobs, Nat)
    BY <1>a, <2>1, <2>5, <2>6, PutType DEF TypeOK
  <2> QED BY <1>12, <2>7, <2>8 DEF TypeInv, TypeOK, Conclude, world, table, heard, IsDict
<1>13. CASE PollLoopEnds(t)
  <2> DEFINE r == [req[t] EXCEPT !.pc = IF req[t].purge = {} THEN "return" ELSE "drop"]
  <2>1. r \in Requests /\ Controlled(r)
    BY <1>a DEF Requests, Controlled
  <2>2. Become(t, r)
    BY <1>13 DEF PollLoopEnds
  <2> HIDE DEF r
  <2> QED BY <1>13, <2>1, <2>2, RequestStep DEF TypeInv, TypeOK, PollLoopEnds, world, table, memory, heard, IsDict
<1>14. CASE DropJob(t)
  <2>1. PICK j \in req[t].purge :
          /\ (Writes(jobs \ {j}) /\ UNCHANGED faults) \/ WriteFails(jobs \ {j})
          /\ \E own : Strays(own)
          /\ Become(t, [req[t] EXCEPT !.job = j, !.pc = "forget"]) \/ Leave(t)
          /\ purged' = IF req[t].op = "poll" THEN purged \cup {j} ELSE purged
    BY <1>14 DEF DropJob
  <2> DEFINE r == [req[t] EXCEPT !.job = j, !.pc = "forget"]
  <2>2. j \in Jobs
    BY <1>a DEF Requests
  <2>3. r \in Requests /\ Controlled(r)
    BY <1>a, <2>2 DEF Requests, Controlled
  <2>4. Become(t, r) \/ Leave(t)
    BY <2>1
  <2> HIDE DEF r
  <2>5. RequestsOK
    BY <1>i, <2>3, <2>4, RequestStep
  <2>6. jobs \ {j} \in SUBSET Jobs
    BY <1>a DEF TypeOK
  <2>7. jobs' \subseteq Jobs /\ stored' \subseteq Jobs /\ astray' \subseteq Jobs /\ faults' \in Nat
    BY <1>a, <2>1, <2>6, WriteType
  <2>8. purged' \subseteq Jobs
    BY <1>a, <2>1, <2>2 DEF TypeOK
  <2> QED BY <1>14, <2>5, <2>7, <2>8 DEF TypeInv, TypeOK, DropJob, world, memory, heard, IsDict
<1>15. CASE ForgetJob(t)
  <2> DEFINE rest == req[t].purge \ {req[t].job}
             r == [req[t] EXCEPT !.purge = rest, !.pc = IF rest = {} THEN "return" ELSE "drop"]
  <2>1. r \in Requests /\ Controlled(r)
    BY <1>a DEF Requests, Controlled
  <2>2. Become(t, r)
    BY <1>15 DEF ForgetJob
  <2> HIDE DEF r
  <2>3. RequestsOK
    BY <2>1, <2>2, RequestStep
  <2>4. /\ IsDict(retries', Jobs, Nat)
        /\ IsDict(progress', Jobs, Marks)
        /\ IsDict(terminalSince', Jobs, Nat)
    BY <1>a, <1>15, PopType DEF ForgetJob, ForgetEntries, TypeOK
  <2> QED BY <1>15, <2>3, <2>4 DEF TypeInv, TypeOK, ForgetJob, world, table, heard
<1>16. CASE QueueAnswers(t) \/ HistoryAnswers(t)
  <2>1. RequestsOK
    BY <1>i, <1>16 DEF QueueAnswers, HistoryAnswers, Answers
  <2>2. told' \in [Jobs -> States]
    BY <1>a, <1>16 DEF QueueAnswers, HistoryAnswers, Answers, TypeOK, Requests
  <2>3. assured' \subseteq Jobs
    BY <1>a, <1>16 DEF QueueAnswers, HistoryAnswers, Answers, TypeOK
  <2> QED BY <1>16, <2>1, <2>2, <2>3
          DEF TypeInv, TypeOK, QueueAnswers, HistoryAnswers, Answers, world, table, memory, IsDict
<1>17. CASE RemoveReturns(t)
  <2>1. RequestsOK
    BY <1>i, <1>17 DEF RemoveReturns
  <2> QED BY <1>17, <2>1 DEF TypeInv, TypeOK, RemoveReturns, world, table, memory, heard, IsDict
<1> QED
  BY <1>1, <1>2, <1>3, <1>4, <1>5, <1>6, <1>7, <1>8, <1>9, <1>10, <1>11, <1>12,
     <1>13, <1>14, <1>15, <1>16, <1>17, <1>18 DEF Work, Visit

\* Hence every step of the specification.
LEMMA TypeStep == TypeInv /\ [Next]_vars => TypeInv'
<1> SUFFICES ASSUME TypeInv, [Next]_vars PROVE TypeInv'
  OBVIOUS
<1>1. CASE Next
  BY <1>1, TypeEnvironment, TypeBegin, TypeWork DEF Next
<1>2. CASE UNCHANGED vars
  BY <1>2 DEF TypeInv, TypeOK, vars, world, table, memory, heard, IsDict
<1> QED BY <1>1, <1>2

\* Types, and where the locals of a request point, are invariant: the part of
\* TypeInv beyond TypeOK is what makes the types of req inductive.
THEOREM TypeInvariant == Spec => []TypeInv
BY TypeInit, TypeStep, PTL DEF Spec

\* Every variable of the service, the locals of every request included, keeps
\* its type in every reachable state, a crash between any two steps included.
THEOREM TypeCorrect == Spec => []TypeOK
<1>1. TypeInv => TypeOK
  BY DEF TypeInv
<1> QED BY <1>1, TypeInvariant, PTL

-----------------------------------------------------------------------------
(* The retry budget, and the ledger the service implements.                  *)

\* What a step of the service is to the ledger: a step of it, or nothing.
Simulates == Ledger!Next \/ UNCHANGED Ledger!ledger

\* Nothing begins, no round is granted, and no row comes that was not there.
Lasts ==
  /\ grabbed' = grabbed /\ rounds' = rounds
  /\ Kept' \subseteq Kept /\ stored \cap jobs' \subseteq stored'

\* The ledger sees only which grabs have begun, are settled and have a row.
LEMMA StageOf ==
  ASSUME NEW j \in Jobs
  PROVE  Stage(j) = IF j \notin grabbed THEN "new" ELSE IF j \in stored THEN "tracked"
                    ELSE IF j \in jobs THEN "unsure"
                    ELSE IF j \notin Settled THEN "opening" ELSE "gone"
BY DEF Stage, Settled

\* A write on the table, made or failed, or the end of a grab, is a step of the
\* ledger that settles grabs: a row is new only of a grab that ends in this step,
\* and a committed row that is still seen is still committed.
LEMMA SettleLedger ==
  ASSUME Served, Counted, Kept' \subseteq Settled', Settled \subseteq Settled',
         grabbed' = grabbed, rounds' = rounds,
         Kept' \subseteq Kept \cup (Settled' \ Settled), stored \cap jobs' \subseteq stored'
  PROVE  Simulates
<1> DEFINE stage == [j \in Jobs |-> Stage(j)]
           stageN == [j \in Jobs |-> Stage(j)']
<1>1. Kept \subseteq Settled /\ Settled \subseteq grabbed /\ Settled' \subseteq grabbed
  BY DEF Served, Settled
<1>2. ASSUME NEW j \in Jobs
      PROVE  /\ Stage(j)' \in Ledger!Stages
             /\ Stage(j)' = Stage(j) \/ <<Stage(j), Stage(j)'>> \in Ledger!Onward
             /\ (IF j \in Kept' THEN rounds'[j] ELSE 0)
                  = IF Stage(j)' = "gone" THEN 0 ELSE IF j \in Kept THEN rounds[j] ELSE 0
  <2>1. Stage(j) = IF j \notin grabbed THEN "new" ELSE IF j \in stored THEN "tracked"
                   ELSE IF j \in jobs THEN "unsure"
                   ELSE IF j \notin Settled THEN "opening" ELSE "gone"
    BY StageOf
  <2>2. Stage(j)' = IF j \notin grabbed THEN "new" ELSE IF j \in stored' THEN "tracked"
                    ELSE IF j \in jobs' THEN "unsure"
                    ELSE IF j \notin Settled' THEN "opening" ELSE "gone"
    BY DEF Stage, Settled
  <2>3. j \notin Settled => rounds[j] = 0
    BY DEF Counted
  <2>4. /\ j \in Kept <=> j \in jobs \/ j \in stored
        /\ j \in Kept' <=> j \in jobs' \/ j \in stored'
    BY DEF Kept
  <2>5. (j \in Kept => j \in Settled) /\ (j \in Kept' => j \in Settled')
    BY <1>1
  <2>6. Stage(j)' = Stage(j) \/ <<Stage(j), Stage(j)'>> \in Ledger!Onward
    BY <1>1, <2>1, <2>2, <2>4, <2>5 DEF Ledger!Onward
  <2>7. Stage(j)' = "gone" => j \notin Kept'
    BY <2>2, <2>4
  <2>8. Stage(j)' # "gone" => (j \in Kept => j \in Kept')
    BY <1>1, <2>2, <2>4, <2>5
  <2>9. j \in Kept' /\ j \notin Kept => rounds[j] = 0
    BY <2>3
  <2> QED BY <2>2, <2>6, <2>7, <2>8, <2>9 DEF Ledger!Stages
<1>3. Ledger!Settle
  BY <1>2 DEF Ledger!Settle
<1> QED BY <1>3 DEF Simulates, Ledger!Next

\* A step that settles, begins and drops no grab, and grants no round to one that
\* has a row, is a stutter of the ledger.
LEMMA StutterStep ==
  ASSUME Settled' = Settled, grabbed' = grabbed, jobs' = jobs, stored' = stored,
         \A j \in Kept : rounds'[j] = rounds[j]
  PROVE  Simulates
<1>1. \A j \in Jobs : Stage(j)' = Stage(j)
  BY StageOf DEF Stage, Settled
<1> QED BY <1>1 DEF Simulates, Ledger!ledger, Kept

\* A thread that does not end or begin a grab settles and unsettles nothing.
LEMMA ServeStep ==
  ASSUME TypeInv, Served, NEW t \in Threads, NEW r \in Requests, Become(t, r), Consistent(r),
         r.op = "start" \/ req[t].op = "start" => r.op = req[t].op /\ r.job = req[t].job,
         grabbed' = grabbed, Kept' \subseteq Kept
  PROVE  Settled' = Settled /\ Served'
<1>1. req' \in [Threads -> Requests] /\ req'[t] = r /\ \A u \in Threads \ {t} : req'[u] = req[u]
  BY DEF TypeInv, TypeOK, Become
<1>2. \A u \in Threads : /\ req'[u].op = "start" <=> req[u].op = "start"
                         /\ req[u].op = "start" => req'[u].job = req[u].job
  BY <1>1
<1>3. Settled' = Settled
  BY <1>2 DEF Settled, Opening
<1>4. \A u \in Threads : Consistent(req[u])'
  <2> SUFFICES ASSUME NEW u \in Threads PROVE Consistent(req[u])'
    OBVIOUS
  <2>1. Consistent(req'[u])
    BY <1>1 DEF Served
  <2> QED BY <1>3, <2>1 DEF Consistent
<1>5. Kept' \subseteq Settled'
  BY <1>3 DEF Served
<1>6. \A v, u \in Threads :
        req'[v].op = "start" /\ req'[u].op = "start" /\ req'[v].job = req'[u].job => v = u
  BY <1>2 DEF Served
<1> QED BY <1>3, <1>4, <1>5, <1>6 DEF Served

\* If it touches no retry counter either, the whole invariant is kept.
LEMMA QuietStep ==
  ASSUME TypeInv, LedgerInv, NEW t \in Threads, NEW r \in Requests, Become(t, r), Consistent(r),
         r.op = "start" \/ req[t].op = "start" => r.op = req[t].op /\ r.job = req[t].job,
         r.pc = "forget" => r.job \notin Kept', Lasts, retries' = retries
  PROVE  LedgerInv' /\ Simulates /\ Settled' = Settled
<1>1. Settled' = Settled /\ Served'
  BY ServeStep DEF LedgerInv, Lasts
<1>2. \A u \in Threads : req'[u].pc = "forget" => req'[u].job \notin Kept'
  BY DEF LedgerInv, Counted, TypeInv, TypeOK, Become, Lasts
<1>3. \A j \in Jobs \ Settled' : rounds'[j] = 0 /\ j \notin DOMAIN retries'
  BY <1>1 DEF LedgerInv, Counted, Lasts
<1>4. \A j \in Kept' : rounds'[j] = Used(j)' /\ rounds'[j] <= MaxRetries
  BY DEF LedgerInv, Counted, Used, Lasts
<1>5. Simulates
  BY <1>1, SettleLedger DEF LedgerInv, Lasts, Served
<1> QED BY <1>1, <1>2, <1>3, <1>4, <1>5 DEF LedgerInv, Counted

\* A step that leaves the table and the rounds alone is such a step.
LEMMA LastsFrame == UNCHANGED <<grabbed, rounds, jobs, stored>> => Lasts
BY DEF Lasts, Kept

\* So is a write that takes a row out, made or failed, and one that adds none.
LEMMA LastsWrite ==
  ASSUME NEW rows \in SUBSET jobs, UNCHANGED <<grabbed, rounds>>, Writes(rows) \/ WriteFails(rows)
  PROVE  Lasts /\ (Writes(rows) => Kept' = rows)
BY DEF Lasts, Kept, Writes, WriteFails

\* A request that is not a grab may leave at any moment.
LEMMA LeaveStep ==
  ASSUME TypeInv, LedgerInv, NEW t \in Threads, Leave(t), req[t].op # "start",
         Lasts, retries' = retries
  PROVE  LedgerInv' /\ Simulates
<1>1. Consistent(Idle) /\ Idle \in Requests /\ Idle.op = "none" /\ Idle.pc = "idle"
  BY IdleType DEF Consistent, Idle
<1> QED BY <1>1, QuietStep DEF Leave

\* No grab has begun, so nothing is to be accounted for.
LEMMA LedgerInit == Init => LedgerInv
<1> SUFFICES ASSUME Init PROVE LedgerInv
  OBVIOUS
<1>1. \A t \in Threads : req[t].op = "none" /\ Consistent(req[t]) /\ req[t].pc = "idle"
  BY DEF Init, Consistent, Idle
<1>2. \A j \in Jobs : rounds[j] = 0 /\ j \notin DOMAIN retries
  BY DEF Init, EmptyDict
<1> QED BY <1>1, <1>2 DEF Init, LedgerInv, Served, Counted, Kept

\* The requests and the retry counters stay, and the table only shrinks.
LEMMA LedgerFrame ==
  ASSUME LedgerInv, Lasts, UNCHANGED <<retries, req>>
  PROVE  LedgerInv' /\ Simulates
<1>1. Settled' = Settled
  BY DEF Settled, Opening, Lasts
<1>2. Served'
  BY <1>1 DEF LedgerInv, Served, Consistent, Lasts
<1>3. Counted'
  BY <1>1 DEF LedgerInv, Counted, Used, Lasts
<1>4. Simulates
  BY <1>1, <1>2, SettleLedger DEF LedgerInv, Lasts, Served
<1> QED BY <1>2, <1>3, <1>4 DEF LedgerInv

\* Only a restart and another user of the table matter to the ledger: a restart
\* ends every grab under way and forgets every round granted, and the write of a
\* release takes along what a failed one left.
LEMMA LedgerEnvironment ==
  ASSUME TypeInv, LedgerInv, Environment
  PROVE  LedgerInv' /\ Simulates
<1>1. CASE Restart
  <2>1. \A t \in Threads : req'[t] = Idle
    BY <1>1 DEF Restart
  <2>2. Idle.op = "none" /\ Idle.pc = "idle" /\ Idle.job = NoJob /\ Idle.todo = {} /\ Idle.purge = {}
    BY DEF Idle
  <2>3. Settled' = grabbed
    BY <1>1, <2>1, <2>2 DEF Settled, Opening, Restart
  <2>4. Kept' = stored /\ Kept' \subseteq Settled'
    BY <1>1, <2>3 DEF Restart, LedgerInv, Served, Settled, Kept
  <2>5. \A t \in Threads : Consistent(req[t])'
    BY <2>1, <2>2 DEF Consistent
  <2>6. Served'
    BY <2>1, <2>2, <2>4, <2>5 DEF Served
  <2>7. \A j \in Jobs : rounds'[j] = 0 /\ j \notin DOMAIN retries'
    BY <1>1 DEF Restart, EmptyDict
  <2>8. Kept' \subseteq Jobs /\ MaxRetries \in Nat
    BY <1>1, <2>4, SettingsAssumption DEF TypeInv, TypeOK
  <2>9. \A j \in Kept' : rounds'[j] = Used(j)' /\ rounds'[j] <= MaxRetries
    BY <2>7, <2>8 DEF Used
  <2>10. Counted'
    BY <2>1, <2>2, <2>7, <2>9 DEF Counted
  <2>11. \A j \in Jobs : Stage(j)' = IF Stage(j) \in {"opening", "unsure"} THEN "gone" ELSE Stage(j)
    <3> SUFFICES ASSUME NEW j \in Jobs
                 PROVE  Stage(j)' = IF Stage(j) \in {"opening", "unsure"} THEN "gone" ELSE Stage(j)
      OBVIOUS
    <3>1. j \in Kept => j \in grabbed
      BY DEF LedgerInv, Served, Settled
    <3>2. grabbed' = grabbed /\ jobs' = stored /\ stored' = stored /\ ~Opening(j)'
      BY <1>1, <2>1, <2>2 DEF Restart, Opening
    <3> QED BY <3>1, <3>2 DEF Stage, Kept
  <2>12. Ledger!Reset
    BY <2>7, <2>11 DEF Ledger!Reset
  <2> QED BY <2>6, <2>10, <2>12 DEF LedgerInv, Simulates, Ledger!Next
<1>2. CASE ReleaseWrite \/ ReleaseWriteFails
  BY <1>2, LastsWrite, LedgerFrame DEF ReleaseWrite, ReleaseWriteFails, memory
<1>3. CASE ~Restart /\ ~ReleaseWrite /\ ~ReleaseWriteFails
  <2>1. UNCHANGED <<grabbed, rounds, jobs, stored, retries, req>>
    BY <1>3 DEF Environment, PeerSends, TransferSucceeds, TransferFails, LateEnqueue, Tick, table, memory
  <2> QED BY <2>1, LastsFrame, LedgerFrame
<1> QED BY <1>1, <1>2, <1>3

\* A request begins: a grab takes a fresh id, the others look at settled ones.
LEMMA LedgerBegin ==
  ASSUME TypeInv, TypeInv', LedgerInv, NEW t \in Threads, Begin(t)
  PROVE  LedgerInv' /\ Simulates
<1>a. TypeOK /\ Served /\ req[t] \in Requests
  BY DEF TypeInv, TypeOK, LedgerInv
<1>r. \A r : Become(t, r) => r \in Requests
  BY DEF TypeInv, TypeOK, Become
<1>1. CASE PollBegin(t)
  <2> DEFINE r == [Idle EXCEPT !.op = "poll", !.pc = "rows", !.now = clock]
  <2>1. Consistent(r) /\ r.op = "poll" /\ r.pc # "forget"
    BY DEF Consistent, Idle
  <2>2. req[t].op # "start" /\ Become(t, r)
    BY <1>a, <1>1 DEF PollBegin, Served, Consistent
  <2> HIDE DEF r
  <2>3. Lasts /\ retries' = retries
    BY <1>1, LastsFrame DEF PollBegin, table, memory
  <2> QED BY <1>r, <2>1, <2>2, <2>3, QuietStep
<1>2. ASSUME NEW j \in Jobs, RemoveBegin(t, j) PROVE LedgerInv' /\ Simulates
  <2> DEFINE r == [Idle EXCEPT !.op = "remove", !.pc = "locate", !.now = clock,
                               !.files = FilesOf(j), !.purge = {j}]
  <2>1. Consistent(r) /\ r.op = "remove" /\ r.pc # "forget"
    BY <1>a, <1>2 DEF RemoveBegin, Consistent, Served, Idle, Kept
  <2>2. req[t].op # "start" /\ Become(t, r)
    BY <1>a, <1>2 DEF RemoveBegin, Served, Consistent
  <2> HIDE DEF r
  <2>3. Lasts /\ retries' = retries
    BY <1>2, LastsFrame DEF RemoveBegin, table, memory
  <2> QED BY <1>r, <2>1, <2>2, <2>3, QuietStep
<1>3. ASSUME NEW j \in Jobs, StartBegin(t, j) PROVE LedgerInv' /\ Simulates
  <2> DEFINE r == [Idle EXCEPT !.op = "start", !.pc = "enqueue", !.now = clock,
                               !.job = j, !.discs = DOMAIN DiscsOf[j]]
  <2>1. r.op = "start" /\ r.job = j /\ r.todo = {} /\ r.purge = {} /\ r.pc = "enqueue"
    BY DEF Idle
  <2>2. req[t].op # "start" /\ j \notin grabbed /\ grabbed' = grabbed \cup {j}
    BY <1>a, <1>3 DEF StartBegin, Served, Consistent
  <2>3. Become(t, r)
    BY <1>3 DEF StartBegin
  <2> HIDE DEF r
  <2>4. req'[t] = r /\ \A u \in Threads \ {t} : req'[u] = req[u]
    BY <1>a, <2>3 DEF TypeOK, Become
  <2>5. \A u \in Threads : req[u].op = "start" => req[u].job \in grabbed
    BY <1>a DEF Served, Consistent
  <2>6. Settled' = Settled
    BY <2>1, <2>2, <2>4 DEF Settled, Opening
  <2>7. \A u \in Threads : Consistent(req[u])'
    BY <1>a, <2>1, <2>2, <2>4, <2>6 DEF Served, Consistent
  <2>0. jobs' = jobs /\ stored' = stored /\ rounds' = rounds /\ retries' = retries
    BY <1>3 DEF StartBegin, table, memory
  <2>8. Served'
    BY <1>a, <2>0, <2>1, <2>2, <2>4, <2>5, <2>6, <2>7 DEF Served, Kept
  <2>9. Counted'
    BY <2>0, <2>1, <2>4, <2>6 DEF LedgerInv, Counted, Used, Kept
  <2>10. Stage(j) = "new" /\ Stage(j)' = "opening" /\ \A k \in Jobs \ {j} : Stage(k)' = Stage(k)
    <3>1. j \notin jobs /\ j \notin stored
      BY <1>a, <2>2 DEF Served, Settled, Kept
    <3>2. Opening(j)' /\ \A k \in Jobs \ {j} : Opening(k)' = Opening(k)
      BY <2>1, <2>2, <2>4 DEF Opening
    <3> QED BY <2>0, <2>2, <3>1, <3>2 DEF Stage
  <2>11. Ledger!Open(j)
    BY <2>0, <2>10 DEF Ledger!Open, Kept
  <2> QED BY <2>8, <2>9, <2>11 DEF LedgerInv, Simulates, Ledger!Next
<1> QED BY <1>1, <1>2, <1>3 DEF Begin

\* A grab's request ends, with its row or without: it becomes settled.
LEMMA SettleStep ==
  ASSUME TypeInv, LedgerInv, NEW t \in Threads, req[t].op = "start", Leave(t), grabbed' = grabbed,
         retries' = retries, rounds' = rounds,
         Kept' \subseteq Kept \cup {req[t].job}, stored \cap jobs' \subseteq stored'
  PROVE  LedgerInv' /\ Simulates
<1>0. PICK j \in Jobs : j = req[t].job /\ j \in grabbed
  BY DEF TypeInv, TypeOK, LedgerInv, Served, Consistent
<1>a. TypeOK /\ Served /\ Counted
  BY DEF TypeInv, LedgerInv
<1>1. req'[t] = Idle /\ \A u \in Threads \ {t} : req'[u] = req[u]
  BY <1>a DEF TypeOK, Leave, Become
<1>2. Idle.op = "none" /\ Idle.pc = "idle" /\ Idle.job = NoJob /\ Idle.todo = {} /\ Idle.purge = {}
  BY DEF Idle
<1>3. j \notin Settled
  BY <1>0 DEF Settled, Opening
<1>4. \A u \in Threads \ {t} : req[u].op = "start" => req[u].job # j
  BY <1>0, <1>a DEF Served
<1>5. Settled' = Settled \cup {j}
  BY <1>0, <1>1, <1>2, <1>4 DEF Settled, Opening
<1>6. \A u \in Threads : Consistent(req[u])'
  BY <1>0, <1>a, <1>1, <1>2, <1>5 DEF Served, Consistent
<1>7. Served'
  BY <1>0, <1>a, <1>1, <1>2, <1>5, <1>6 DEF Served
<1>8. \A u \in Threads : req'[u].pc = "forget" => req'[u].job \notin Kept'
  <2> SUFFICES ASSUME NEW u \in Threads, req'[u].pc = "forget" PROVE req'[u].job \notin Kept'
    OBVIOUS
  <2>1. u # t /\ req'[u] = req[u]
    BY <1>1, <1>2
  <2>2. req[u].job \notin Kept /\ req[u].job \in Settled \cup {NoJob}
    BY <1>a, <2>1 DEF Served, Counted, Consistent
  <2>3. req[u].job # j
    BY <1>0, <1>3, <2>2, SettingsAssumption
  <2> QED BY <1>0, <2>1, <2>2, <2>3
<1>9. rounds[j] = 0 /\ Used(j) = 0 /\ MaxRetries \in Nat
  BY <1>a, <1>3, SettingsAssumption DEF Counted, Used
<1>10. Counted'
  BY <1>0, <1>a, <1>5, <1>8, <1>9 DEF Counted, Used
<1>11. Simulates
  BY <1>0, <1>a, <1>3, <1>5, <1>7, SettleLedger DEF Served
<1> QED BY <1>7, <1>10, <1>11 DEF LedgerInv

\* A step of a request: a grab settles when it adds its row or raises, a poll's
\* reservation is one granted round, a drop takes the row away before the entries.
LEMMA LedgerWork ==
  ASSUME TypeInv, TypeInv', LedgerInv, NEW t \in Threads, Work(t)
  PROVE  LedgerInv' /\ Simulates
<1>a. TypeOK /\ req[t] \in Requests /\ Consistent(req[t]) /\ Served /\ Counted
  BY DEF TypeInv, TypeOK, LedgerInv, Served
<1>r. \A r : Become(t, r) => r \in Requests
  BY DEF TypeInv, TypeOK, Become
<1>1. CASE StartEnqueue(t)
  <2>1. PICK r : /\ Become(t, r)
                 /\ r.op = req[t].op /\ r.job = req[t].job /\ r.todo = req[t].todo /\ r.purge = req[t].purge
                 /\ r.pc \in {"enqueue", "add", "locate"} /\ req[t].pc = "enqueue"
    BY <1>a, <1>1 DEF StartEnqueue, Requests
  <2>2. Consistent(r)
    BY <1>a, <2>1 DEF Consistent
  <2>9. Lasts /\ retries' = retries
    BY <1>1, LastsFrame DEF StartEnqueue, table, memory
  <2> QED BY <1>r, <2>1, <2>2, <2>9, QuietStep
<1>2. CASE StartAdd(t)
  <2>1. req[t].op = "start" /\ Leave(t) /\ grabbed' = grabbed /\ retries' = retries /\ rounds' = rounds
    BY <1>a, <1>2 DEF StartAdd, memory, Consistent
  <2>2. Kept' \subseteq Kept \cup {req[t].job} /\ stored \cap jobs' \subseteq stored'
    BY <1>2 DEF StartAdd, Writes, WriteFails, Kept
  <2> QED BY <2>1, <2>2, SettleStep
<1>3. CASE StartRaise(t)
  <2>1. req[t].op = "start" /\ Leave(t) /\ grabbed' = grabbed /\ retries' = retries /\ rounds' = rounds
    BY <1>a, <1>3 DEF StartRaise, memory, Consistent
  <2>2. Kept' \subseteq Kept \cup {req[t].job} /\ stored \cap jobs' \subseteq stored'
    BY <1>3 DEF StartRaise, table, Kept
  <2> QED BY <2>1, <2>2, SettleStep
<1>4. CASE CancelLocate(t)
  <2> DEFINE found == Running(req[t].files)
             p == [req[t] EXCEPT !.cancels = found, !.pc = IF found = {} THEN AfterCancel(t) ELSE "cancel"]
             q == [req[t] EXCEPT !.pc = AfterCancel(t)]
  <2>0. \A x \in {p, q} : /\ x.op = req[t].op /\ x.job = req[t].job /\ x.todo = req[t].todo /\ x.purge = req[t].purge
                          /\ x.pc \in {AfterCancel(t), "cancel"}
    BY <1>a DEF Requests
  <2>5. Become(t, p) \/ Become(t, q)
    BY <1>4 DEF CancelLocate
  <2> HIDE DEF p, q
  <2>1. PICK r \in {p, q} : /\ Become(t, r) /\ r.op = req[t].op /\ r.job = req[t].job /\ r.todo = req[t].todo /\ r.purge = req[t].purge
                            /\ r.pc \in {AfterCancel(t), "cancel"}
    BY <2>0, <2>5
  <2>2. req[t].pc = "locate"
    BY <1>4 DEF CancelLocate
  <2>3. AfterCancel(t) = (IF req[t].op = "remove" THEN "drop" ELSE "raise")
    BY DEF AfterCancel
  <2>4. Consistent(r)
    BY <1>a, <2>1, <2>2, <2>3 DEF Consistent
  <2>9. Lasts /\ retries' = retries
    BY <1>4, LastsFrame DEF CancelLocate, table, memory
  <2> QED BY <1>r, <2>1, <2>3, <2>4, <2>9, QuietStep
<1>5. CASE CancelOne(t)
  <2>0. PICK c : Become(t, [req[t] EXCEPT !.cancels = req[t].cancels \ {c},
                                         !.pc = IF req[t].cancels \ {c} = {} THEN AfterCancel(t) ELSE "cancel"])
    BY <1>5 DEF CancelOne
  <2> DEFINE r == [req[t] EXCEPT !.cancels = req[t].cancels \ {c},
                                 !.pc = IF req[t].cancels \ {c} = {} THEN AfterCancel(t) ELSE "cancel"]
  <2>1. /\ Become(t, r) /\ r.op = req[t].op /\ r.job = req[t].job /\ r.todo = req[t].todo /\ r.purge = req[t].purge
        /\ r.pc \in {AfterCancel(t), "cancel"}
    BY <1>a, <2>0 DEF Requests
  <2> HIDE DEF r
  <2>2. req[t].pc = "cancel"
    BY <1>5 DEF CancelOne
  <2>3. AfterCancel(t) = (IF req[t].op = "remove" THEN "drop" ELSE "raise")
    BY DEF AfterCancel
  <2>4. Consistent(r)
    BY <1>a, <2>1, <2>2, <2>3 DEF Consistent
  <2>9. Lasts /\ retries' = retries
    BY <1>5, LastsFrame DEF CancelOne, table, memory
  <2> QED BY <1>r, <2>1, <2>3, <2>4, <2>9, QuietStep
<1>18. CASE PollRows(t)
  <2>1. req[t].op # "start" /\ req[t].pc = "rows"
    BY <1>a, <1>18 DEF PollRows, Consistent
  <2>2. Lasts /\ retries' = retries
    BY <1>18, LastsFrame DEF PollRows, table, memory
  <2>3. CASE Leave(t)
    BY <2>1, <2>2, <2>3, LeaveStep
  <2>4. CASE ~Leave(t)
    <3> DEFINE peers == {JobUser[j] : j \in jobs}
               r == [req[t] EXCEPT !.todo = jobs, !.users = peers,
                                   !.pc = IF peers = {} THEN "visit" ELSE "list"]
    <3>1. Become(t, r)
      BY <1>18, <2>4 DEF PollRows
    <3>2. /\ r.op = req[t].op /\ r.job = req[t].job /\ r.todo = jobs /\ r.purge = req[t].purge
          /\ r.pc \in {"list", "visit"}
      BY <1>a DEF Requests
    <3> HIDE DEF r
    <3>3. Consistent(r)
      BY <1>a, <2>1, <3>2 DEF Consistent, Served, Kept
    <3> QED BY <1>r, <2>1, <2>2, <3>1, <3>2, <3>3, QuietStep
  <2> QED BY <2>3, <2>4
<1>6. CASE PollList(t)
  <2>1. req[t].op # "start" /\ req[t].pc = "list"
    BY <1>a, <1>6 DEF PollList, Consistent
  <2>4. Lasts /\ retries' = retries
    BY <1>6, LastsFrame DEF PollList, table, memory
  <2>2. CASE Leave(t)
    BY <2>1, <2>2, <2>4, LeaveStep
  <2>3. CASE ~Leave(t)
    <3>0. PICK u, snap : Become(t, [req[t] EXCEPT !.users = req[t].users \ {u}, !.snap = snap,
                                                 !.pc = IF req[t].users \ {u} = {} THEN "visit" ELSE "list"])
      BY <1>6, <2>3 DEF PollList
    <3> DEFINE r == [req[t] EXCEPT !.users = req[t].users \ {u}, !.snap = snap,
                                   !.pc = IF req[t].users \ {u} = {} THEN "visit" ELSE "list"]
    <3>1. /\ Become(t, r) /\ r.op = req[t].op /\ r.job = req[t].job /\ r.todo = req[t].todo /\ r.purge = req[t].purge
          /\ r.pc \in {"list", "visit"}
      BY <1>a, <3>0 DEF Requests
    <3> HIDE DEF r
    <3>2. Consistent(r)
      BY <1>a, <2>1, <3>1 DEF Consistent
    <3> QED BY <1>r, <2>1, <2>4, <3>1, <3>2, QuietStep
  <2> QED BY <2>2, <2>3
<1>7. ASSUME NEW j \in Jobs, VisitCompleted(t, j) PROVE LedgerInv' /\ Simulates
  <2>1. req[t].op # "start" /\ req[t].pc = "visit" /\ j \in req[t].todo
    BY <1>a, <1>7 DEF VisitCompleted, Consistent
  <2>4. Lasts /\ retries' = retries
    BY <1>7, LastsFrame DEF VisitCompleted, table
  <2>2. CASE Leave(t)
    BY <2>1, <2>2, <2>4, LeaveStep
  <2>3. CASE ~Leave(t)
    <3> DEFINE r == [req[t] EXCEPT !.todo = @ \ {j}, !.job = j, !.pc = "conclude", !.verdict = "completed"]
    <3>1. /\ Become(t, r) /\ r.op = req[t].op /\ r.job = j /\ r.todo = req[t].todo \ {j} /\ r.purge = req[t].purge
          /\ r.pc = "conclude"
      BY <1>a, <1>7, <2>3 DEF VisitCompleted, Requests
    <3> HIDE DEF r
    <3>2. Consistent(r)
      BY <1>a, <2>1, <3>1 DEF Consistent
    <3> QED BY <1>r, <2>1, <2>4, <3>1, <3>2, QuietStep
  <2> QED BY <2>2, <2>3
<1>8. ASSUME NEW j \in Jobs, VisitFailed(t, j) PROVE LedgerInv' /\ Simulates
  <2>1. req[t].op # "start" /\ req[t].pc = "visit" /\ j \in req[t].todo
    BY <1>a, <1>8 DEF VisitFailed, Consistent
  <2> DEFINE chosen == {i \in DOMAIN DiscsOf[j] : RetryFiles(req[t].snap, j, i) # {}}
             p == [req[t] EXCEPT !.todo = @ \ {j}, !.job = j, !.pc = "retry", !.discs = chosen]
             q == [req[t] EXCEPT !.todo = @ \ {j}, !.job = j, !.pc = "conclude", !.verdict = "failed"]
  <2>0. \A x \in {p, q} : /\ x.op = req[t].op /\ x.job = j /\ x.todo = req[t].todo \ {j} /\ x.purge = req[t].purge
                          /\ x.pc \in {"retry", "conclude"}
    BY <1>a DEF Requests
  <2>6. Become(t, p) \/ Become(t, q)
    BY <1>8 DEF VisitFailed
  <2> HIDE DEF p, q
  <2>2. PICK r \in {p, q} : /\ Become(t, r) /\ r.op = req[t].op /\ r.job = j /\ r.todo = req[t].todo \ {j} /\ r.purge = req[t].purge
                            /\ r.pc \in {"retry", "conclude"}
    BY <2>0, <2>6
  <2>3. Consistent(r)
    BY <1>a, <2>1, <2>2 DEF Consistent
  <2>4. CASE HasBudget(Used(j))
    <3>1. /\ retries' = Put(retries, j, Used(j) + 1)
          /\ rounds' = [rounds EXCEPT ![j] = @ + 1]
          /\ jobs' = jobs /\ stored' = stored /\ Kept' = Kept /\ grabbed' = grabbed
      BY <1>8, <2>4 DEF VisitFailed, table, Kept
    <3>2. Settled' = Settled /\ Served'
      BY <1>a, <1>r, <2>1, <2>2, <2>3, <3>1, ServeStep
    <3>3. j \in Settled
      BY <1>a, <2>1 DEF Consistent
    <3>4. \A u \in Threads : req'[u].pc = "forget" => req'[u].job \notin Kept'
      BY <1>a, <2>2, <3>1 DEF Counted, TypeOK, Become
    <3>5. \A k \in Jobs \ Settled' : rounds'[k] = 0 /\ k \notin DOMAIN retries'
      BY <1>a, <3>1, <3>2, <3>3 DEF Counted, Put, TypeOK
    <3>6. Used(j)' = Used(j) + 1 /\ \A k \in Jobs \ {j} : Used(k)' = Used(k)
      BY <3>1 DEF Used, Put
    <3>7. Used(j) \in Nat /\ MaxRetries \in Nat /\ Used(j) < MaxRetries
      BY <1>a, <2>4, UsedType, SettingsAssumption DEF TypeOK, HasBudget
    <3>8. \A k \in Kept' : rounds'[k] = Used(k)' /\ rounds'[k] <= MaxRetries
      <4> SUFFICES ASSUME NEW k \in Kept PROVE rounds'[k] = Used(k)' /\ rounds'[k] <= MaxRetries
        BY <3>1
      <4>1. k \in Jobs /\ rounds[k] = Used(k) /\ rounds[k] <= MaxRetries
        BY <1>a DEF TypeOK, Counted, Kept
      <4>2. rounds'[k] = IF k = j THEN rounds[k] + 1 ELSE rounds[k]
        BY <1>a, <3>1, <4>1 DEF TypeOK
      <4> QED BY <3>6, <3>7, <4>1, <4>2
    <3>9. Simulates
      <4>1. CASE j \in Kept
        <5>1. \A k \in Jobs : Stage(k)' = Stage(k)
          BY <3>1, <3>2, StageOf DEF Stage, Settled
        <5>2. Stage(j) \in {"unsure", "tracked"}
          BY <3>3, <4>1 DEF Stage, Settled, Kept
        <5>3. rounds[j] < MaxRetries
          BY <1>a, <3>7, <4>1 DEF Counted
        <5>4. \A k \in Jobs : (IF k \in Kept' THEN rounds'[k] ELSE 0)
                = IF k = j THEN rounds[j] + 1 ELSE (IF k \in Kept THEN rounds[k] ELSE 0)
          BY <1>a, <3>1, <4>1 DEF TypeOK
        <5>5. Ledger!Retry(j)
          BY <4>1, <5>1, <5>2, <5>3, <5>4 DEF Ledger!Retry
        <5> QED BY <5>5 DEF Simulates, Ledger!Next
      <4>2. CASE j \notin Kept
        <5>1. \A k \in Kept : rounds'[k] = rounds[k]
          BY <1>a, <3>1, <4>2 DEF TypeOK, Kept
        <5> QED BY <3>1, <3>2, <5>1, StutterStep
      <4> QED BY <4>1, <4>2
    <3> QED BY <3>2, <3>4, <3>5, <3>8, <3>9 DEF LedgerInv, Counted
  <2>5. CASE ~HasBudget(Used(j))
    <3>1. Lasts /\ retries' = retries
      BY <1>8, <2>5, LastsFrame DEF VisitFailed, table
    <3> QED BY <1>r, <2>1, <2>2, <2>3, <3>1, QuietStep
  <2> QED BY <2>4, <2>5
<1>9. ASSUME NEW j \in Jobs, VisitRunning(t, j) PROVE LedgerInv' /\ Simulates
  <2>1. req[t].op # "start" /\ req[t].pc = "visit" /\ j \in req[t].todo
    BY <1>a, <1>9 DEF VisitRunning, Consistent
  <2> DEFINE r == [req[t] EXCEPT !.todo = @ \ {j}, !.job = j, !.pc = "stall"]
  <2>2. /\ Become(t, r) /\ r.op = req[t].op /\ r.job = j /\ r.todo = req[t].todo \ {j} /\ r.purge = req[t].purge
        /\ r.pc = "stall"
    BY <1>a, <1>9 DEF VisitRunning, Requests
  <2> HIDE DEF r
  <2>3. Consistent(r)
    BY <1>a, <2>1, <2>2 DEF Consistent
  <2>9. Lasts /\ retries' = retries
    BY <1>9, LastsFrame DEF VisitRunning, table, memory
  <2> QED BY <1>r, <2>1, <2>2, <2>3, <2>9, QuietStep
<1>10. CASE RetryEnqueue(t)
  <2>1. PICK r : /\ Become(t, r)
                 /\ r.op = req[t].op /\ r.job = req[t].job /\ r.todo = req[t].todo /\ r.purge = req[t].purge
                 /\ r.pc \in {"retry", "stall"} /\ req[t].pc = "retry"
    BY <1>a, <1>10 DEF RetryEnqueue, Requests
  <2>2. Consistent(r)
    BY <1>a, <2>1 DEF Consistent
  <2>9. Lasts /\ retries' = retries
    BY <1>10, LastsFrame DEF RetryEnqueue, table, memory
  <2> QED BY <1>r, <2>1, <2>2, <2>9, QuietStep
<1>11. CASE StallCheck(t)
  <2>1. PICK r : /\ Become(t, r)
                 /\ r.op = req[t].op /\ r.job = req[t].job /\ r.todo = req[t].todo /\ r.purge = req[t].purge
                 /\ r.pc \in {"conclude", "visit"} /\ req[t].pc = "stall"
    BY <1>a, <1>11 DEF StallCheck, Requests
  <2>2. Consistent(r)
    BY <1>a, <2>1 DEF Consistent
  <2>9. Lasts /\ retries' = retries
    BY <1>11, LastsFrame DEF StallCheck, table, memory
  <2> QED BY <1>r, <2>1, <2>2, <2>9, QuietStep
<1>12. CASE Conclude(t)
  <2>1. req[t].op # "start" /\ req[t].pc = "conclude" /\ req[t].job \in Settled
    <3>1. req[t].job \in Jobs
      BY <1>12 DEF TypeInv, Controlled, Conclude
    <3> QED BY <1>a, <1>12, <3>1, SettingsAssumption DEF Conclude, Consistent
  <2> DEFINE p == [req[t] EXCEPT !.pc = "visit", !.purge = @ \cup {req[t].job}]
             q == [req[t] EXCEPT !.pc = "visit", !.views[req[t].job] = Reported(req[t].verdict)]
  <2>0. \A x \in {p, q} : /\ x.op = req[t].op /\ x.job = req[t].job /\ x.todo = req[t].todo
                          /\ x.purge \subseteq req[t].purge \cup {req[t].job}
                          /\ x.pc = "visit"
    BY <1>a DEF Requests
  <2>4. Become(t, p) \/ Become(t, q)
    BY <1>12 DEF Conclude
  <2> HIDE DEF p, q
  <2>2. PICK r \in {p, q} : /\ Become(t, r) /\ r.op = req[t].op /\ r.job = req[t].job /\ r.todo = req[t].todo
                            /\ r.purge \subseteq req[t].purge \cup {req[t].job}
                            /\ r.pc = "visit"
    BY <2>0, <2>4
  <2>3. Consistent(r)
    BY <1>a, <2>1, <2>2 DEF Consistent
  <2>9. Lasts /\ retries' = retries
    BY <1>12, LastsFrame DEF Conclude, table, memory
  <2> QED BY <1>r, <2>1, <2>2, <2>3, <2>9, QuietStep
<1>13. CASE PollLoopEnds(t)
  <2>1. PICK r : /\ Become(t, r)
                 /\ r.op = req[t].op /\ r.job = req[t].job /\ r.todo = req[t].todo /\ r.purge = req[t].purge
                 /\ r.pc \in {"return", "drop"} /\ req[t].pc = "visit"
    BY <1>a, <1>13 DEF PollLoopEnds, Requests
  <2>2. Consistent(r)
    BY <1>a, <2>1 DEF Consistent
  <2>9. Lasts /\ retries' = retries
    BY <1>13, LastsFrame DEF PollLoopEnds, table, memory
  <2> QED BY <1>r, <2>1, <2>2, <2>9, QuietStep
<1>14. CASE DropJob(t)
  <2>0. req[t].op # "start" /\ retries' = retries
    BY <1>a, <1>14 DEF DropJob, Consistent, memory
  <2>1. PICK j \in req[t].purge :
          \/ /\ Writes(jobs \ {j})
             /\ Become(t, [req[t] EXCEPT !.job = j, !.pc = "forget"])
          \/ WriteFails(jobs \ {j}) /\ Leave(t)
    BY <1>14 DEF DropJob
  <2>2. Lasts /\ (Writes(jobs \ {j}) => Kept' = jobs \ {j})
    <3>1. UNCHANGED <<grabbed, rounds>>
      BY <1>14 DEF DropJob, memory
    <3> QED BY <2>1, <3>1, LastsWrite
  <2>3. CASE Leave(t)
    BY <2>0, <2>2, <2>3, LeaveStep
  <2>4. CASE ~Leave(t)
    <3> DEFINE r == [req[t] EXCEPT !.job = j, !.pc = "forget"]
    <3>1. Become(t, r) /\ Kept' = jobs \ {j}
      BY <2>1, <2>2, <2>4
    <3>2. /\ r.op = req[t].op /\ r.job = j /\ r.todo = req[t].todo /\ r.purge = req[t].purge
          /\ r.pc = "forget"
      BY <1>a DEF Requests
    <3> HIDE DEF r
    <3>3. Consistent(r)
      BY <1>a, <2>0, <2>1, <3>2 DEF Consistent
    <3> QED BY <1>r, <2>0, <2>2, <3>1, <3>2, <3>3, QuietStep
  <2> QED BY <2>3, <2>4
<1>15. CASE ForgetJob(t)
  <2> DEFINE j == req[t].job
  <2>1. PICK r : /\ Become(t, r)
                 /\ r.op = req[t].op /\ r.job = req[t].job /\ r.todo = req[t].todo
                 /\ r.purge \subseteq req[t].purge
                 /\ r.pc \in {"return", "drop"} /\ req[t].pc = "forget"
    BY <1>a, <1>15 DEF ForgetJob, Requests
  <2>2. req[t].op # "start" /\ Consistent(r)
    BY <1>a, <2>1 DEF Consistent
  <2>3. retries' = Pop(retries, j) /\ rounds' = rounds /\ grabbed' = grabbed
        /\ jobs' = jobs /\ stored' = stored /\ Kept' = Kept
    BY <1>15 DEF ForgetJob, ForgetEntries, table, Kept
  <2>4. Settled' = Settled /\ Served'
    BY <1>a, <1>r, <2>1, <2>2, <2>3, ServeStep
  <2>5. \A u \in Threads : req'[u].pc = "forget" => req'[u].job \notin Kept'
    BY <1>a, <2>1, <2>3 DEF Counted, TypeOK, Become
  <2>6. \A k \in Jobs \ Settled' : rounds'[k] = 0 /\ k \notin DOMAIN retries'
    BY <1>a, <2>3, <2>4 DEF Counted, Pop
  <2>7. j \notin Kept
    BY <1>a, <2>1 DEF Counted
  <2>8. \A k \in Kept' : rounds'[k] = Used(k)' /\ rounds'[k] <= MaxRetries
    BY <1>a, <2>3, <2>7 DEF Counted, Used, Pop
  <2>9. Simulates
    BY <2>3, <2>4, StutterStep
  <2> QED BY <2>4, <2>5, <2>6, <2>8, <2>9 DEF LedgerInv, Counted
<1>16. CASE QueueAnswers(t) \/ HistoryAnswers(t)
  <2>1. req[t].op # "start"
    BY <1>16 DEF QueueAnswers, HistoryAnswers, Answers
  <2>2. Leave(t) /\ Lasts /\ retries' = retries
    BY <1>16, LastsFrame DEF QueueAnswers, HistoryAnswers, Answers, table, memory
  <2> QED BY <2>1, <2>2, LeaveStep
<1>17. CASE RemoveReturns(t)
  <2>1. req[t].op # "start" /\ Leave(t) /\ Lasts /\ retries' = retries
    BY <1>17, LastsFrame DEF RemoveReturns, table, memory
  <2> QED BY <2>1, LeaveStep
<1> QED
  BY <1>1, <1>2, <1>3, <1>4, <1>5, <1>6, <1>7, <1>8, <1>9, <1>10, <1>11, <1>12,
     <1>13, <1>14, <1>15, <1>16, <1>17, <1>18 DEF Work, Visit

\* Every step keeps the invariant and is a step or a stutter of the ledger.
LEMMA LedgerStep == TypeInv /\ TypeInv' /\ LedgerInv /\ [Next]_vars => LedgerInv' /\ Simulates
<1> SUFFICES ASSUME TypeInv, TypeInv', LedgerInv, [Next]_vars PROVE LedgerInv' /\ Simulates
  OBVIOUS
<1>1. CASE Next
  BY <1>1, LedgerEnvironment, LedgerBegin, LedgerWork DEF Next
<1>2. CASE UNCHANGED vars
  BY <1>2, LastsFrame, LedgerFrame DEF vars, table, memory
<1> QED BY <1>1, <1>2

\* In every reachable state each grab is one request's and settled once, and the
\* retry counter of a tracked job counts the rounds granted to it.
THEOREM LedgerInvariant == Spec => []LedgerInv
BY TypeInvariant, LedgerInit, LedgerStep, PTL DEF Spec

\* However many threads poll, retry, remove and restart, one process never
\* grants a job it still tracks, or may get back, more than MaxRetries retry rounds.
THEOREM RetryBudgetHolds == Spec => []RetryBudget
<1>1. LedgerInv => RetryBudget
  BY DEF LedgerInv, Counted, RetryBudget
<1> QED BY <1>1, LedgerInvariant, PTL

\* The service implements the ledger: whatever threads, polls, removals, purges,
\* failing writes and restarts do, a grab is answered at most once, a job that is
\* gone never comes back, and a tracked job is retried within its budget.
THEOREM ServiceKeepsLedger == Spec => KeepsLedger
<1>1. Init => Ledger!Init
  <2> SUFFICES ASSUME Init PROVE Ledger!Init
    OBVIOUS
  <2>1. \A j \in Jobs : Stage(j) = "new" /\ j \notin Kept
    BY DEF Init, Stage, Kept
  <2> QED BY <2>1 DEF Ledger!Init
<1>2. TypeInv /\ TypeInv' /\ LedgerInv /\ [Next]_vars => [Ledger!Next]_(Ledger!ledger)
  BY LedgerStep DEF Simulates
<1> QED
  BY <1>1, <1>2, TypeInvariant, LedgerInvariant, PTL DEF Spec, KeepsLedger, Ledger!Spec

=============================================================================
