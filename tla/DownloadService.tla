--------------------------- MODULE DownloadService ---------------------------
(***************************************************************************)
(* The download half of the bridge: domain/download_service.py run by the  *)
(* worker threads of waitress, over the job table and over slskd.          *)
(*                                                                         *)
(* A thread serves one request at a time and req[t] holds its local        *)
(* variables.  A step of a thread is one access to what threads share: one *)
(* call of slskd, one statement on the job table, or one section under     *)
(* DownloadService._lock.  Code between two such accesses reads and writes *)
(* locals only and is part of the step before it.                          *)
(*                                                                         *)
(* slskd is modelled from how the code uses it: it holds at most one       *)
(* transfer per remote file, a new enqueue supersedes a finished transfer  *)
(* (under a new id), and leaves a running one alone.  The table is what    *)
(* Store has of it, with each write in one step: what the one connection   *)
(* sees, and what is committed.                                            *)
(***************************************************************************)
EXTENDS Integers, Sequences, FiniteSets

CONSTANTS
  Threads,      \* worker threads of the WSGI server
  Jobs, NoJob,  \* the nzo ids start() may mint, one per grab of Lidarr
  Users,        \* Soulseek peers
  Files,        \* remote files, each one (peer, filename) pair
  FileUser,     \* [Files -> Users]
  JobUser,      \* [Jobs -> Users], the peer of a grab's payload
  DiscsOf,      \* [Jobs -> Seq(SUBSET Files)], its discs in order
  FileSize,     \* a transfer's bytes are counted from 0 to FileSize
  StallTimeout, MaxRetries, PurgeAfter,  \* settings; 0 disables the stall check
  FaultKinds,   \* which outside failures may happen
  \* Bounds, of the model only:
  MaxClock, MaxFaults, MaxRestarts, MaxBusy, LastGrab

FilesOf(j) == UNION {DiscsOf[j][i] : i \in DOMAIN DiscsOf[j]}

\* What a payload is: files of one peer, grouped in at least one disc.
ASSUME PayloadAssumption ==
  /\ FileUser \in [Files -> Users]
  /\ JobUser \in [Jobs -> Users]
  /\ DiscsOf \in [Jobs -> Seq(SUBSET Files)]
  /\ \A j \in Jobs : DiscsOf[j] # <<>> /\ \A f \in FilesOf(j) : FileUser[f] = JobUser[j]
  /\ IsFiniteSet(Files)

ASSUME SettingsAssumption ==
  /\ NoJob \notin Jobs
  /\ {FileSize, StallTimeout, MaxRetries, PurgeAfter} \subseteq Nat
  /\ {MaxClock, MaxFaults, MaxRestarts, MaxBusy, LastGrab} \subseteq Nat
  /\ FaultKinds \subseteq {"peer", "list", "enqueue", "late", "cancel", "directory", "store"}

VARIABLES
  clock,          \* the time Clock.now() returns
  faults,         \* outside failures so far
  restarts,       \* restarts of the bridge so far
  slskd,          \* [Files -> Transfer]
  late,           \* files of batches slskd may still take, their answer lost
  jobs,           \* rows of the jobs table, as the connection sees them
  stored,         \* rows that are committed
  grabbed,        \* grabs whose request has begun (an id is minted once)
  dirKnown,       \* the gateway has cached downloads_directory()
  retries,        \* DownloadService._retries
  progress,       \* DownloadService._progress
  terminalSince,  \* DownloadService._terminal_since
  rounds,         \* history: retry rounds this process has granted to each job
  astray,         \* history: jobs whose row another write, or a race, took out
  purged,         \* history: jobs a poll set out to drop by itself
  told,           \* history: the state of each job Lidarr was last told
  assured,        \* history: jobs told completed when nothing was in doubt
  req             \* what each thread is doing

memory == <<dirKnown, retries, progress, terminalSince, rounds>>
world == <<clock, restarts, late>>
table == <<jobs, stored, astray>>
heard == <<told, assured>>
vars == <<world, faults, slskd, table, grabbed, purged, memory, heard, req>>

Transfer == [state : {"none", "active", "succeeded", "failed"},
             bytes : 0..FileSize, id : Nat, moved : Nat]
NoTransfer == [state |-> "none", bytes |-> 0, id |-> 0, moved |-> 0]

\* A Python dict: put, pop(k, None).
Put(d, k, v) == [x \in DOMAIN d \cup {k} |-> IF x = k THEN v ELSE d[x]]
Pop(d, k) == [x \in DOMAIN d \ {k} |-> d[x]]
EmptyDict == [x \in {} |-> 0]

Verdicts == {"downloading", "completed", "failed", "stalled"}
ReportedRaw(v) == v
\* "stalled" is the failed state with the stall detector's message.
Reported(v) == IF v = "stalled" THEN "failed" ELSE v

Idle == [op |-> "none", pc |-> "idle", now |-> 0, users |-> {}, todo |-> {},
         snap |-> [f \in Files |-> NoTransfer], job |-> NoJob, discs |-> {},
         files |-> {}, cancels |-> {}, verdict |-> "downloading",
         views |-> [j \in Jobs |-> "nothing"], purge |-> {}]

Init ==
  /\ clock = 0 /\ faults = 0 /\ restarts = 0
  /\ slskd = [f \in Files |-> NoTransfer]
  /\ late = {} /\ jobs = {} /\ stored = {} /\ grabbed = {}
  /\ astray = {} /\ purged = {} /\ assured = {}
  /\ dirKnown = FALSE
  /\ retries = EmptyDict /\ progress = EmptyDict /\ terminalSince = EmptyDict
  /\ rounds = [j \in Jobs |-> 0]
  /\ told = [j \in Jobs |-> "nothing"]
  /\ req = [t \in Threads |-> Idle]

Fault(kind) == kind \in FaultKinds /\ faults < MaxFaults /\ faults' = faults + 1

\* Thread t's locals become r.
Become(t, r) == req' = [req EXCEPT ![t] = r]

\* The handler returns, or an exception leaves it: the thread is free again.
Leave(t) == Become(t, Idle)

\* Poll t has listed job j and not yet passed its verdict on it.
Judges(t, j) ==
  req[t].op = "poll" /\ \/ j \in req[t].todo
                        \/ req[t].pc \in {"retry", "stall", "conclude"} /\ req[t].job = j

-----------------------------------------------------------------------------
(* The job table.                                                            *)

\* Rows there are, or that a rollback may bring back.
Kept == jobs \cup stored

\* The table is to hold rows: the commit takes along whatever was left open.
Writes(rows) == jobs' = rows /\ stored' = rows

\* The statement or its commit raises, and SQLite leaves the transaction open, as
\* it was or with the statement's effect, or rolls it back (see Store).
WriteFails(rows) ==
  /\ Fault("store")
  /\ jobs' \in {jobs, rows, stored}
  /\ UNCHANGED stored

\* Which rows go in this step, other than those it is there to take out.
Strays(own) == astray' = astray \cup (Kept \ (Kept' \cup own))

\* A search stores or purges releases on the same connection.
ReleaseWrite ==
  /\ jobs # stored
  /\ Writes(jobs)
  /\ Strays({})
  /\ UNCHANGED <<world, faults, slskd, grabbed, purged, memory, heard, req>>

ReleaseWriteFails ==
  /\ jobs # stored
  /\ WriteFails(jobs)
  /\ Strays({})
  /\ UNCHANGED <<world, slskd, grabbed, purged, memory, heard, req>>

-----------------------------------------------------------------------------
(* slskd and the peers: the environment.                                     *)

\* A batch POST: running transfers are left alone, others begin afresh.
Enqueued(batch) ==
  [f \in Files |-> IF f \in batch /\ slskd[f].state # "active"
                   THEN [state |-> "active", bytes |-> 0, id |-> slskd[f].id + 1, moved |-> 0]
                   ELSE slskd[f]]

\* A batch POST is accepted; or it raises, because slskd refused the batch, or
\* took it only in part (200, 207), or because its answer was lost on the way:
\* then slskd may take the rest later.
Posts(batch) == slskd' = Enqueued(batch) /\ UNCHANGED <<late, faults>>
PostRaises(batch) ==
  \E kind \in {"enqueue", "late"}, taken \in SUBSET batch :
    /\ Fault(kind)
    /\ slskd' = Enqueued(taken)
    /\ late' = IF kind = "late" THEN late \cup (batch \ taken) ELSE late

LateEnqueue(f) ==
  /\ f \in late
  /\ late' = late \ {f}
  /\ slskd' = Enqueued({f})
  /\ UNCHANGED <<clock, restarts, faults, table, grabbed, purged, memory, heard, req>>

PeerSends(f) ==
  /\ slskd[f].state = "active" /\ slskd[f].bytes < FileSize
  /\ slskd' = [slskd EXCEPT ![f].bytes = @ + 1, ![f].moved = clock]
  /\ UNCHANGED <<world, faults, table, grabbed, purged, memory, heard, req>>

TransferSucceeds(f) ==
  /\ slskd[f].state = "active" /\ slskd[f].bytes = FileSize
  /\ slskd' = [slskd EXCEPT ![f].state = "succeeded"]
  /\ UNCHANGED <<world, faults, table, grabbed, purged, memory, heard, req>>

TransferFails(f) ==
  /\ slskd[f].state = "active"
  /\ Fault("peer")
  /\ slskd' = [slskd EXCEPT ![f].state = "failed"]
  /\ UNCHANGED <<world, table, grabbed, purged, memory, heard, req>>

\* Time passes, but no request outlives MaxBusy: each makes finitely many
\* calls of slskd and each call times out (SlskdGateway's timeout).
Tick ==
  /\ clock < MaxClock
  /\ \A t \in Threads : req[t].pc # "idle" => clock - req[t].now < MaxBusy
  /\ clock' = clock + 1
  /\ UNCHANGED <<restarts, late, faults, slskd, table, grabbed, purged, memory, heard, req>>

\* The process dies and starts again: slskd and what is committed survive.
Restart ==
  /\ restarts < MaxRestarts
  /\ restarts' = restarts + 1
  /\ dirKnown' = FALSE
  /\ retries' = EmptyDict /\ progress' = EmptyDict /\ terminalSince' = EmptyDict
  /\ rounds' = [j \in Jobs |-> 0]
  /\ req' = [t \in Threads |-> Idle]
  /\ jobs' = stored /\ astray' = {}
  /\ UNCHANGED <<clock, late, faults, slskd, stored, grabbed, purged, heard>>

-----------------------------------------------------------------------------
(* start(payload): one batch per disc, then the row.                         *)

StartBegin(t, j) ==
  /\ req[t].pc = "idle" /\ j \notin grabbed /\ clock <= LastGrab
  /\ grabbed' = grabbed \cup {j}
  /\ Become(t, [Idle EXCEPT !.op = "start", !.pc = "enqueue", !.now = clock,
                            !.job = j, !.discs = DOMAIN DiscsOf[j]])
  /\ UNCHANGED <<world, faults, slskd, table, purged, memory, heard>>

\* Of the discs yet to be posted, the next.
NextDisc(t) == {i \in req[t].discs : \A k \in req[t].discs : i <= k}

AttemptedLate(files, batch) == files
\* attempted: a disc counts from before its POST, not from its success.
Attempted(files, batch) == files \cup batch

\* One disc's POST.
StartEnqueue(t) ==
  \E i \in NextDisc(t) :
    LET batch == DiscsOf[req[t].job][i]
        rest == req[t].discs \ {i}
    IN
    /\ req[t].pc = "enqueue"
    /\ \/ /\ Posts(batch)
          /\ Become(t, [req[t] EXCEPT !.discs = rest, !.files = @ \cup batch,
                                !.pc = IF rest = {} THEN "add" ELSE "enqueue"])
       \/ /\ PostRaises(batch)
          /\ Become(t, [req[t] EXCEPT !.files = Attempted(@, batch), !.pc = "locate"])
    /\ UNCHANGED <<clock, restarts, table, grabbed, purged, memory, heard>>

\* jobs.add; nothing compensates its failure.
StartAdd(t) ==
  /\ req[t].pc = "add"
  /\ \/ Writes(jobs \cup {req[t].job}) /\ UNCHANGED faults
     \/ WriteFails(jobs \cup {req[t].job})
  /\ Strays({})
  /\ Leave(t)
  /\ UNCHANGED <<world, slskd, grabbed, purged, memory, heard>>

-----------------------------------------------------------------------------
(* remove(nzo_id), and _cancel_files which start() shares.                   *)

RemoveBegin(t, j) ==
  /\ req[t].pc = "idle" /\ j \in jobs
  /\ Become(t, [Idle EXCEPT !.op = "remove", !.pc = "locate", !.now = clock,
                            !.files = FilesOf(j), !.purge = {j}])
  /\ UNCHANGED <<world, faults, slskd, table, grabbed, purged, memory, heard>>

\* A failed start() raises after the cancellations; remove() goes on.
AfterCancel(t) == IF req[t].op = "remove" THEN "drop" ELSE "raise"

\* The transfers of the peer that are wanted and not complete, by id.
Running(files) == {<<f, slskd[f].id>> : f \in {g \in files : slskd[g].state = "active"}}

CancelLocate(t) ==
  LET found == Running(req[t].files) IN
  /\ req[t].pc = "locate"
  /\ \/ /\ Become(t, [req[t] EXCEPT !.cancels = found,
                              !.pc = IF found = {} THEN AfterCancel(t) ELSE "cancel"])
        /\ UNCHANGED faults
     \/ /\ Fault("list")
        /\ Become(t, [req[t] EXCEPT !.pc = AfterCancel(t)])
  /\ UNCHANGED <<world, slskd, table, grabbed, purged, memory, heard>>

\* DELETE .../{id}?remove=true: slskd forgets the transfer of that id, if it
\* still has it.  A failure of one call is logged and the next one made.
CancelOne(t) ==
  \E c \in req[t].cancels :
    LET rest == req[t].cancels \ {c} IN
    /\ req[t].pc = "cancel"
    /\ \/ /\ slskd' = IF slskd[c[1]].id = c[2]
                      THEN [slskd EXCEPT ![c[1]] = [NoTransfer EXCEPT !.id = c[2]]]
                      ELSE slskd
          /\ UNCHANGED faults
       \/ Fault("cancel") /\ UNCHANGED slskd
    /\ Become(t, [req[t] EXCEPT !.cancels = rest,
                          !.pc = IF rest = {} THEN AfterCancel(t) ELSE "cancel"])
    /\ UNCHANGED <<world, table, grabbed, purged, memory, heard>>

StartRaise(t) ==
  /\ req[t].pc = "raise"
  /\ Leave(t)
  /\ UNCHANGED <<world, faults, slskd, table, grabbed, purged, memory, heard>>

-----------------------------------------------------------------------------
(* statuses(): the poll behind SABnzbd's queue and history.                  *)

\* The clock is read first, then the table.
PollBegin(t) ==
  /\ req[t].pc = "idle"
  /\ Become(t, [Idle EXCEPT !.op = "poll", !.pc = "rows", !.now = clock])
  /\ UNCHANGED <<world, faults, slskd, table, grabbed, purged, memory, heard>>

PollRows(t) ==
  LET peers == {JobUser[j] : j \in jobs} IN
  /\ req[t].pc = "rows"
  /\ \/ /\ Become(t, [req[t] EXCEPT !.todo = jobs, !.users = peers,
                              !.pc = IF peers = {} THEN "visit" ELSE "list"])
        /\ UNCHANGED faults
     \/ Fault("store") /\ Leave(t)
  /\ UNCHANGED <<world, slskd, table, grabbed, purged, memory, heard>>

\* One transfers() call per distinct peer; a failure leaves statuses().
PollList(t) ==
  \E u \in req[t].users :
    LET rest == req[t].users \ {u} IN
    /\ req[t].pc = "list"
    /\ \/ /\ Become(t, [req[t] EXCEPT !.users = rest,
                                !.snap = [f \in Files |-> IF FileUser[f] = u THEN slskd[f] ELSE @[f]],
                                !.pc = IF rest = {} THEN "visit" ELSE "list"])
          /\ UNCHANGED faults
       \/ Fault("list") /\ Leave(t)
    /\ UNCHANGED <<world, slskd, table, grabbed, purged, memory, heard>>

\* Of a job's files, those a listing shows in a state.
InState(snap, j, state) == {f \in FilesOf(j) : snap[f].state = state}

\* transferred_bytes: the sum over the job's files, as a count of <<file, unit>>.
Transferred(snap, j) ==
  Cardinality({p \in FilesOf(j) \X (1..FileSize) : p[2] <= snap[p[1]].bytes})

HasBudgetLate(used) == used <= MaxRetries
HasBudget(used) == used < MaxRetries

Used(j) == IF j \in DOMAIN retries THEN retries[j] ELSE 0

\* The files of a disc to be posted again: those that failed.
RetryFiles(snap, j, i) == DiscsOf[j][i] \cap InState(snap, j, "failed")

\* The next job of the listing has every transfer succeeded.  Its storage path
\* needs downloads_directory(), whose first call may fail the whole listing.
VisitCompleted(t, j) ==
  /\ req[t].pc = "visit" /\ j \in req[t].todo
  /\ InState(req[t].snap, j, "succeeded") = FilesOf(j)
  /\ \/ /\ dirKnown' = TRUE
        /\ Become(t, [req[t] EXCEPT !.todo = @ \ {j}, !.job = j, !.pc = "conclude", !.verdict = "completed"])
        /\ UNCHANGED faults
     \/ /\ ~dirKnown /\ Fault("directory")
        /\ Leave(t)
        /\ UNCHANGED dirKnown
  /\ UNCHANGED <<world, slskd, table, grabbed, purged, retries, progress, terminalSince, rounds, heard>>

\* It has a failed transfer: the section that reserves a retry round.
VisitFailed(t, j) ==
  LET snap == req[t].snap IN
  /\ req[t].pc = "visit" /\ j \in req[t].todo
  /\ InState(snap, j, "failed") # {}
  /\ IF HasBudget(Used(j))
     THEN /\ retries' = Put(retries, j, Used(j) + 1)
          /\ progress' = Put(progress, j, [bytes |-> Transferred(snap, j), at |-> req[t].now])
          /\ rounds' = [rounds EXCEPT ![j] = @ + 1]
          /\ Become(t, [req[t] EXCEPT !.todo = @ \ {j}, !.job = j, !.pc = "retry",
                                !.discs = {i \in DOMAIN DiscsOf[j] : RetryFiles(snap, j, i) # {}}])
     ELSE /\ Become(t, [req[t] EXCEPT !.todo = @ \ {j}, !.job = j, !.pc = "conclude", !.verdict = "failed"])
          /\ UNCHANGED <<retries, progress, rounds>>
  /\ UNCHANGED <<world, faults, slskd, table, grabbed, purged, dirKnown, terminalSince, heard>>

\* It is neither.
VisitRunning(t, j) ==
  LET snap == req[t].snap IN
  /\ req[t].pc = "visit" /\ j \in req[t].todo
  /\ InState(snap, j, "succeeded") # FilesOf(j) /\ InState(snap, j, "failed") = {}
  /\ Become(t, [req[t] EXCEPT !.todo = @ \ {j}, !.job = j, !.pc = "stall"])
  /\ UNCHANGED <<world, faults, slskd, table, grabbed, purged, memory, heard>>

\* The retry's POSTs, outside the lock.  A failure ends them and is swallowed.
RetryEnqueue(t) ==
  \E i \in NextDisc(t) :
    LET batch == RetryFiles(req[t].snap, req[t].job, i)
        rest == req[t].discs \ {i}
    IN
    /\ req[t].pc = "retry"
    /\ \/ /\ Posts(batch)
          /\ Become(t, [req[t] EXCEPT !.discs = rest, !.pc = IF rest = {} THEN "stall" ELSE "retry"])
       \/ /\ PostRaises(batch)
          /\ Become(t, [req[t] EXCEPT !.discs = {}, !.pc = "stall"])
    /\ UNCHANGED <<clock, restarts, table, grabbed, purged, memory, heard>>

ProgressedOrEqual(j, bytes) == j \in DOMAIN progress => bytes >= progress[j].bytes
Progressed(j, bytes) == j \in DOMAIN progress => bytes > progress[j].bytes

StalledEarly(j, now) == now - progress[j].at + 1 >= StallTimeout
Stalled(j, now) == now - progress[j].at >= StallTimeout

\* The stall detector's section, for a job still downloading.
StallCheck(t) ==
  LET j == req[t].job
      now == req[t].now
      bytes == Transferred(req[t].snap, j)
      stalls == StallTimeout > 0 /\ ~Progressed(j, bytes) /\ Stalled(j, now)
  IN
  /\ req[t].pc = "stall"
  /\ progress' = IF StallTimeout > 0 /\ Progressed(j, bytes)
                 THEN Put(progress, j, [bytes |-> bytes, at |-> now]) ELSE progress
  /\ IF stalls
     THEN Become(t, [req[t] EXCEPT !.pc = "conclude", !.verdict = "stalled"])
     ELSE Become(t, [req[t] EXCEPT !.pc = "visit", !.views[j] = "downloading"])
  /\ UNCHANGED <<world, faults, slskd, table, grabbed, purged, dirKnown, retries, terminalSince, rounds, heard>>

\* Completed jobs are kept, failed ones purged some time after they ended.
PurgeDueAny(verdict, age) == age >= PurgeAfter
PurgeDue(verdict, age) == verdict # "completed" /\ age >= PurgeAfter

\* The section that records the first terminal instant, or finds the purge due.
Conclude(t) ==
  LET j == req[t].job
      known == j \in DOMAIN terminalSince
      purge == known /\ PurgeDue(req[t].verdict, req[t].now - terminalSince[j])
  IN
  /\ req[t].pc = "conclude"
  /\ terminalSince' = IF known THEN terminalSince ELSE Put(terminalSince, j, req[t].now)
  /\ IF purge
     THEN Become(t, [req[t] EXCEPT !.pc = "visit", !.purge = @ \cup {j}])
     ELSE Become(t, [req[t] EXCEPT !.pc = "visit", !.views[j] = Reported(req[t].verdict)])
  /\ UNCHANGED <<world, faults, slskd, table, grabbed, purged, dirKnown, retries, progress, rounds, heard>>

\* The loop over the jobs ends.
PollLoopEnds(t) ==
  /\ req[t].pc = "visit" /\ req[t].todo = {}
  /\ Become(t, [req[t] EXCEPT !.pc = IF req[t].purge = {} THEN "return" ELSE "drop"])
  /\ UNCHANGED <<world, faults, slskd, table, grabbed, purged, memory, heard>>

\* What the caller does next with the ids it drops: take the row out, then ...
\* An error leaves remove(), or the poll with the answer it has ready.
DropJob(t) ==
  \E j \in req[t].purge :
    LET own == {k \in {j} : \A u \in Threads \ {t} : ~Judges(u, k)} IN
    /\ req[t].pc = "drop"
    /\ \/ /\ Writes(jobs \ {j}) /\ Strays(own) /\ UNCHANGED faults
          /\ Become(t, [req[t] EXCEPT !.job = j, !.pc = "forget"])
       \/ WriteFails(jobs \ {j}) /\ Strays({}) /\ Leave(t)
    /\ purged' = IF req[t].op = "poll" THEN purged \cup {j} ELSE purged
    /\ UNCHANGED <<world, slskd, grabbed, memory, heard>>

ForgetKeepingRetries(j) ==
  /\ terminalSince' = Pop(terminalSince, j) /\ progress' = Pop(progress, j)
  /\ UNCHANGED retries
ForgetEntries(j) ==
  /\ terminalSince' = Pop(terminalSince, j)
  /\ progress' = Pop(progress, j)
  /\ retries' = Pop(retries, j)

\* ... the section that pops its entries of the three dictionaries.
ForgetJob(t) ==
  LET j == req[t].job
      rest == req[t].purge \ {j}
  IN
  /\ req[t].pc = "forget"
  /\ ForgetEntries(j)
  /\ Become(t, [req[t] EXCEPT !.purge = rest, !.pc = IF rest = {} THEN "return" ELSE "drop"])
  /\ UNCHANGED <<world, faults, slskd, table, grabbed, purged, dirKnown, rounds, heard>>

\* Job j is there and has arrived, no lost batch of it is on its way, and no
\* request but t has listed it or is about to take it out.
Certain(t, j) ==
  /\ j \in jobs /\ InState(slskd, j, "succeeded") = FilesOf(j) /\ FilesOf(j) \cap late = {}
  /\ \A u \in Threads \ {t} : ~Judges(u, j) /\ j \notin req[u].purge

\* The answer reaches Lidarr, with the jobs whose state the mode lists.
Answers(t, listed) ==
  /\ req[t].pc = "return" /\ req[t].op = "poll"
  /\ told' = [j \in Jobs |-> IF req[t].views[j] \in listed THEN req[t].views[j] ELSE told[j]]
  /\ assured' = assured \cup {j \in Jobs : req[t].views[j] \in listed \cap {"completed"} /\ Certain(t, j)}
  /\ Leave(t)
  /\ UNCHANGED <<world, faults, slskd, table, grabbed, purged, memory>>

\* statuses() is the same under both modes; they list different parts of it.
QueueAnswers(t) == Answers(t, {"downloading"})
HistoryAnswers(t) == Answers(t, {"completed", "failed"})

RemoveReturns(t) ==
  /\ req[t].pc = "return" /\ req[t].op = "remove"
  /\ Leave(t)
  /\ UNCHANGED <<world, faults, slskd, table, grabbed, purged, memory, heard>>

-----------------------------------------------------------------------------
Begin(t) == PollBegin(t) \/ \E j \in Jobs : StartBegin(t, j) \/ RemoveBegin(t, j)

Visit(t) == \E j \in Jobs : VisitCompleted(t, j) \/ VisitFailed(t, j) \/ VisitRunning(t, j)

\* A step of a request already begun.
Work(t) ==
  \/ StartEnqueue(t) \/ StartAdd(t) \/ StartRaise(t)
  \/ CancelLocate(t) \/ CancelOne(t)
  \/ PollRows(t) \/ PollList(t) \/ Visit(t) \/ RetryEnqueue(t) \/ StallCheck(t) \/ Conclude(t)
  \/ PollLoopEnds(t) \/ DropJob(t) \/ ForgetJob(t)
  \/ QueueAnswers(t) \/ HistoryAnswers(t) \/ RemoveReturns(t)

Environment ==
  \/ \E f \in Files : PeerSends(f) \/ TransferSucceeds(f) \/ TransferFails(f) \/ LateEnqueue(f)
  \/ ReleaseWrite \/ ReleaseWriteFails
  \/ Tick \/ Restart

Next == Environment \/ \E t \in Threads : Begin(t) \/ Work(t)

Spec == Init /\ [][Next]_vars

\* A request runs to its end, Lidarr goes on polling, the history as well as the
\* queue, and time goes on (Tick is disabled while a request runs its full
\* length, hence SF).  Peers and slskd owe nothing.
Fairness ==
  /\ \A t \in Threads : WF_vars(Work(t)) /\ WF_vars(PollBegin(t)) /\ SF_vars(HistoryAnswers(t))
  /\ SF_vars(Tick)

FairSpec == Spec /\ Fairness
=============================================================================
