---------------------------- MODULE OverlapProofs ----------------------------
(* What the download service guarantees while its requests overlap: no       *)
(* transfer outlives a grab that failed or a removal, no job that progresses *)
(* is reported stalled, no bookkeeping outlives its job but what a race or a *)
(* failed write leaves, and no job told completed is purged.  For every      *)
(* number of threads, jobs, files and peers, and every value of the settings *)
(* and of the bounds.                                                        *)
EXTENDS DownloadServiceProofs

-----------------------------------------------------------------------------
(* What every request keeps to, whatever the others do.                      *)

\* start() cancels no more than its job's files, remove() all of them; what is
\* left to cancel is among them.  A poll lists every peer before it visits, and
\* is done with a job when it judges it.
Sound(r) ==
  /\ r.pc = "idle" <=> r.op = "none"
  /\ r.pc \in {"rows", "list", "visit", "retry", "stall", "conclude"} => r.op = "poll"
  /\ r.op = "start" => r.files \subseteq FilesOf(r.job)
  /\ r.op = "remove" /\ r.pc \in {"locate", "cancel"} => \E k \in Jobs : r.purge = {k} /\ r.files = FilesOf(k)
  /\ r.op = "remove" /\ r.pc = "return" => r.purge = {}
  /\ r.pc = "cancel" => \A c \in r.cancels : c[1] \in r.files
  /\ r.pc \in {"visit", "retry", "stall", "conclude"} => r.users = {}
  /\ r.pc \in {"retry", "stall", "conclude"} => r.job \notin r.todo

\* The invariants of every specification of this module.
Based == TypeInv /\ LedgerInv /\ \A t \in Threads : Sound(req[t])

\* What they say of one thread.
LEMMA BasedFacts ==
  ASSUME Based, NEW t \in Threads
  PROVE  /\ req[t] \in Requests /\ Controlled(req[t]) /\ Consistent(req[t]) /\ Sound(req[t])
         /\ req \in [Threads -> Requests] /\ slskd \in [Files -> Transfer]
BY DEF Based, TypeInv, TypeOK, LedgerInv, Served

\* A step of one thread changes no other thread's locals.
LEMMA OthersStay ==
  ASSUME Based, NEW t \in Threads, NEW r, Become(t, r)
  PROVE  req'[t] = r /\ \A u \in Threads : u # t => req'[u] = req[u]
BY DEF Based, TypeInv, TypeOK, Become

\* A free thread keeps to everything.
LEMMA IdleSound ==
  Sound(Idle) /\ Idle \in Requests /\ Idle.op = "none" /\ Idle.pc = "idle" /\ Idle.todo = {} /\ Idle.purge = {}
BY IdleType DEF Sound, Idle

\* A request that begins.
LEMMA SoundBegin ==
  ASSUME Based, NEW t \in Threads, Begin(t)
  PROVE  Sound(req'[t])
<1>1. CASE PollBegin(t)
  <2> DEFINE r == [Idle EXCEPT !.op = "poll", !.pc = "rows", !.now = clock]
  <2>1. Sound(r)
    BY DEF Sound, Idle
  <2>2. Become(t, r)
    BY <1>1 DEF PollBegin
  <2> QED BY <2>1, <2>2, BasedFacts DEF Become
<1>2. ASSUME NEW j \in Jobs, StartBegin(t, j) PROVE Sound(req'[t])
  <2> DEFINE r == [Idle EXCEPT !.op = "start", !.pc = "enqueue", !.now = clock,
                               !.job = j, !.discs = DOMAIN DiscsOf[j]]
  <2>1. Sound(r)
    BY DEF Sound, Idle
  <2>2. Become(t, r)
    BY <1>2 DEF StartBegin
  <2> QED BY <2>1, <2>2, BasedFacts DEF Become
<1>3. ASSUME NEW j \in Jobs, RemoveBegin(t, j) PROVE Sound(req'[t])
  <2> DEFINE r == [Idle EXCEPT !.op = "remove", !.pc = "locate", !.now = clock,
                               !.files = FilesOf(j), !.purge = {j}]
  <2>1. Sound(r)
    BY DEF Sound, Idle
  <2>2. Become(t, r)
    BY <1>3 DEF RemoveBegin
  <2> QED BY <2>1, <2>2, BasedFacts DEF Become
<1> QED BY <1>1, <1>2, <1>3 DEF Begin

\* A step of a request already begun: one case per kind of step.
LEMMA SoundWork ==
  ASSUME Based, NEW t \in Threads, Work(t)
  PROVE  Sound(req'[t])
<1>a. req[t] \in Requests /\ Consistent(req[t]) /\ Sound(req[t]) /\ Controlled(req[t])
  BY BasedFacts
<1>b. ASSUME NEW r, Become(t, r), Sound(r) PROVE Sound(req'[t])
  BY <1>b, OthersStay
<1>c. ASSUME Leave(t) PROVE Sound(req'[t])
  BY <1>b, <1>c, IdleSound DEF Leave
<1>d. ASSUME NEW r, Become(t, r), r.op = req[t].op, r.pc \in {"visit", "stall", "conclude", "drop", "return", "forget"},
             req[t].op = "poll", r.pc \in {"visit", "stall", "conclude"} => r.users = {},
             r.pc \in {"stall", "conclude"} => r.job \notin r.todo
      PROVE  Sound(req'[t])
  <2>1. Sound(r)
    BY <1>d DEF Sound
  <2> QED BY <1>b, <1>d, <2>1
<1>1. CASE StartEnqueue(t)
  <2>1. PICK i \in NextDisc(t) :
          /\ req[t].pc = "enqueue"
          /\ \/ Become(t, [req[t] EXCEPT !.discs = req[t].discs \ {i}, !.files = @ \cup DiscsOf[req[t].job][i],
                             !.pc = IF req[t].discs \ {i} = {} THEN "add" ELSE "enqueue"])
             \/ Become(t, [req[t] EXCEPT !.files = Attempted(@, DiscsOf[req[t].job][i]), !.pc = "locate"])
    BY <1>1 DEF StartEnqueue
  <2> DEFINE batch == DiscsOf[req[t].job][i]
             r == [req[t] EXCEPT !.discs = req[t].discs \ {i}, !.files = @ \cup batch,
                                 !.pc = IF req[t].discs \ {i} = {} THEN "add" ELSE "enqueue"]
             q == [req[t] EXCEPT !.files = Attempted(@, batch), !.pc = "locate"]
  <2>2. batch \subseteq FilesOf(req[t].job) /\ req[t].op = "start"
    BY <1>a, <2>1 DEF Controlled, Consistent, NextDisc, FilesOf
  <2>3. Become(t, r) \/ Become(t, q)
    BY <2>1
  <2> HIDE DEF batch
  <2>4. Sound(r) /\ Sound(q)
    BY <1>a, <2>2 DEF Sound, Requests, Attempted
  <2> QED BY <1>b, <2>3, <2>4
<1>2. CASE StartAdd(t) \/ StartRaise(t) \/ QueueAnswers(t) \/ HistoryAnswers(t) \/ RemoveReturns(t)
  BY <1>2, <1>c DEF StartAdd, StartRaise, QueueAnswers, HistoryAnswers, Answers, RemoveReturns
<1>3. CASE CancelLocate(t)
  <2> DEFINE found == Running(req[t].files)
             r == [req[t] EXCEPT !.cancels = found,
                                 !.pc = IF found = {} THEN AfterCancel(t) ELSE "cancel"]
             q == [req[t] EXCEPT !.pc = AfterCancel(t)]
  <2>1. (Become(t, r) \/ Become(t, q)) /\ req[t].pc = "locate"
    BY <1>3 DEF CancelLocate
  <2>2. \A c \in found : c[1] \in req[t].files
    BY DEF Running
  <2> HIDE DEF found
  <2>3. Sound(r) /\ Sound(q)
    BY <1>a, <2>1, <2>2 DEF Sound, Consistent, AfterCancel, Requests
  <2> QED BY <1>b, <2>1, <2>3
<1>4. CASE CancelOne(t)
  <2>1. PICK c \in req[t].cancels :
          Become(t, [req[t] EXCEPT !.cancels = req[t].cancels \ {c},
                             !.pc = IF req[t].cancels \ {c} = {} THEN AfterCancel(t) ELSE "cancel"])
    BY <1>4 DEF CancelOne
  <2> DEFINE rest == req[t].cancels \ {c}
             r == [req[t] EXCEPT !.cancels = rest,
                             !.pc = IF rest = {} THEN AfterCancel(t) ELSE "cancel"]
  <2>2. Become(t, r) /\ req[t].pc = "cancel" /\ rest \subseteq req[t].cancels
    BY <1>4, <2>1 DEF CancelOne
  <2> HIDE DEF rest
  <2>3. Sound(r)
    BY <1>a, <2>2 DEF Sound, Consistent, AfterCancel, Requests
  <2> QED BY <1>b, <2>2, <2>3
<1>13. CASE PollRows(t)
  <2> DEFINE peers == {JobUser[j] : j \in jobs}
             r == [req[t] EXCEPT !.todo = jobs, !.users = peers,
                                 !.pc = IF peers = {} THEN "visit" ELSE "list"]
  <2>1. (Leave(t) \/ Become(t, r)) /\ req[t].pc = "rows"
    BY <1>13 DEF PollRows
  <2> HIDE DEF peers
  <2>2. Sound(r)
    BY <1>a, <2>1 DEF Sound, Requests
  <2> QED BY <1>b, <1>c, <2>1, <2>2
<1>5. CASE PollList(t)
  <2>1. PICK u \in req[t].users :
          \/ Leave(t)
          \/ Become(t, [req[t] EXCEPT !.users = req[t].users \ {u},
                          !.snap = [f \in Files |-> IF FileUser[f] = u THEN slskd[f] ELSE @[f]],
                          !.pc = IF req[t].users \ {u} = {} THEN "visit" ELSE "list"])
    BY <1>5 DEF PollList
  <2> DEFINE snap == [f \in Files |-> IF FileUser[f] = u THEN slskd[f] ELSE req[t].snap[f]]
             rest == req[t].users \ {u}
             r == [req[t] EXCEPT !.users = rest, !.snap = snap, !.pc = IF rest = {} THEN "visit" ELSE "list"]
  <2>2. Leave(t) \/ Become(t, r)
    BY <2>1
  <2>3. req[t].pc = "list"
    BY <1>5 DEF PollList
  <2> HIDE DEF snap, rest
  <2>4. Sound(r)
    BY <1>a, <2>3 DEF Sound, Requests
  <2> QED BY <1>b, <1>c, <2>2, <2>4
<1>6. ASSUME NEW j \in Jobs, VisitCompleted(t, j) \/ VisitFailed(t, j) \/ VisitRunning(t, j)
      PROVE  Sound(req'[t])
  <2> DEFINE chosen == {i \in DOMAIN DiscsOf[j] : RetryFiles(req[t].snap, j, i) # {}}
             r1 == [req[t] EXCEPT !.todo = @ \ {j}, !.job = j, !.pc = "conclude", !.verdict = "completed"]
             r2 == [req[t] EXCEPT !.todo = @ \ {j}, !.job = j, !.pc = "retry", !.discs = chosen]
             r3 == [req[t] EXCEPT !.todo = @ \ {j}, !.job = j, !.pc = "conclude", !.verdict = "failed"]
             r4 == [req[t] EXCEPT !.todo = @ \ {j}, !.job = j, !.pc = "stall"]
  <2>1. req[t].pc = "visit" /\ (Leave(t) \/ Become(t, r1) \/ Become(t, r2) \/ Become(t, r3) \/ Become(t, r4))
    BY <1>6 DEF VisitCompleted, VisitFailed, VisitRunning
  <2> HIDE DEF chosen
  <2>2. Sound(r1) /\ Sound(r2) /\ Sound(r3) /\ Sound(r4)
    BY <1>a, <2>1 DEF Sound, Requests
  <2> QED BY <1>b, <1>c, <2>1, <2>2
<1>7. CASE RetryEnqueue(t)
  <2>1. PICK i : \/ Become(t, [req[t] EXCEPT !.discs = req[t].discs \ {i},
                                  !.pc = IF req[t].discs \ {i} = {} THEN "stall" ELSE "retry"])
                 \/ Become(t, [req[t] EXCEPT !.discs = {}, !.pc = "stall"])
    BY <1>7 DEF RetryEnqueue
  <2> DEFINE rest == req[t].discs \ {i}
             r == [req[t] EXCEPT !.discs = rest, !.pc = IF rest = {} THEN "stall" ELSE "retry"]
             q == [req[t] EXCEPT !.discs = {}, !.pc = "stall"]
  <2>2. (Become(t, r) \/ Become(t, q)) /\ req[t].pc = "retry"
    BY <1>7, <2>1 DEF RetryEnqueue
  <2> HIDE DEF rest
  <2>3. Sound(r) /\ Sound(q)
    BY <1>a, <2>2 DEF Sound, Requests
  <2> QED BY <1>b, <2>2, <2>3
<1>8. CASE StallCheck(t)
  <2> DEFINE r == [req[t] EXCEPT !.pc = "conclude", !.verdict = "stalled"]
             q == [req[t] EXCEPT !.pc = "visit", !.views[req[t].job] = "downloading"]
  <2>1. (Become(t, r) \/ Become(t, q)) /\ req[t].pc = "stall"
    BY <1>8 DEF StallCheck
  <2>2. Sound(r) /\ Sound(q)
    BY <1>a, <2>1 DEF Sound, Requests
  <2> QED BY <1>b, <2>1, <2>2
<1>9. CASE Conclude(t)
  <2> DEFINE r == [req[t] EXCEPT !.pc = "visit", !.purge = @ \cup {req[t].job}]
             q == [req[t] EXCEPT !.pc = "visit", !.views[req[t].job] = Reported(req[t].verdict)]
  <2>1. (Become(t, r) \/ Become(t, q)) /\ req[t].pc = "conclude"
    BY <1>9 DEF Conclude
  <2>2. Sound(r) /\ Sound(q)
    BY <1>a, <2>1 DEF Sound, Requests
  <2> QED BY <1>b, <2>1, <2>2
<1>10. CASE PollLoopEnds(t)
  <2> DEFINE r == [req[t] EXCEPT !.pc = IF req[t].purge = {} THEN "return" ELSE "drop"]
  <2>1. Become(t, r) /\ req[t].pc = "visit"
    BY <1>10 DEF PollLoopEnds
  <2>2. Sound(r)
    BY <1>a, <2>1 DEF Sound, Requests
  <2> QED BY <1>b, <2>1, <2>2
<1>11. CASE DropJob(t)
  <2>1. PICK j \in req[t].purge : Leave(t) \/ Become(t, [req[t] EXCEPT !.job = j, !.pc = "forget"])
    BY <1>11 DEF DropJob
  <2> DEFINE r == [req[t] EXCEPT !.job = j, !.pc = "forget"]
  <2>2. (Leave(t) \/ Become(t, r)) /\ req[t].pc = "drop"
    BY <1>11, <2>1 DEF DropJob
  <2>3. Sound(r)
    BY <1>a, <2>2 DEF Sound, Consistent, Requests
  <2> QED BY <1>b, <1>c, <2>2, <2>3
<1>12. CASE ForgetJob(t)
  <2> DEFINE rest == req[t].purge \ {req[t].job}
             r == [req[t] EXCEPT !.purge = rest, !.pc = IF rest = {} THEN "return" ELSE "drop"]
  <2>1. Become(t, r) /\ req[t].pc = "forget"
    BY <1>12 DEF ForgetJob
  <2> HIDE DEF rest
  <2>2. Sound(r)
    BY <1>a, <2>1 DEF Sound, Consistent, Requests
  <2> QED BY <1>b, <2>1, <2>2
<1> QED
  BY <1>1, <1>2, <1>3, <1>4, <1>5, <1>6, <1>7, <1>8, <1>9, <1>10, <1>11, <1>12, <1>13 DEF Work, Visit

\* What happens outside the bridge changes no request, and a restart ends all.
LEMMA RequestsOutside ==
  ASSUME Environment
  PROVE  req' = req \/ (Restart /\ \A t \in Threads : req'[t] = Idle)
BY DEF Environment, PeerSends, TransferSucceeds, TransferFails, LateEnqueue, ReleaseWrite, ReleaseWriteFails,
       Tick, Restart

\* A step of a thread gives it new locals.
LEMMA StepBecomes ==
  ASSUME NEW t \in Threads, Begin(t) \/ Work(t)
  PROVE  \E r : Become(t, r)
<1>1. CASE StartEnqueue(t)
  BY <1>1 DEF StartEnqueue
<1>2. CASE CancelLocate(t)
  BY <1>2 DEF CancelLocate
<1>3. CASE CancelOne(t)
  BY <1>3 DEF CancelOne
<1>4. CASE PollRows(t) \/ PollList(t)
  BY <1>4 DEF PollRows, PollList, Leave
<1>5. CASE Visit(t)
  BY <1>5 DEF Visit, VisitCompleted, VisitFailed, VisitRunning, Leave
<1>6. CASE RetryEnqueue(t)
  BY <1>6 DEF RetryEnqueue
<1>7. CASE StallCheck(t)
  BY <1>7 DEF StallCheck
<1>8. CASE Conclude(t)
  BY <1>8 DEF Conclude
<1>9. CASE PollLoopEnds(t) \/ DropJob(t) \/ ForgetJob(t)
  BY <1>9 DEF PollLoopEnds, DropJob, ForgetJob, Leave
<1>10. CASE StartAdd(t) \/ StartRaise(t) \/ QueueAnswers(t) \/ HistoryAnswers(t) \/ RemoveReturns(t)
  BY <1>10 DEF StartAdd, StartRaise, QueueAnswers, HistoryAnswers, Answers, RemoveReturns, Leave
<1>11. CASE Begin(t)
  BY <1>11 DEF Begin, PollBegin, StartBegin, RemoveBegin
<1> QED BY <1>1, <1>2, <1>3, <1>4, <1>5, <1>6, <1>7, <1>8, <1>9, <1>10, <1>11 DEF Work

\* Every request keeps sound locals.
LEMMA SoundStep ==
  ASSUME Based, [Next]_vars
  PROVE  \A t \in Threads : Sound(req'[t])
<1>1. ASSUME NEW t \in Threads, Begin(t) \/ Work(t) PROVE \A u \in Threads : Sound(req'[u])
  <2>1. \E r : Become(t, r)
    BY <1>1, StepBecomes
  <2>2. \A u \in Threads : u # t => req'[u] = req[u]
    BY <2>1, OthersStay
  <2> QED BY <1>1, <2>2, SoundBegin, SoundWork DEF Based
<1>2. CASE Environment
  BY <1>2, RequestsOutside, IdleSound DEF Based
<1>3. CASE UNCHANGED vars
  BY <1>3 DEF vars, Based
<1> QED BY <1>1, <1>2, <1>3 DEF Next

\* The base invariant holds of every specification that restricts this one.
LEMMA BasedInvariant == Spec => []Based
<1> DEFINE Sounds == \A t \in Threads : Sound(req[t])
<1>1. Init => Sounds
  BY IdleSound DEF Init
<1>2. TypeInv /\ LedgerInv /\ Sounds /\ [Next]_vars => Sounds'
  BY SoundStep DEF Based
<1>3. TypeInv /\ LedgerInv /\ Sounds => Based
  BY DEF Based
<1> QED BY <1>1, <1>2, <1>3, TypeInvariant, LedgerInvariant, PTL DEF Spec

\* A grab once settled stays settled.
LEMMA SettledStays ==
  ASSUME Based, Based', [Next]_vars
  PROVE  Settled \subseteq Settled'
<1>1. LedgerInv /\ LedgerInv' /\ Kept \subseteq Settled /\ Kept' \subseteq Settled' /\ Simulates
  BY LedgerStep DEF Based, LedgerInv, Served
<1>2. \A j \in Jobs : j \in Settled <=> Stage(j) \in {"unsure", "tracked", "gone"}
  BY <1>1, StageOf DEF Settled, Kept
<1>3. \A j \in Jobs : Stage(j)' \in {"unsure", "tracked", "gone"} => j \in Settled'
  BY <1>1 DEF Stage, Settled, Kept
<1>4. ASSUME NEW j \in Jobs, Stage(j) \in {"unsure", "tracked", "gone"}
      PROVE  Stage(j)' \in {"unsure", "tracked", "gone"}
  <2>1. CASE UNCHANGED Ledger!ledger
    BY <1>4, <2>1 DEF Ledger!ledger
  <2>2. CASE Ledger!Reset
    BY <1>4, <2>2 DEF Ledger!Reset
  <2>3. CASE Ledger!Settle
    BY <1>4, <2>3 DEF Ledger!Settle, Ledger!Onward
  <2>4. ASSUME NEW k \in Jobs, Ledger!Open(k) \/ Ledger!Retry(k)
        PROVE  Stage(j)' \in {"unsure", "tracked", "gone"}
    BY <1>4, <2>4 DEF Ledger!Open, Ledger!Retry
  <2> QED BY <1>1, <2>1, <2>2, <2>3, <2>4 DEF Simulates, Ledger!Next
<1>5. Settled \subseteq Jobs
  BY DEF Based, TypeInv, TypeOK, Settled
<1> QED BY <1>2, <1>3, <1>4, <1>5

-----------------------------------------------------------------------------
(* Bookkeeping: which jobs the dictionaries and the polls may still name.    *)

\* The steps of a poll that has jobs to judge.
Judging == {"list", "visit", "retry", "stall", "conclude"}

\* A poll only judges jobs of the set S.
Steady(r, S) ==
  /\ r.pc \in Judging => r.todo \subseteq S
  /\ r.pc \in {"retry", "stall", "conclude"} => r.job \in S

\* An entry of a job outside S is about to be popped.
Tidy(entries, requests, S) ==
  /\ \A j \in entries : j \in S \/ \E t \in Threads : requests[t].pc = "forget" /\ requests[t].job = j
  /\ \A t \in Threads : Steady(requests[t], S)

\* The keys of a dictionary after a pop.
LEMMA PopKeys == \A d, k : DOMAIN Pop(d, k) = DOMAIN d \ {k}
BY DEF Pop

\* A step that makes entries of jobs of the set only, as the set grows to T.
LEMMA KeepStep ==
  ASSUME Based, NEW S, NEW T, S \subseteq T, Tidy(Entries, req, S),
         NEW t \in Threads, NEW r, Become(t, r), req[t].pc # "forget", Steady(r, T), Entries' \subseteq Entries \cup T
  PROVE  Tidy(Entries', req', T)
<1>1. req'[t] = r /\ \A u \in Threads : u # t => req'[u] = req[u]
  BY OthersStay
<1>2. \A u \in Threads : Steady(req'[u], T)
  BY <1>1 DEF Tidy, Steady
<1>3. \A j \in Entries' : j \in T \/ \E u \in Threads : req'[u].pc = "forget" /\ req'[u].job = j
  <2> SUFFICES ASSUME NEW j \in Entries, j \notin T
               PROVE  \E u \in Threads : req'[u].pc = "forget" /\ req'[u].job = j
    OBVIOUS
  <2>1. PICK u \in Threads : req[u].pc = "forget" /\ req[u].job = j
    BY DEF Tidy
  <2> QED BY <1>1, <2>1
<1> QED BY <1>2, <1>3 DEF Tidy

\* A request that begins judges nothing yet.
LEMMA TidyBegin ==
  ASSUME Based, NEW S, NEW T, S \subseteq T, Tidy(Entries, req, S), NEW t \in Threads, Begin(t)
  PROVE  Tidy(Entries', req', T)
<1>1. CASE PollBegin(t)
  <2> DEFINE r == [Idle EXCEPT !.op = "poll", !.pc = "rows", !.now = clock]
  <2>1. Steady(r, T)
    BY DEF Steady, Idle, Judging
  <2>2. Become(t, r) /\ req[t].pc # "forget" /\ Entries' = Entries
    BY <1>1 DEF PollBegin, memory, Entries
  <2> QED BY <2>1, <2>2, KeepStep
<1>2. ASSUME NEW j \in Jobs, StartBegin(t, j) PROVE Tidy(Entries', req', T)
  <2> DEFINE r == [Idle EXCEPT !.op = "start", !.pc = "enqueue", !.now = clock,
                               !.job = j, !.discs = DOMAIN DiscsOf[j]]
  <2>1. Steady(r, T)
    BY DEF Steady, Idle, Judging
  <2>2. Become(t, r) /\ req[t].pc # "forget" /\ Entries' = Entries
    BY <1>2 DEF StartBegin, memory, Entries
  <2> QED BY <2>1, <2>2, KeepStep
<1>3. ASSUME NEW j \in Jobs, RemoveBegin(t, j) PROVE Tidy(Entries', req', T)
  <2> DEFINE r == [Idle EXCEPT !.op = "remove", !.pc = "locate", !.now = clock,
                               !.files = FilesOf(j), !.purge = {j}]
  <2>1. Steady(r, T)
    BY DEF Steady, Idle, Judging
  <2>2. Become(t, r) /\ req[t].pc # "forget" /\ Entries' = Entries
    BY <1>3 DEF RemoveBegin, memory, Entries
  <2> QED BY <2>1, <2>2, KeepStep
<1> QED BY <1>1, <1>2, <1>3 DEF Begin

\* A step of a poll from listing the rows there are to concluding, and of every
\* other request but the last steps of its jobs' lives.
LEMMA TidyWork ==
  ASSUME Based, NEW S, NEW T, jobs \subseteq S, S \subseteq T, Tidy(Entries, req, S), NEW t \in Threads,
         Work(t), ~DropJob(t), ~ForgetJob(t)
  PROVE  Tidy(Entries', req', T)
<1>a. req[t] \in Requests /\ Steady(req[t], S) /\ Consistent(req[t])
  BY BasedFacts DEF Tidy
<1>b. ASSUME NEW r, Become(t, r), req[t].pc # "forget", Entries' \subseteq Entries \cup T,
             r.pc \in Judging => req[t].pc \in Judging /\ r.todo \subseteq req[t].todo,
             r.pc \in {"retry", "stall", "conclude"} =>
               r.job \in req[t].todo \/ (req[t].pc \in {"retry", "stall", "conclude"} /\ r.job = req[t].job)
      PROVE  Tidy(Entries', req', T)
  <2>1. Steady(r, T)
    BY <1>a, <1>b DEF Steady, Judging
  <2> QED BY <1>b, <2>1, KeepStep
<1>c. ASSUME Leave(t), req[t].pc # "forget", Entries' \subseteq Entries \cup T PROVE Tidy(Entries', req', T)
  BY <1>b, <1>c, IdleSound DEF Leave, Judging
<1>1. CASE StartEnqueue(t)
  <2>1. PICK r : Become(t, r) /\ r.pc \in {"add", "enqueue", "locate"}
    BY <1>1, <1>a DEF StartEnqueue, Requests, Become
  <2> QED BY <1>1, <1>b, <2>1 DEF StartEnqueue, memory, Entries, Judging
<1>2. CASE StartAdd(t) \/ StartRaise(t) \/ QueueAnswers(t) \/ HistoryAnswers(t) \/ RemoveReturns(t)
  BY <1>2, <1>c DEF StartAdd, StartRaise, QueueAnswers, HistoryAnswers, Answers, RemoveReturns, memory, Entries
<1>3. CASE CancelLocate(t)
  <2> DEFINE found == Running(req[t].files)
             r == [req[t] EXCEPT !.cancels = found,
                                 !.pc = IF found = {} THEN AfterCancel(t) ELSE "cancel"]
             q == [req[t] EXCEPT !.pc = AfterCancel(t)]
  <2>1. (Become(t, r) \/ Become(t, q)) /\ req[t].pc = "locate" /\ Entries' = Entries
    BY <1>3 DEF CancelLocate, memory, Entries
  <2>2. r.pc \in {"cancel", "drop", "raise"} /\ q.pc \in {"drop", "raise"}
    BY <1>a DEF Requests, AfterCancel
  <2> HIDE DEF r, q
  <2> QED BY <1>b, <2>1, <2>2 DEF Judging
<1>4. CASE CancelOne(t)
  <2>1. PICK c \in req[t].cancels :
          Become(t, [req[t] EXCEPT !.cancels = req[t].cancels \ {c},
                             !.pc = IF req[t].cancels \ {c} = {} THEN AfterCancel(t) ELSE "cancel"])
    BY <1>4 DEF CancelOne
  <2> DEFINE rest == req[t].cancels \ {c}
             r == [req[t] EXCEPT !.cancels = rest,
                             !.pc = IF rest = {} THEN AfterCancel(t) ELSE "cancel"]
  <2>2. Become(t, r) /\ req[t].pc = "cancel" /\ Entries' = Entries
    BY <1>4, <2>1 DEF CancelOne, memory, Entries
  <2>3. r.pc \in {"cancel", "drop", "raise"}
    BY <1>a DEF Requests, AfterCancel
  <2> HIDE DEF r
  <2> QED BY <1>b, <2>2, <2>3 DEF Judging
<1>11. CASE PollRows(t)
  <2>1. CASE Leave(t)
    BY <1>11, <2>1, <1>c DEF PollRows, memory, Entries
  <2>2. CASE ~Leave(t)
    <3> DEFINE peers == {JobUser[j] : j \in jobs}
               r == [req[t] EXCEPT !.todo = jobs, !.users = peers,
                                   !.pc = IF peers = {} THEN "visit" ELSE "list"]
    <3>1. Become(t, r) /\ req[t].pc # "forget" /\ Entries' = Entries
      BY <1>11, <2>2 DEF PollRows, memory, Entries
    <3> HIDE DEF peers
    <3>2. Steady(r, T)
      BY <1>a DEF Steady, Requests
    <3> QED BY <3>1, <3>2, KeepStep
  <2> QED BY <2>1, <2>2
<1>5. CASE PollList(t)
  <2>1. CASE Leave(t)
    BY <1>5, <2>1, <1>c DEF PollList, memory, Entries
  <2>2. CASE ~Leave(t)
    <3>1. PICK r : Become(t, r) /\ r.pc \in {"list", "visit"} /\ r.todo = req[t].todo
      BY <1>a, <1>5, <2>2 DEF PollList, Requests, Become
    <3> QED BY <1>5, <1>b, <3>1 DEF PollList, memory, Entries, Judging
  <2> QED BY <2>1, <2>2
<1>6. ASSUME NEW j \in Jobs, VisitCompleted(t, j) \/ VisitFailed(t, j) \/ VisitRunning(t, j)
      PROVE  Tidy(Entries', req', T)
  <2>0. req[t].pc = "visit" /\ j \in req[t].todo /\ j \in T
    BY <1>6, <1>a DEF VisitCompleted, VisitFailed, VisitRunning, Steady, Judging
  <2>1. Entries' \subseteq Entries \cup {j}
    <3>1. /\ retries' = Put(retries, j, Used(j) + 1) \/ retries' = retries
          /\ progress' = progress \/ \E m : progress' = Put(progress, j, m)
          /\ terminalSince' = terminalSince
      BY <1>6 DEF VisitCompleted, VisitFailed, VisitRunning, memory
    <3>2. DOMAIN retries' \subseteq DOMAIN retries \cup {j} /\ DOMAIN progress' \subseteq DOMAIN progress \cup {j}
      BY <3>1 DEF Put
    <3> QED BY <3>1, <3>2 DEF Entries
  <2>2. CASE Leave(t)
    BY <1>c, <2>0, <2>1, <2>2
  <2>3. CASE ~Leave(t)
    <3> DEFINE chosen == {i \in DOMAIN DiscsOf[j] : RetryFiles(req[t].snap, j, i) # {}}
               r1 == [req[t] EXCEPT !.todo = @ \ {j}, !.job = j, !.pc = "conclude", !.verdict = "completed"]
               r2 == [req[t] EXCEPT !.todo = @ \ {j}, !.job = j, !.pc = "retry", !.discs = chosen]
               r3 == [req[t] EXCEPT !.todo = @ \ {j}, !.job = j, !.pc = "conclude", !.verdict = "failed"]
               r4 == [req[t] EXCEPT !.todo = @ \ {j}, !.job = j, !.pc = "stall"]
    <3>1. PICK r \in {r1, r2, r3, r4} : Become(t, r)
      BY <1>6, <2>3 DEF VisitCompleted, VisitFailed, VisitRunning
    <3>2. \A q \in {r1, r2, r3, r4} : q.job = j /\ q.todo \subseteq req[t].todo
      <4>1. /\ r1.job = j /\ r1.todo \subseteq req[t].todo /\ r2.job = j /\ r2.todo \subseteq req[t].todo
            /\ r3.job = j /\ r3.todo \subseteq req[t].todo /\ r4.job = j /\ r4.todo \subseteq req[t].todo
        BY <1>a DEF Requests
      <4> HIDE DEF r1, r2, r3, r4
      <4> QED BY <4>1
    <3> HIDE DEF chosen, r1, r2, r3, r4
    <3> QED BY <1>b, <2>0, <2>1, <3>1, <3>2 DEF Judging
  <2> QED BY <2>2, <2>3
<1>7. CASE RetryEnqueue(t)
  <2>1. PICK r : Become(t, r) /\ r.todo = req[t].todo /\ r.job = req[t].job
    BY <1>a, <1>7 DEF RetryEnqueue, Requests, Become
  <2> QED BY <1>7, <1>b, <2>1 DEF RetryEnqueue, memory, Entries, Judging
<1>8. CASE StallCheck(t)
  <2>1. PICK r : Become(t, r) /\ r.todo = req[t].todo /\ r.job = req[t].job
    BY <1>a, <1>8 DEF StallCheck, Requests, Become
  <2>2. req[t].job \in T /\ req[t].pc = "stall"
    BY <1>a, <1>8 DEF Steady, StallCheck
  <2>3. Entries' \subseteq Entries \cup {req[t].job}
    <3>1. /\ progress' = progress \/ \E m : progress' = Put(progress, req[t].job, m)
          /\ UNCHANGED <<retries, terminalSince>>
      BY <1>8 DEF StallCheck
    <3>2. DOMAIN progress' \subseteq DOMAIN progress \cup {req[t].job}
      BY <3>1 DEF Put
    <3> QED BY <3>1, <3>2 DEF Entries
  <2> QED BY <1>b, <2>1, <2>2, <2>3 DEF Judging
<1>9. CASE Conclude(t)
  <2>1. PICK r : Become(t, r) /\ r.todo = req[t].todo /\ r.job = req[t].job
    BY <1>a, <1>9 DEF Conclude, Requests, Become
  <2>2. req[t].job \in T /\ req[t].pc = "conclude"
    BY <1>a, <1>9 DEF Steady, Conclude
  <2>3. Entries' \subseteq Entries \cup {req[t].job}
    <3>1. /\ terminalSince' = terminalSince \/ terminalSince' = Put(terminalSince, req[t].job, req[t].now)
          /\ UNCHANGED <<retries, progress>>
      BY <1>9 DEF Conclude
    <3>2. DOMAIN terminalSince' \subseteq DOMAIN terminalSince \cup {req[t].job}
      BY <3>1 DEF Put
    <3> QED BY <3>1, <3>2 DEF Entries
  <2> QED BY <1>b, <2>1, <2>2, <2>3 DEF Judging
<1>10. CASE PollLoopEnds(t)
  <2> DEFINE r == [req[t] EXCEPT !.pc = IF req[t].purge = {} THEN "return" ELSE "drop"]
  <2>1. Become(t, r) /\ req[t].pc = "visit" /\ Entries' = Entries
    BY <1>10 DEF PollLoopEnds, memory, Entries
  <2>2. r.pc \in {"return", "drop"}
    BY <1>a DEF Requests
  <2> HIDE DEF r
  <2> QED BY <1>b, <2>1, <2>2 DEF Judging
<1> QED
  BY <1>1, <1>2, <1>3, <1>4, <1>5, <1>6, <1>7, <1>8, <1>9, <1>10, <1>11 DEF Work, Visit

\* The end of a job: its row goes, and then its entries.  The set may lose the
\* job with the row if no other poll still judges it.
LEMMA TidyDrop ==
  ASSUME Based, NEW S, NEW T, Tidy(Entries, req, S), NEW t \in Threads, DropJob(t) \/ ForgetJob(t),
         \A j \in S \ T : /\ DropJob(t) /\ req'[t].pc = "forget" /\ req'[t].job = j
                         /\ \A u \in Threads : u # t => ~Judges(u, j)
  PROVE  Tidy(Entries', req', T)
<1>a. req[t] \in Requests /\ \A u \in Threads : Sound(req[u]) /\ Steady(req[u], S)
  BY BasedFacts DEF Tidy
<1>1. PICK r : Become(t, r) /\ r.pc \in {"idle", "forget", "return", "drop"}
  <2> DEFINE rest == req[t].purge \ {req[t].job}
             q == [req[t] EXCEPT !.purge = rest, !.pc = IF rest = {} THEN "return" ELSE "drop"]
  <2>1. CASE DropJob(t)
    <3>1. PICK j \in req[t].purge : Leave(t) \/ Become(t, [req[t] EXCEPT !.job = j, !.pc = "forget"])
      BY <2>1 DEF DropJob
    <3>2. [req[t] EXCEPT !.job = j, !.pc = "forget"].pc = "forget"
      BY <1>a DEF Requests
    <3> QED BY <3>1, <3>2, IdleSound DEF Leave
  <2>2. CASE ForgetJob(t) /\ ~DropJob(t)
    <3>1. Become(t, q) /\ q.pc \in {"return", "drop"}
      BY <1>a, <2>2 DEF ForgetJob, Requests
    <3> HIDE DEF q
    <3> QED BY <2>2, <3>1
  <2> QED BY <2>1, <2>2
<1>2. req'[t] = r /\ \A u \in Threads : u # t => req'[u] = req[u]
  BY <1>1, OthersStay
<1>3. ASSUME NEW u \in Threads PROVE Steady(req'[u], T)
  <2>1. CASE u = t
    BY <1>1, <1>2, <2>1 DEF Steady, Judging
  <2>2. CASE u # t
    BY <1>a, <1>2, <2>2 DEF Steady, Sound, Judges, Judging
  <2> QED BY <2>1, <2>2
<1>4. CASE DropJob(t)
  <2>1. Entries' = Entries /\ req[t].pc = "drop"
    BY <1>4 DEF DropJob, memory, Entries
  <2>2. \A j \in Entries' : j \in T \/ \E u \in Threads : req'[u].pc = "forget" /\ req'[u].job = j
    BY <1>2, <1>4, <2>1 DEF Tidy
  <2> QED BY <1>3, <2>2 DEF Tidy
<1>5. CASE ForgetJob(t) /\ ~DropJob(t)
  <2> DEFINE k == req[t].job
  <2>1. S \subseteq T /\ retries' = Pop(retries, k) /\ progress' = Pop(progress, k) /\ terminalSince' = Pop(terminalSince, k)
    BY <1>5 DEF ForgetJob, ForgetEntries
  <2> HIDE DEF k
  <2>2. /\ DOMAIN retries' = DOMAIN retries \ {k}
        /\ DOMAIN progress' = DOMAIN progress \ {k}
        /\ DOMAIN terminalSince' = DOMAIN terminalSince \ {k}
    BY <2>1, PopKeys
  <2>3. Entries' = Entries \ {k}
    BY <2>2 DEF Entries
  <2>4. \A j \in Entries' : j \in T \/ \E u \in Threads : req'[u].pc = "forget" /\ req'[u].job = j
    BY <1>2, <2>1, <2>3 DEF Tidy, k
  <2> QED BY <1>3, <2>4 DEF Tidy
<1> QED BY <1>4, <1>5

\* The bookkeeping starts empty.
LEMMA TidyInit == Init => \A S : Tidy(Entries, req, S)
BY IdleSound DEF Init, Tidy, Steady, Judging, Entries, EmptyDict

\* Every step keeps it tidy, as the set grows or loses a job with its row, and a
\* restart leaves nothing.
LEMMA TidyStep ==
  ASSUME Based, NEW S, NEW T, jobs \subseteq S, Tidy(Entries, req, S), [Next]_vars,
         \/ S \subseteq T
         \/ Restart
         \/ \E t \in Threads : \A j \in S \ T : /\ DropJob(t) /\ req'[t].pc = "forget" /\ req'[t].job = j
                                             /\ \A u \in Threads : u # t => ~Judges(u, j)
  PROVE  Tidy(Entries', req', T)
<1>1. CASE Restart
  BY <1>1, IdleSound DEF Restart, Tidy, Entries, EmptyDict, Steady, Judging
<1>2. CASE ~Restart /\ ~(S \subseteq T)
  BY <1>2, TidyDrop
<1>3. CASE ~Restart /\ S \subseteq T
  <2>1. CASE UNCHANGED vars
    BY <1>3, <2>1 DEF vars, memory, Tidy, Entries, Steady
  <2>2. CASE Environment
    <3>1. req' = req /\ Entries' = Entries
      BY <1>3, <2>2 DEF Environment, PeerSends, TransferSucceeds, TransferFails, LateEnqueue,
         ReleaseWrite, ReleaseWriteFails, Tick, memory, Entries
    <3> QED BY <1>3, <3>1 DEF Tidy, Steady
  <2>3. ASSUME NEW t \in Threads, DropJob(t) \/ ForgetJob(t) PROVE Tidy(Entries', req', T)
    BY <1>3, <2>3, TidyDrop
  <2> QED BY <1>3, <2>1, <2>2, <2>3, TidyBegin, TidyWork DEF Next
<1> QED BY <1>1, <1>2, <1>3

\* Of the rows there are or were, a step of a running process loses none but the
\* one its own request takes out while no other request judges it.
LEMMA StrayStep ==
  ASSUME Based, [Next]_vars, ~Restart
  PROVE  \/ Kept \cup astray \subseteq Kept' \cup astray'
         \/ \E t \in Threads : \A j \in (Kept \cup astray) \ (Kept' \cup astray') :
              /\ DropJob(t) /\ req'[t].pc = "forget" /\ req'[t].job = j
              /\ \A u \in Threads : u # t => ~Judges(u, j)
<1> DEFINE grows == Kept \cup astray \subseteq Kept' \cup astray'
<1>1. ASSUME Strays({}) \/ UNCHANGED table PROVE grows
  BY <1>1 DEF Strays, table, Kept
<1>2. CASE Environment \/ UNCHANGED vars
  BY <1>1, <1>2 DEF Environment, PeerSends, TransferSucceeds, TransferFails, LateEnqueue,
     ReleaseWrite, ReleaseWriteFails, Tick, vars
<1>3. ASSUME NEW t \in Threads, Begin(t) PROVE grows
  BY <1>1, <1>3 DEF Begin, PollBegin, StartBegin, RemoveBegin
<1>4. ASSUME NEW t \in Threads, Work(t), ~DropJob(t) PROVE grows
  <2>1. CASE StartEnqueue(t) \/ StartAdd(t) \/ StartRaise(t) \/ CancelLocate(t) \/ CancelOne(t)
             \/ PollRows(t) \/ PollList(t)
    BY <1>1, <2>1 DEF StartEnqueue, StartAdd, StartRaise, CancelLocate, CancelOne, PollRows, PollList
  <2>2. CASE Visit(t)
    BY <1>1, <2>2 DEF Visit, VisitCompleted, VisitFailed, VisitRunning
  <2>3. CASE \/ RetryEnqueue(t) \/ StallCheck(t) \/ Conclude(t) \/ PollLoopEnds(t) \/ ForgetJob(t)
             \/ QueueAnswers(t) \/ HistoryAnswers(t) \/ RemoveReturns(t)
    BY <1>1, <2>3 DEF RetryEnqueue, StallCheck, Conclude, PollLoopEnds, ForgetJob, QueueAnswers, HistoryAnswers,
       Answers, RemoveReturns
  <2> QED BY <1>4, <2>1, <2>2, <2>3 DEF Work
<1>5. ASSUME NEW t \in Threads, DropJob(t), ~grows
      PROVE  \A j \in (Kept \cup astray) \ (Kept' \cup astray') :
               req'[t].pc = "forget" /\ req'[t].job = j /\ \A u \in Threads : u # t => ~Judges(u, j)
  <2>1. PICK k \in req[t].purge :
          LET own == {i \in {k} : \A u \in Threads \ {t} : ~Judges(u, i)} IN
          \/ Strays(own) /\ Become(t, [req[t] EXCEPT !.job = k, !.pc = "forget"])
          \/ Strays({})
    BY <1>5 DEF DropJob
  <2> DEFINE own == {i \in {k} : \A u \in Threads \ {t} : ~Judges(u, i)}
             r == [req[t] EXCEPT !.job = k, !.pc = "forget"]
  <2>2. Strays(own) /\ Become(t, r)
    BY <1>1, <1>5, <2>1
  <2>3. r.pc = "forget" /\ r.job = k
    BY BasedFacts DEF Requests
  <2> HIDE DEF r
  <2>4. req'[t].pc = "forget" /\ req'[t].job = k
    BY <2>2, <2>3, OthersStay
  <2>5. \A j \in (Kept \cup astray) \ (Kept' \cup astray') : j \in own
    BY <2>2 DEF Strays
  <2> QED BY <2>4, <2>5
<1> QED BY <1>2, <1>3, <1>4, <1>5 DEF Next

-----------------------------------------------------------------------------
(* No bookkeeping outlives its job.                                          *)

\* Only jobs of grabs that have ended have entries, whatever overlaps.
LEMMA SettledStep ==
  ASSUME Based, Based', Tidy(Entries, req, Settled), [Next]_vars
  PROVE  Tidy(Entries', req', Settled')
<1>1. Settled \subseteq Settled' /\ jobs \subseteq Settled
  BY SettledStays DEF Based, LedgerInv, Served, Kept
<1> QED BY <1>1, TidyStep

LEMMA SettledEntries ==
  ASSUME Based, Tidy(Entries, req, Settled)
  PROVE  Entries \subseteq Settled
<1>1. \A t \in Threads : req[t].pc = "forget" => req[t].job \in Settled
  BY BasedFacts, SettingsAssumption DEF Consistent, Controlled
<1> QED BY <1>1 DEF Tidy

\* While no poll and no removal is under way, what the dictionaries hold is of
\* jobs that have a row, or whose row went astray: another request was judging
\* them when it was taken out, or another write than their own took it out
\* (download_service.py:296-300, 311-316).  Whatever overlaps and whatever fails.
THEOREM NothingStale == Spec => []NoStaleBookkeeping
<1> DEFINE Traces == Tidy(Entries, req, Kept \cup astray)
<1>1. Init => Traces
  BY TidyInit
<1>2. ASSUME Based, Traces, [Next]_vars PROVE Traces'
  <2>1. jobs \subseteq Kept \cup astray
    BY DEF Kept
  <2> QED BY <1>2, <2>1, StrayStep, TidyStep
<1>3. ASSUME Based, Traces PROVE NoStaleBookkeeping
  <2>1. \A t \in Threads : req[t].pc = "forget" => req[t].op \in {"poll", "remove"}
    BY <1>3, BasedFacts DEF Consistent, Sound, Requests
  <2> QED BY <1>3, <2>1 DEF Tidy, NoStaleBookkeeping
<1> QED BY <1>1, <1>2, <1>3, BasedInvariant, PTL DEF Spec

-----------------------------------------------------------------------------
(* What a step leaves a request with.                                        *)

\* A request is over, or goes on as what it is: a removal ends when it has
\* nothing left to take out, or the table fails it, and only forgetting a job
\* takes it off its list.
Continues(t) ==
  \/ req'[t] = Idle /\ (req[t].op = "remove" => req[t].purge = {} \/ "store" \in FaultKinds)
  \/ /\ req'[t].op = req[t].op /\ req'[t].now = req[t].now /\ req[t].op # "none"
     /\ \/ req[t].purge \subseteq req'[t].purge
        \/ ForgetJob(t) /\ req'[t].purge = req[t].purge \ {req[t].job}
     /\ req'[t].op = "remove" => req'[t].purge \subseteq req[t].purge

\* The locals a request goes on with.
LEMMA ContinueStep ==
  ASSUME Based, NEW t \in Threads, NEW r, Become(t, r), r.op = req[t].op, r.now = req[t].now, r.op # "none",
         r.purge = req[t].purge
  PROVE  Continues(t)
BY OthersStay DEF Continues

LEMMA WorkContinues ==
  ASSUME Based, NEW t \in Threads, Work(t)
  PROVE  Continues(t)
<1>a. req[t] \in Requests /\ Consistent(req[t]) /\ Sound(req[t])
  BY BasedFacts
<1>b. ASSUME Leave(t), req[t].op # "remove" \/ req[t].pc = "return" \/ "store" \in FaultKinds PROVE Continues(t)
  BY <1>a, <1>b, OthersStay DEF Leave, Continues, Sound
<1>1. CASE StartEnqueue(t)
  <2>1. PICK i :
          \/ Become(t, [req[t] EXCEPT !.discs = req[t].discs \ {i}, !.files = @ \cup DiscsOf[req[t].job][i],
                             !.pc = IF req[t].discs \ {i} = {} THEN "add" ELSE "enqueue"])
          \/ Become(t, [req[t] EXCEPT !.files = Attempted(@, DiscsOf[req[t].job][i]), !.pc = "locate"])
    BY <1>1 DEF StartEnqueue
  <2> DEFINE batch == DiscsOf[req[t].job][i]
             r == [req[t] EXCEPT !.discs = req[t].discs \ {i}, !.files = @ \cup batch,
                                 !.pc = IF req[t].discs \ {i} = {} THEN "add" ELSE "enqueue"]
             q == [req[t] EXCEPT !.files = Attempted(@, batch), !.pc = "locate"]
  <2>2. Become(t, r) \/ Become(t, q)
    BY <2>1
  <2>3. req[t].op = "start"
    BY <1>1, <1>a DEF StartEnqueue, Consistent
  <2> HIDE DEF batch
  <2>4. /\ r.op = "start" /\ r.now = req[t].now /\ r.purge = req[t].purge
        /\ q.op = "start" /\ q.now = req[t].now /\ q.purge = req[t].purge
    BY <1>a, <2>3 DEF Requests
  <2> HIDE DEF r, q
  <2> QED BY <2>2, <2>3, <2>4, ContinueStep
<1>2. CASE StartAdd(t) \/ StartRaise(t) \/ QueueAnswers(t) \/ HistoryAnswers(t) \/ RemoveReturns(t)
  BY <1>2, <1>a, <1>b DEF StartAdd, StartRaise, QueueAnswers, HistoryAnswers, Answers, RemoveReturns, Consistent
<1>3. CASE CancelLocate(t)
  <2> DEFINE found == Running(req[t].files)
             r == [req[t] EXCEPT !.cancels = found,
                                 !.pc = IF found = {} THEN AfterCancel(t) ELSE "cancel"]
             q == [req[t] EXCEPT !.pc = AfterCancel(t)]
  <2>1. (Become(t, r) \/ Become(t, q)) /\ req[t].op # "none"
    BY <1>3, <1>a DEF CancelLocate, Consistent
  <2>2. /\ r.op = req[t].op /\ r.now = req[t].now /\ r.purge = req[t].purge
        /\ q.op = req[t].op /\ q.now = req[t].now /\ q.purge = req[t].purge
    BY <1>a DEF Requests
  <2> HIDE DEF r, q
  <2> QED BY <2>1, <2>2, ContinueStep
<1>4. CASE CancelOne(t)
  <2>1. PICK c :
          Become(t, [req[t] EXCEPT !.cancels = req[t].cancels \ {c},
                             !.pc = IF req[t].cancels \ {c} = {} THEN AfterCancel(t) ELSE "cancel"])
    BY <1>4 DEF CancelOne
  <2> DEFINE rest == req[t].cancels \ {c}
             r == [req[t] EXCEPT !.cancels = rest,
                             !.pc = IF rest = {} THEN AfterCancel(t) ELSE "cancel"]
  <2>2. Become(t, r) /\ req[t].op # "none"
    BY <1>4, <1>a, <2>1 DEF CancelOne, Consistent
  <2>3. r.op = req[t].op /\ r.now = req[t].now /\ r.purge = req[t].purge
    BY <1>a DEF Requests
  <2> HIDE DEF r
  <2> QED BY <2>2, <2>3, ContinueStep
<1>13. CASE PollRows(t)
  <2> DEFINE peers == {JobUser[j] : j \in jobs}
             r == [req[t] EXCEPT !.todo = jobs, !.users = peers,
                                 !.pc = IF peers = {} THEN "visit" ELSE "list"]
  <2>1. (Leave(t) \/ Become(t, r)) /\ req[t].op = "poll"
    BY <1>13, <1>a DEF PollRows, Sound
  <2> HIDE DEF peers
  <2>2. r.op = req[t].op /\ r.now = req[t].now /\ r.purge = req[t].purge
    BY <1>a DEF Requests
  <2> HIDE DEF r
  <2> QED BY <1>b, <2>1, <2>2, ContinueStep
<1>5. CASE PollList(t)
  <2>0. req[t].op = "poll"
    BY <1>5, <1>a DEF PollList, Sound
  <2>1. PICK u : \/ Leave(t)
                 \/ Become(t, [req[t] EXCEPT !.users = req[t].users \ {u},
                          !.snap = [f \in Files |-> IF FileUser[f] = u THEN slskd[f] ELSE @[f]],
                          !.pc = IF req[t].users \ {u} = {} THEN "visit" ELSE "list"])
    BY <1>5 DEF PollList
  <2> DEFINE snap == [f \in Files |-> IF FileUser[f] = u THEN slskd[f] ELSE req[t].snap[f]]
             rest == req[t].users \ {u}
             r == [req[t] EXCEPT !.users = rest, !.snap = snap, !.pc = IF rest = {} THEN "visit" ELSE "list"]
  <2>2. Leave(t) \/ Become(t, r)
    BY <2>1
  <2> HIDE DEF snap, rest
  <2>3. r.op = req[t].op /\ r.now = req[t].now /\ r.purge = req[t].purge
    BY <1>a DEF Requests
  <2> HIDE DEF r
  <2> QED BY <1>b, <2>0, <2>2, <2>3, ContinueStep
<1>6. ASSUME NEW j \in Jobs, VisitCompleted(t, j) \/ VisitFailed(t, j) \/ VisitRunning(t, j)
      PROVE  Continues(t)
  <2> DEFINE chosen == {i \in DOMAIN DiscsOf[j] : RetryFiles(req[t].snap, j, i) # {}}
             r1 == [req[t] EXCEPT !.todo = @ \ {j}, !.job = j, !.pc = "conclude", !.verdict = "completed"]
             r2 == [req[t] EXCEPT !.todo = @ \ {j}, !.job = j, !.pc = "retry", !.discs = chosen]
             r3 == [req[t] EXCEPT !.todo = @ \ {j}, !.job = j, !.pc = "conclude", !.verdict = "failed"]
             r4 == [req[t] EXCEPT !.todo = @ \ {j}, !.job = j, !.pc = "stall"]
  <2>1. /\ req[t].op = "poll"
        /\ Leave(t) \/ Become(t, r1) \/ Become(t, r2) \/ Become(t, r3) \/ Become(t, r4)
    BY <1>6, <1>a DEF VisitCompleted, VisitFailed, VisitRunning, Sound
  <2> HIDE DEF chosen
  <2>2. /\ r1.op = req[t].op /\ r1.now = req[t].now /\ r1.purge = req[t].purge
        /\ r2.op = req[t].op /\ r2.now = req[t].now /\ r2.purge = req[t].purge
        /\ r3.op = req[t].op /\ r3.now = req[t].now /\ r3.purge = req[t].purge
        /\ r4.op = req[t].op /\ r4.now = req[t].now /\ r4.purge = req[t].purge
    BY <1>a DEF Requests
  <2> HIDE DEF r1, r2, r3, r4
  <2> QED BY <1>b, <2>1, <2>2, ContinueStep
<1>7. CASE RetryEnqueue(t)
  <2>1. PICK i : \/ Become(t, [req[t] EXCEPT !.discs = req[t].discs \ {i},
                                  !.pc = IF req[t].discs \ {i} = {} THEN "stall" ELSE "retry"])
                 \/ Become(t, [req[t] EXCEPT !.discs = {}, !.pc = "stall"])
    BY <1>7 DEF RetryEnqueue
  <2> DEFINE rest == req[t].discs \ {i}
             r == [req[t] EXCEPT !.discs = rest, !.pc = IF rest = {} THEN "stall" ELSE "retry"]
             q == [req[t] EXCEPT !.discs = {}, !.pc = "stall"]
  <2>2. (Become(t, r) \/ Become(t, q)) /\ req[t].op = "poll"
    BY <1>7, <1>a, <2>1 DEF RetryEnqueue, Sound
  <2>3. /\ r.op = req[t].op /\ r.now = req[t].now /\ r.purge = req[t].purge
        /\ q.op = req[t].op /\ q.now = req[t].now /\ q.purge = req[t].purge
    BY <1>a DEF Requests
  <2> HIDE DEF r, q
  <2> QED BY <2>2, <2>3, ContinueStep
<1>8. CASE StallCheck(t)
  <2> DEFINE r == [req[t] EXCEPT !.pc = "conclude", !.verdict = "stalled"]
             q == [req[t] EXCEPT !.pc = "visit", !.views[req[t].job] = "downloading"]
  <2>1. (Become(t, r) \/ Become(t, q)) /\ req[t].op = "poll"
    BY <1>8, <1>a DEF StallCheck, Sound
  <2>2. /\ r.op = req[t].op /\ r.now = req[t].now /\ r.purge = req[t].purge
        /\ q.op = req[t].op /\ q.now = req[t].now /\ q.purge = req[t].purge
    BY <1>a DEF Requests
  <2> HIDE DEF r, q
  <2> QED BY <2>1, <2>2, ContinueStep
<1>9. CASE Conclude(t)
  <2> DEFINE r == [req[t] EXCEPT !.pc = "visit", !.purge = @ \cup {req[t].job}]
             q == [req[t] EXCEPT !.pc = "visit", !.views[req[t].job] = Reported(req[t].verdict)]
  <2>1. (Become(t, r) \/ Become(t, q)) /\ req[t].op = "poll"
    BY <1>9, <1>a DEF Conclude, Sound
  <2>2. /\ r.op = req[t].op /\ r.now = req[t].now /\ r.purge = req[t].purge \cup {req[t].job}
        /\ q.op = req[t].op /\ q.now = req[t].now /\ q.purge = req[t].purge
    BY <1>a DEF Requests
  <2> HIDE DEF r, q
  <2> QED BY <2>1, <2>2, OthersStay DEF Continues
<1>10. CASE PollLoopEnds(t)
  <2> DEFINE r == [req[t] EXCEPT !.pc = IF req[t].purge = {} THEN "return" ELSE "drop"]
  <2>1. Become(t, r) /\ req[t].op = "poll"
    BY <1>10, <1>a DEF PollLoopEnds, Sound
  <2>2. r.op = req[t].op /\ r.now = req[t].now /\ r.purge = req[t].purge
    BY <1>a DEF Requests
  <2> HIDE DEF r
  <2> QED BY <2>1, <2>2, ContinueStep
<1>11. CASE DropJob(t)
  <2>1. PICK j : \/ Become(t, [req[t] EXCEPT !.job = j, !.pc = "forget"])
                 \/ Leave(t) /\ "store" \in FaultKinds
    BY <1>11 DEF DropJob, WriteFails, Fault
  <2> DEFINE r == [req[t] EXCEPT !.job = j, !.pc = "forget"]
  <2>2. (Become(t, r) \/ (Leave(t) /\ "store" \in FaultKinds)) /\ req[t].op # "none"
    BY <1>11, <1>a, <2>1 DEF DropJob, Sound
  <2>3. r.op = req[t].op /\ r.now = req[t].now /\ r.purge = req[t].purge
    BY <1>a DEF Requests
  <2> HIDE DEF r
  <2> QED BY <1>b, <2>2, <2>3, ContinueStep
<1>12. CASE ForgetJob(t)
  <2> DEFINE rest == req[t].purge \ {req[t].job}
             r == [req[t] EXCEPT !.purge = rest, !.pc = IF rest = {} THEN "return" ELSE "drop"]
  <2>1. Become(t, r) /\ req[t].op # "none"
    BY <1>12, <1>a DEF ForgetJob, Sound
  <2>2. r.op = req[t].op /\ r.now = req[t].now /\ r.purge = rest
    BY <1>a DEF Requests
  <2> HIDE DEF r
  <2> QED BY <1>12, <2>1, <2>2, OthersStay DEF Continues
<1> QED
  BY <1>1, <1>2, <1>3, <1>4, <1>5, <1>6, <1>7, <1>8, <1>9, <1>10, <1>11, <1>12, <1>13 DEF Work, Visit

\* A removal counts as one until it has popped its job's entries, or failed.
LEMMA RemovingWork ==
  ASSUME Based, NEW t \in Threads, Work(t)
  PROVE  /\ \A j : Removing(j)' => Removing(j)
         /\ \A j : Removing(j) => Removing(j)' \/ (ForgetJob(t) /\ j = req[t].job) \/ "store" \in FaultKinds
<1>1. \A u \in Threads : u # t => req'[u] = req[u]
  BY StepBecomes, OthersStay
<1>2. Continues(t)
  BY WorkContinues
<1>3. Idle.op # "remove"
  BY IdleSound
<1>4. ASSUME NEW j, Removing(j)' PROVE Removing(j)
  <2>1. PICK u \in Threads : req'[u].op = "remove" /\ j \in req'[u].purge
    BY <1>4 DEF Removing
  <2> QED BY <1>1, <1>2, <1>3, <2>1 DEF Removing, Continues
<1>5. ASSUME NEW j, Removing(j), ~(ForgetJob(t) /\ j = req[t].job), "store" \notin FaultKinds PROVE Removing(j)'
  <2>1. PICK u \in Threads : req[u].op = "remove" /\ j \in req[u].purge
    BY <1>5 DEF Removing
  <2>2. CASE u = t
    BY <1>2, <1>5, <2>1, <2>2 DEF Removing, Continues
  <2>3. CASE u # t
    BY <1>1, <2>1, <2>3 DEF Removing
  <2> QED BY <2>2, <2>3
<1> QED BY <1>4, <1>5

\* A request that begins replaces an idle thread.
LEMMA RemovingBegin ==
  ASSUME Based, NEW t \in Threads, NEW r, Become(t, r), req[t].pc = "idle"
  PROVE  /\ \A j : Removing(j)' => Removing(j) \/ (r.op = "remove" /\ j \in r.purge)
         /\ \A j : Removing(j) => Removing(j)'
<1>1. req'[t] = r /\ (\A u \in Threads : u # t => req'[u] = req[u]) /\ req[t].op = "none"
  BY OthersStay, BasedFacts DEF Sound
<1>2. ASSUME NEW j, Removing(j)' PROVE Removing(j) \/ (r.op = "remove" /\ j \in r.purge)
  <2>1. PICK u \in Threads : req'[u].op = "remove" /\ j \in req'[u].purge
    BY <1>2 DEF Removing
  <2> QED BY <1>1, <2>1 DEF Removing
<1>3. ASSUME NEW j, Removing(j) PROVE Removing(j)'
  <2>1. PICK u \in Threads : req[u].op = "remove" /\ j \in req[u].purge
    BY <1>3 DEF Removing
  <2> QED BY <1>1, <2>1 DEF Removing
<1> QED BY <1>2, <1>3

\* No removal is about a job that is still being grabbed.
LEMMA RemovingSettled == ASSUME Based, NEW j, Removing(j) PROVE j \in Settled
BY BasedFacts DEF Removing, Consistent

-----------------------------------------------------------------------------
(* No transfer is orphaned.                                                  *)

\* slskd lists and cancels when asked, takes what it takes of a batch at once, and
\* the table takes every row; batches may be refused, in part or whole, and peers
\* may fail, at any moment.
Answering == MaxRestarts = 0 /\ FaultKinds \cap {"list", "late", "cancel", "store"} = {}

\* Then the table is as committed, and slskd owes no batch.
Even == jobs = stored /\ late = {}

Active(transfers, f) == transfers[f].state = "active"

\* Jobs that account for their transfers: tracked, or purged by a poll.
Known == jobs \cup purged

\* A job that stays accounts for a transfer, or a request that will cancel it.
Held(f) == \E j \in Known : f \in FilesOf(j) /\ ~Removing(j)
Owes(r, transfers, f) ==
  /\ r.op \in {"start", "remove"} /\ f \in r.files
  /\ \/ r.pc \in {"enqueue", "add", "locate"}
     \/ r.pc = "cancel" /\ <<f, transfers[f].id>> \in r.cancels

Clean == \A f \in Files : Active(slskd, f) => Held(f) \/ \E t \in Threads : Owes(req[t], slskd, f)

\* The invariants a step may rely on.
Overlapped == Based /\ Even /\ RemovalsApart /\ Tidy(Entries, req, Known) /\ Clean

\* The one row a step takes out.
LEMMA DropOne ==
  ASSUME Answering, Based, NEW t \in Threads, DropJob(t)
  PROVE  /\ req[t].pc = "drop" /\ req'[t].pc = "forget" /\ req'[t].job \in req[t].purge
         /\ jobs' = jobs \ {req'[t].job} /\ stored' = jobs' /\ late' = late
         /\ purged' = IF req[t].op = "poll" THEN purged \cup {req'[t].job} ELSE purged
<1>1. PICK j \in req[t].purge :
        /\ req[t].pc = "drop" /\ jobs' = jobs \ {j} /\ stored' = jobs \ {j} /\ late' = late
        /\ Become(t, [req[t] EXCEPT !.job = j, !.pc = "forget"])
        /\ purged' = IF req[t].op = "poll" THEN purged \cup {j} ELSE purged
  BY DEF DropJob, Writes, WriteFails, Fault, Answering, world
<1>2. LET r == [req[t] EXCEPT !.job = j, !.pc = "forget"] IN r.job = j /\ r.pc = "forget"
  BY BasedFacts DEF Requests
<1>3. req'[t].job = j /\ req'[t].pc = "forget"
  BY <1>1, <1>2, OthersStay
<1> QED BY <1>1, <1>3

\* No other step takes a row out, or forgets a purge.
LEMMA RowsStay ==
  ASSUME Answering, Based, Even, [Next]_vars, ~\E t \in Threads : DropJob(t)
  PROVE  jobs \subseteq jobs' /\ purged' = purged /\ Even'
<1> DEFINE stays == jobs \subseteq jobs' /\ purged' = purged /\ Even'
<1>1. CASE Environment \/ UNCHANGED vars
  BY <1>1 DEF Environment, PeerSends, TransferSucceeds, TransferFails, LateEnqueue, ReleaseWrite, ReleaseWriteFails,
     Tick, Restart, vars, world, table, Even, Answering, Based, TypeInv, TypeOK
<1>2. ASSUME NEW t \in Threads, Begin(t) PROVE stays
  BY <1>2 DEF Begin, PollBegin, StartBegin, RemoveBegin, world, table, Even
<1>3. ASSUME NEW t \in Threads, Work(t) PROVE stays
  <2>1. CASE StartEnqueue(t) \/ RetryEnqueue(t)
    BY <2>1 DEF StartEnqueue, RetryEnqueue, Posts, PostRaises, Fault, table, Even, Answering
  <2>2. CASE StartAdd(t)
    BY <2>2 DEF StartAdd, Writes, WriteFails, Fault, world, Even, Answering
  <2>3. CASE StartRaise(t) \/ CancelLocate(t) \/ CancelOne(t) \/ PollRows(t) \/ PollList(t)
    BY <2>3 DEF StartRaise, CancelLocate, CancelOne, PollRows, PollList, world, table, Even
  <2>4. CASE Visit(t)
    BY <2>4 DEF Visit, VisitCompleted, VisitFailed, VisitRunning, world, table, Even
  <2>5. CASE \/ StallCheck(t) \/ Conclude(t) \/ PollLoopEnds(t) \/ ForgetJob(t)
             \/ QueueAnswers(t) \/ HistoryAnswers(t) \/ RemoveReturns(t)
    BY <2>5 DEF StallCheck, Conclude, PollLoopEnds, ForgetJob, QueueAnswers, HistoryAnswers,
       Answers, RemoveReturns, world, table, Even
  <2> QED BY <1>3, <2>1, <2>2, <2>3, <2>4, <2>5 DEF Work
<1> QED BY <1>1, <1>2, <1>3 DEF Next

\* The table is as committed, and slskd owes nothing.
LEMMA EvenStep ==
  ASSUME Answering, Based, Even, [Next]_vars
  PROVE  Even'
BY DropOne, RowsStay DEF Even

\* A job that stops to account for its transfers is one being removed.
LEMMA KnownStays ==
  ASSUME Answering, Based, Even, [Next]_vars
  PROVE  \A k \in Known \ Known' : Removing(k)
<1>1. ASSUME NEW t \in Threads, DropJob(t) PROVE \A k \in Known \ Known' : Removing(k)
  <2>1. req[t].op \in {"poll", "remove"}
    BY <1>1, BasedFacts DEF DropJob, Consistent, Sound, Requests
  <2> QED BY <1>1, <2>1, DropOne DEF Known, Removing
<1> QED BY <1>1, RowsStay DEF Known

\* The jobs polls judge are known as long as none of them is removed.
LEMMA KnownStep ==
  ASSUME Answering, Based, Even, RemovalsApart, Tidy(Entries, req, Known), [Next]_vars
  PROVE  Tidy(Entries', req', Known')
<1>1. CASE \E t \in Threads : DropJob(t)
  <2>1. PICK t \in Threads : DropJob(t)
    BY <1>1
  <2>2. \A k \in Known \ Known' : k = req'[t].job /\ req'[t].pc = "forget" /\ Removing(k) /\ k \in Jobs
    <3>1. Known \subseteq Jobs
      BY DEF Known, Based, TypeInv, TypeOK
    <3> QED BY <2>1, <3>1, DropOne, KnownStays DEF Known
  <2>3. \A k \in Known \ Known' : \A u \in Threads : ~Judges(u, k)
    BY <2>2 DEF RemovalsApart
  <2> QED BY <2>1, <2>2, <2>3, TidyStep DEF Known
<1>2. CASE ~\E t \in Threads : DropJob(t)
  BY <1>2, RowsStay, TidyStep DEF Known
<1> QED BY <1>1, <1>2

\* What held a transfer holds it on.
LEMMA HeldStays ==
  ASSUME Answering, Based, Even, NEW t \in Threads, Work(t), NEW f, Held(f)
  PROVE  Held(f)'
<1>1. PICK k \in Known : f \in FilesOf(k) /\ ~Removing(k)
  BY DEF Held
<1>2. k \in Known'
  BY <1>1, KnownStays DEF Next
<1> QED BY <1>1, <1>2, RemovingWork DEF Held

\* A step after which its thread, another one or a job accounts for what runs.
LEMMA CleanStep ==
  ASSUME Based, NEW t \in Threads, NEW r, Become(t, r),
         \A f \in Files : Active(slskd', f) =>
           \/ Held(f)' \/ Owes(r, slskd', f)
           \/ slskd'[f].id = slskd[f].id /\ \E u \in Threads : u # t /\ Owes(req[u], slskd, f)
  PROVE  Clean'
<1>1. req'[t] = r /\ \A u \in Threads : u # t => req'[u] = req[u]
  BY OthersStay
<1> SUFFICES ASSUME NEW f \in Files, Active(slskd', f), ~Held(f)', ~Owes(r, slskd', f)
             PROVE  \E u \in Threads : Owes(req'[u], slskd', f)
  BY <1>1 DEF Clean
<1>2. PICK u \in Threads : u # t /\ Owes(req[u], slskd, f) /\ slskd'[f].id = slskd[f].id
  OBVIOUS
<1>3. Owes(req'[u], slskd', f)
  BY <1>1, <1>2 DEF Owes
<1> QED BY <1>3

\* A step of a request already begun that enqueues only for a job that stays.
LEMMA WatchStep ==
  ASSUME Answering, Overlapped, NEW t \in Threads, Work(t),
         \A f \in Files : Active(slskd', f) => Held(f) \/ slskd'[f] = slskd[f],
         \A f \in Files : Active(slskd, f) /\ Owes(req[t], slskd, f) => Held(f)' \/ Owes(req'[t], slskd, f)
  PROVE  Clean'
<1>1. PICK r : Become(t, r)
  BY StepBecomes
<1>2. req'[t] = r
  BY <1>1, OthersStay DEF Overlapped
<1>3. ASSUME NEW f \in Files, Active(slskd', f), ~Held(f)
      PROVE  \/ Held(f)' \/ Owes(r, slskd', f)
             \/ slskd'[f].id = slskd[f].id /\ \E u \in Threads : u # t /\ Owes(req[u], slskd, f)
  <2>1. slskd'[f] = slskd[f] /\ Active(slskd, f)
    BY <1>3 DEF Active
  <2>2. PICK u \in Threads : Owes(req[u], slskd, f)
    BY <1>3, <2>1 DEF Overlapped, Clean
  <2>3. CASE u = t
    <3>1. Held(f)' \/ Owes(r, slskd, f)
      BY <1>2, <2>1, <2>2, <2>3
    <3> QED BY <2>1, <3>1 DEF Owes
  <2> QED BY <2>1, <2>2, <2>3
<1>4. \A f \in Files : Held(f) => Held(f)'
  BY HeldStays DEF Overlapped
<1> QED BY <1>1, <1>3, <1>4, CleanStep DEF Overlapped

\* What runs after a batch POST is what ran before it and files of the batch.
LEMMA EnqueuedActive ==
  ASSUME NEW batch, NEW f \in Files, f \notin batch
  PROVE  Enqueued(batch)[f] = slskd[f]
BY DEF Enqueued

\* A request that begins.
LEMMA CleanBegin ==
  ASSUME Overlapped, NEW t \in Threads, Begin(t)
  PROVE  Clean'
<1>a. req[t].pc = "idle" /\ (\A f : ~Owes(req[t], slskd, f)) /\ slskd' = slskd /\ jobs' = jobs /\ purged' = purged
  BY BasedFacts DEF Overlapped, Begin, PollBegin, StartBegin, RemoveBegin, Sound, Owes, table
<1>b. ASSUME NEW r, Become(t, r), \A f \in Files : Held(f) => Held(f)' \/ Owes(r, slskd, f) PROVE Clean'
  <2>1. \A f \in Files : Active(slskd, f) => Held(f) \/ \E u \in Threads : u # t /\ Owes(req[u], slskd, f)
    BY <1>a DEF Overlapped, Clean
  <2> QED BY <1>a, <1>b, <2>1, CleanStep DEF Overlapped
<1>c. ASSUME NEW r, Become(t, r), r.op # "remove" PROVE Clean'
  <2>1. \A f : Held(f) => Held(f)'
    BY <1>a, <1>c, RemovingBegin DEF Overlapped, Held, Known
  <2> QED BY <1>b, <1>c, <2>1
<1>1. CASE PollBegin(t)
  <2> DEFINE r == [Idle EXCEPT !.op = "poll", !.pc = "rows", !.now = clock]
  <2>1. Become(t, r)
    BY <1>1 DEF PollBegin
  <2>2. r.op = "poll"
    BY DEF Idle
  <2> HIDE DEF r
  <2> QED BY <1>c, <2>1, <2>2
<1>2. ASSUME NEW j \in Jobs, StartBegin(t, j) PROVE Clean'
  <2> DEFINE r == [Idle EXCEPT !.op = "start", !.pc = "enqueue", !.now = clock,
                               !.job = j, !.discs = DOMAIN DiscsOf[j]]
  <2>1. Become(t, r)
    BY <1>2 DEF StartBegin
  <2>2. r.op = "start"
    BY DEF Idle
  <2> HIDE DEF r
  <2> QED BY <1>c, <2>1, <2>2
<1>3. ASSUME NEW j \in Jobs, RemoveBegin(t, j) PROVE Clean'
  <2> DEFINE r == [Idle EXCEPT !.op = "remove", !.pc = "locate", !.now = clock,
                               !.files = FilesOf(j), !.purge = {j}]
  <2>1. Become(t, r)
    BY <1>3 DEF RemoveBegin
  <2>2. r.op = "remove" /\ r.pc = "locate" /\ r.files = FilesOf(j) /\ r.purge = {j}
    BY DEF Idle
  <2> HIDE DEF r
  <2>3. ASSUME NEW f \in Files, Held(f) PROVE Held(f)' \/ Owes(r, slskd, f)
    <3>1. PICK k \in Known : f \in FilesOf(k) /\ ~Removing(k)
      BY <2>3 DEF Held
    <3>2. CASE k = j
      BY <2>2, <3>1, <3>2 DEF Owes
    <3>3. CASE k # j
      <4>1. ~Removing(k)'
        BY <1>a, <2>1, <2>2, <3>1, <3>3, RemovingBegin DEF Overlapped
      <4> QED BY <1>a, <3>1, <4>1 DEF Held, Known
    <3> QED BY <3>2, <3>3
  <2> QED BY <1>b, <2>1, <2>3
<1> QED BY <1>1, <1>2, <1>3 DEF Begin

\* The batches of a grab, and its row.
LEMMA CleanStart ==
  ASSUME Answering, Overlapped, NEW t \in Threads, StartEnqueue(t) \/ StartAdd(t) \/ StartRaise(t)
  PROVE  Clean'
<1>a. /\ req[t] \in Requests /\ Controlled(req[t]) /\ Consistent(req[t]) /\ Sound(req[t])
      /\ \A f \in Files : Held(f) => Held(f)'
  BY BasedFacts, HeldStays DEF Overlapped, Work
<1>b. req[t].op = "start" /\ req[t].files \subseteq FilesOf(req[t].job)
  BY <1>a DEF Consistent, Sound, StartEnqueue, StartAdd, StartRaise
<1>1. CASE StartEnqueue(t)
  <2>1. PICK i \in NextDisc(t) : \E taken \in SUBSET DiscsOf[req[t].job][i] :
          /\ req[t].pc = "enqueue" /\ slskd' = Enqueued(taken)
          /\ \/ Become(t, [req[t] EXCEPT !.discs = req[t].discs \ {i}, !.files = @ \cup DiscsOf[req[t].job][i],
                             !.pc = IF req[t].discs \ {i} = {} THEN "add" ELSE "enqueue"])
             \/ Become(t, [req[t] EXCEPT !.files = Attempted(@, DiscsOf[req[t].job][i]), !.pc = "locate"])
    BY <1>1 DEF StartEnqueue, Posts, PostRaises
  <2> DEFINE batch == DiscsOf[req[t].job][i]
             r == [req[t] EXCEPT !.discs = req[t].discs \ {i}, !.files = @ \cup batch,
                                 !.pc = IF req[t].discs \ {i} = {} THEN "add" ELSE "enqueue"]
             q == [req[t] EXCEPT !.files = Attempted(@, batch), !.pc = "locate"]
  <2>2. /\ r.op = "start" /\ r.pc \in {"add", "enqueue"} /\ r.files = req[t].files \cup batch
        /\ q.op = "start" /\ q.pc = "locate" /\ q.files = req[t].files \cup batch
    BY <1>a, <1>b DEF Requests, Attempted
  <2>3. Become(t, r) \/ Become(t, q)
    BY <2>1
  <2>4. req[t].pc = "enqueue" /\ \E taken \in SUBSET batch : slskd' = Enqueued(taken)
    BY <2>1
  <2> HIDE DEF r, q, batch
  <2>5. ASSUME NEW f \in Files, Active(slskd', f), ~(Owes(r, slskd', f) /\ Owes(q, slskd', f))
        PROVE  \/ Held(f)'
               \/ slskd'[f].id = slskd[f].id /\ \E u \in Threads : u # t /\ Owes(req[u], slskd, f)
    <3>1. f \notin batch /\ f \notin req[t].files
      BY <2>2, <2>5 DEF Owes
    <3>2. slskd'[f] = slskd[f]
      BY <2>4, <3>1, EnqueuedActive
    <3>3. ~Owes(req[t], slskd, f)
      BY <3>1 DEF Owes
    <3> QED BY <1>a, <2>5, <3>2, <3>3 DEF Overlapped, Clean, Active
  <2> QED BY <2>3, <2>5, CleanStep DEF Overlapped
<1>2. CASE StartAdd(t)
  <2>0. PICK j : j = req[t].job
    OBVIOUS
  <2>1. jobs' = jobs \cup {j} /\ slskd' = slskd
    BY <1>2, <2>0 DEF StartAdd, Writes, WriteFails, Fault, Answering
  <2>2. ~Removing(j)'
    <3>1. j \notin Settled
      BY <1>b, <2>0 DEF Settled, Opening
    <3> QED BY <1>2, <3>1, RemovingSettled, RemovingWork DEF Overlapped, Work
  <2>3. \A f \in Files : Owes(req[t], slskd, f) => Held(f)'
    BY <1>b, <2>0, <2>1, <2>2 DEF Owes, Held, Known
  <2> QED BY <1>2, <2>1, <2>3, WatchStep DEF Work
<1>3. CASE StartRaise(t)
  BY <1>3, WatchStep DEF StartRaise, Work, Owes
<1> QED BY <1>1, <1>2, <1>3

\* The cancellations of a failed grab and of a removal.
LEMMA CleanCancel ==
  ASSUME Answering, Overlapped, NEW t \in Threads, CancelLocate(t) \/ CancelOne(t)
  PROVE  Clean'
<1>a. /\ req[t] \in Requests /\ Consistent(req[t])
      /\ slskd \in [Files -> Transfer] /\ req[t].files \subseteq Files
      /\ \A f \in Files : Held(f) => Held(f)'
  BY BasedFacts, HeldStays DEF Overlapped, Requests, Work
<1>b. req[t].op \in {"start", "remove"}
  BY <1>a DEF Consistent, CancelLocate, CancelOne
<1>1. CASE CancelLocate(t)
  <2> DEFINE found == Running(req[t].files)
             r == [req[t] EXCEPT !.cancels = found,
                                 !.pc = IF found = {} THEN AfterCancel(t) ELSE "cancel"]
  <2>1. Become(t, r) /\ slskd' = slskd
    BY <1>1 DEF CancelLocate, Fault, Answering
  <2>2. \A f \in req[t].files : Active(slskd, f) => <<f, slskd[f].id>> \in found
    BY DEF Running, Active
  <2>3. /\ r.op = req[t].op /\ r.files = req[t].files /\ r.cancels = found
        /\ r.pc = IF found = {} THEN AfterCancel(t) ELSE "cancel"
    BY <1>a DEF Requests
  <2> HIDE DEF r, found
  <2>4. \A f \in Files : Active(slskd, f) /\ Owes(req[t], slskd, f) => Owes(r, slskd, f)
    BY <1>b, <2>2, <2>3 DEF Owes
  <2>5. req'[t] = r
    BY <2>1, OthersStay DEF Overlapped
  <2> QED BY <1>1, <2>1, <2>4, <2>5, WatchStep DEF Work
<1>2. CASE CancelOne(t)
  <2>1. PICK c \in req[t].cancels :
          /\ slskd' = IF slskd[c[1]].id = c[2]
                      THEN [slskd EXCEPT ![c[1]] = [NoTransfer EXCEPT !.id = c[2]]]
                      ELSE slskd
          /\ Become(t, [req[t] EXCEPT !.cancels = req[t].cancels \ {c},
                          !.pc = IF req[t].cancels \ {c} = {} THEN AfterCancel(t) ELSE "cancel"])
    BY <1>2 DEF CancelOne, Fault, Answering
  <2> DEFINE rest == req[t].cancels \ {c}
             r == [req[t] EXCEPT !.cancels = rest,
                                 !.pc = IF rest = {} THEN AfterCancel(t) ELSE "cancel"]
  <2>2. Become(t, r) /\ req[t].pc = "cancel"
    BY <1>2, <2>1 DEF CancelOne
  <2>3. /\ r.op = req[t].op /\ r.files = req[t].files /\ r.cancels = rest
        /\ r.pc = IF rest = {} THEN AfterCancel(t) ELSE "cancel"
    BY <1>a DEF Requests
  <2>4. \A f \in Files : Active(slskd', f) => Active(slskd, f) /\ slskd'[f] = slskd[f] /\ <<f, slskd[f].id>> # c
    BY <1>a, <2>1 DEF Active, NoTransfer
  <2>5. \A f \in Files : Owes(req[t], slskd, f) /\ <<f, slskd[f].id>> # c => <<f, slskd[f].id>> \in rest
    BY <2>2 DEF Owes
  <2> HIDE DEF r, rest
  <2>6. ASSUME NEW f \in Files, Active(slskd', f), ~Held(f)'
        PROVE  \/ Owes(r, slskd', f)
               \/ slskd'[f].id = slskd[f].id /\ \E u \in Threads : u # t /\ Owes(req[u], slskd, f)
    <3>1. Active(slskd, f) /\ slskd'[f] = slskd[f] /\ <<f, slskd[f].id>> # c
      BY <2>4, <2>6
    <3>2. PICK u \in Threads : Owes(req[u], slskd, f)
      BY <1>a, <2>6, <3>1 DEF Overlapped, Clean
    <3>3. CASE u = t
      BY <1>b, <2>3, <2>5, <3>1, <3>2, <3>3 DEF Owes
    <3> QED BY <3>1, <3>2, <3>3
  <2> QED BY <2>2, <2>6, CleanStep DEF Overlapped
<1> QED BY <1>1, <1>2

\* Every other step of a request enqueues nothing but what its job has failed.
LEMMA CleanPoll ==
  ASSUME Answering, Overlapped, NEW t \in Threads, Work(t),
         ~(StartEnqueue(t) \/ StartAdd(t) \/ StartRaise(t) \/ CancelLocate(t) \/ CancelOne(t))
  PROVE  Clean'
<1>1. \A f : ~Owes(req[t], slskd, f)
  BY DEF Owes, Work, PollRows, PollList, Visit, VisitCompleted, VisitFailed, VisitRunning, RetryEnqueue, StallCheck,
     Conclude, PollLoopEnds, DropJob, ForgetJob, QueueAnswers, HistoryAnswers, Answers, RemoveReturns
<1>2. CASE ~RetryEnqueue(t)
  <2>1. slskd' = slskd
    BY <1>2 DEF Work, PollRows, PollList, Visit, VisitCompleted, VisitFailed, VisitRunning, StallCheck,
       Conclude, PollLoopEnds, DropJob, ForgetJob, QueueAnswers, HistoryAnswers, Answers, RemoveReturns
  <2> QED BY <1>1, <2>1, WatchStep
<1>3. CASE RetryEnqueue(t)
  <2>1. PICK i \in NextDisc(t) : \E taken \in SUBSET RetryFiles(req[t].snap, req[t].job, i) :
          slskd' = Enqueued(taken)
    BY <1>3 DEF RetryEnqueue, Posts, PostRaises
  <2>2. RetryFiles(req[t].snap, req[t].job, i) \subseteq FilesOf(req[t].job)
    BY DEF RetryFiles, InState
  <2>3. req[t].job \in Known /\ ~Removing(req[t].job)
    <3>1. req[t].pc = "retry" /\ req[t].op = "poll" /\ req[t].job \in Jobs /\ req[t].job \in Known
      BY <1>3, BasedFacts DEF Overlapped, RetryEnqueue, Sound, Controlled, Tidy, Steady
    <3> QED BY <3>1 DEF Overlapped, RemovalsApart, Judges
  <2>4. ASSUME NEW f \in Files PROVE Held(f) \/ slskd'[f] = slskd[f]
    BY <2>1, <2>2, <2>3, EnqueuedActive DEF Held
  <2> QED BY <1>1, <2>4, WatchStep
<1> QED BY <1>2, <1>3

\* Nothing outside the bridge starts a transfer.
LEMMA CleanEnvironment ==
  ASSUME Answering, Overlapped, Environment
  PROVE  Clean'
<1>1. ~Restart /\ ~ReleaseWrite /\ ~ReleaseWriteFails /\ \A f \in Files : ~LateEnqueue(f)
  BY DEF Answering, Restart, ReleaseWrite, ReleaseWriteFails, LateEnqueue, Overlapped, Even, Based, TypeInv, TypeOK
<1>2. UNCHANGED <<req, jobs, purged>>
  BY <1>1 DEF Environment, PeerSends, TransferSucceeds, TransferFails, Tick, table
<1>3. \A f \in Files : Active(slskd', f) => Active(slskd, f) /\ slskd'[f].id = slskd[f].id
  <2>1. slskd \in [Files -> Transfer]
    BY DEF Overlapped, Based, TypeInv, TypeOK
  <2>2. CASE Tick
    BY <2>2 DEF Tick
  <2>3. ASSUME NEW f \in Files, PeerSends(f)
        PROVE  \A g \in Files : Active(slskd', g) => Active(slskd, g) /\ slskd'[g].id = slskd[g].id
    BY <2>1, <2>3 DEF PeerSends, Active, Transfer
  <2>4. ASSUME NEW f \in Files, TransferSucceeds(f) \/ TransferFails(f)
        PROVE  \A g \in Files : Active(slskd', g) => Active(slskd, g) /\ slskd'[g].id = slskd[g].id
    BY <2>1, <2>4 DEF TransferSucceeds, TransferFails, Active, Transfer
  <2> QED BY <1>1, <2>2, <2>3, <2>4 DEF Environment
<1>4. \A f : Held(f) => Held(f)'
  BY <1>2 DEF Held, Known, Removing
<1>5. \A t \in Threads, f \in Files : Active(slskd', f) /\ Owes(req[t], slskd, f) => Owes(req'[t], slskd', f)
  BY <1>2, <1>3 DEF Owes
<1> QED BY <1>3, <1>4, <1>5 DEF Overlapped, Clean

\* While slskd answers, no transfer outlives a grab that failed or the removal
\* of its job (download_service.py:65-69, 121-146, 304-310), however grabs, polls
\* and removals overlap, as long as no job is removed while a poll judges it.
\* Grabs may share files.
THEOREM NoTransferOrphaned == ASSUME Answering PROVE ApartSpec => []NoOrphan
<1>1. ApartSpec => Spec
  <2>1. [Next /\ RemovalsApart']_vars => [Next]_vars
    OBVIOUS
  <2> QED BY <2>1, PTL DEF ApartSpec, Spec
<1>2. Init => Even /\ RemovalsApart /\ Tidy(Entries, req, Known) /\ Clean
  BY TidyInit, IdleSound DEF Init, Even, RemovalsApart, Removing, Clean, Active, NoTransfer
<1>3. RemovalsApart /\ [Next /\ RemovalsApart']_vars => RemovalsApart'
  BY DEF vars, RemovalsApart, Judges, Removing
<1>4. Based /\ Even /\ RemovalsApart /\ Tidy(Entries, req, Known) /\ [Next /\ RemovalsApart']_vars
        => Tidy(Entries, req, Known)' /\ Even'
  BY KnownStep, EvenStep
<1>5. ASSUME Overlapped, [Next /\ RemovalsApart']_vars PROVE Clean'
  <2>1. CASE UNCHANGED vars
    BY <1>5, <2>1 DEF vars, table, Overlapped, Clean, Held, Known, Removing
  <2>2. CASE Environment
    BY <1>5, <2>2, CleanEnvironment
  <2>3. ASSUME NEW t \in Threads, Begin(t) PROVE Clean'
    BY <1>5, <2>3, CleanBegin
  <2>4. ASSUME NEW t \in Threads, Work(t) PROVE Clean'
    BY <1>5, <2>4, CleanStart, CleanCancel, CleanPoll
  <2> QED BY <1>5, <2>1, <2>2, <2>3, <2>4 DEF Next
<1>6. Based /\ Even /\ RemovalsApart /\ Tidy(Entries, req, Known) /\ Clean => Overlapped
  BY DEF Overlapped
<1>7. Clean => NoOrphan
  BY DEF Clean, NoOrphan, Active, Held, Known, Owes, Handling
<1> QED BY <1>1, <1>2, <1>3, <1>4, <1>5, <1>6, <1>7, BasedInvariant, PTL DEF ApartSpec

-----------------------------------------------------------------------------
(* No job that Lidarr was told has completed is purged.                      *)

\* No two grabs name a file in common.
Disjoint == \A j, k \in Jobs : j # k => FilesOf(j) \cap FilesOf(k) = {}

Arrived(transfers, j) == \A f \in FilesOf(j) : transfers[f].state = "succeeded"

\* A request that will find job j completed or nothing else of it, and neither
\* purges nor cancels it.
Respects(r, j) ==
  /\ r.op = "poll" /\ j \in r.todo => JobUser[j] \in r.users \/ Arrived(r.snap, j)
  /\ r.pc \in {"retry", "stall"} => r.job # j
  /\ r.pc = "conclude" /\ r.job = j => r.verdict = "completed"
  /\ r.op = "poll" => j \notin r.purge
  /\ r.pc = "cancel" => \A c \in r.cancels : c[1] \notin FilesOf(j)

\* All of job j is there and nothing is under way to change that.
Safe(j) ==
  /\ j \in Settled /\ Arrived(slskd, j) /\ FilesOf(j) \cap late = {}
  /\ \A t \in Threads : Respects(req[t], j)

Assured == \A j \in assured : Safe(j)

\* A free thread threatens no job.
LEMMA IdleRespects == \A j : Respects(Idle, j)
BY IdleSound DEF Respects

\* A batch of one job leaves the other jobs' transfers alone.
LEMMA OwnFiles ==
  ASSUME Disjoint, NEW k \in Jobs, NEW batch \in SUBSET FilesOf(k), slskd' = Enqueued(batch)
  PROVE  \A j \in Jobs : j # k => \A f \in FilesOf(j) : slskd'[f] = slskd[f]
BY PayloadFacts DEF Disjoint, Enqueued

\* What is taken of a batch of one job, and what may be taken later, are no other
\* job's.
LEMMA PostApart ==
  ASSUME Disjoint, NEW k \in Jobs, NEW batch \in SUBSET FilesOf(k), Posts(batch) \/ PostRaises(batch)
  PROVE  \A j \in Jobs : j # k => /\ \A f \in FilesOf(j) : slskd'[f] = slskd[f]
                                  /\ FilesOf(j) \cap late = {} => FilesOf(j) \cap late' = {}
<1>1. late' \subseteq late \cup batch /\ \E taken \in SUBSET batch : slskd' = Enqueued(taken)
  BY DEF Posts, PostRaises
<1>2. \E taken \in SUBSET FilesOf(k) : slskd' = Enqueued(taken)
  BY <1>1
<1> QED BY <1>1, <1>2, OwnFiles DEF Disjoint

\* A grab posts for its own job, which is not settled; a retry for the job the
\* poll judges.
LEMMA PostOfOther ==
  ASSUME Based, NEW j \in Settled, NEW t \in Threads, Respects(req[t], j), StartEnqueue(t) \/ RetryEnqueue(t)
  PROVE  \E k \in Jobs \ {j} : \E batch \in SUBSET FilesOf(k) : Posts(batch) \/ PostRaises(batch)
<1>a. req[t] \in Requests /\ Controlled(req[t]) /\ Consistent(req[t]) /\ Sound(req[t])
  BY BasedFacts
<1>1. CASE StartEnqueue(t)
  <2>1. PICK i \in NextDisc(t) : Posts(DiscsOf[req[t].job][i]) \/ PostRaises(DiscsOf[req[t].job][i])
    BY <1>1 DEF StartEnqueue
  <2>2. req[t].pc = "enqueue"
    BY <1>1 DEF StartEnqueue
  <2>3. req[t].op = "start" /\ req[t].job \in Jobs /\ req[t].job \notin Settled
    BY <1>a, <2>2 DEF Consistent, Controlled, Settled, Opening
  <2>4. DiscsOf[req[t].job][i] \subseteq FilesOf(req[t].job)
    BY <1>a, <2>2 DEF Controlled, NextDisc, FilesOf
  <2> QED BY <2>1, <2>3, <2>4
<1>2. CASE RetryEnqueue(t)
  <2>1. PICK i \in NextDisc(t) : \/ Posts(RetryFiles(req[t].snap, req[t].job, i))
                                 \/ PostRaises(RetryFiles(req[t].snap, req[t].job, i))
    BY <1>2 DEF RetryEnqueue
  <2>2. req[t].pc = "retry"
    BY <1>2 DEF RetryEnqueue
  <2>3. req[t].job \in Jobs \ {j}
    BY <1>a, <2>2 DEF Controlled, Respects
  <2>4. RetryFiles(req[t].snap, req[t].job, i) \subseteq FilesOf(req[t].job)
    BY DEF RetryFiles, InState
  <2> QED BY <2>1, <2>3, <2>4
<1> QED BY <1>1, <1>2

\* What has arrived stays.
LEMMA ArrivedStays ==
  ASSUME Disjoint, Based, [Next]_vars, NEW j \in Jobs, Safe(j)
  PROVE  Arrived(slskd', j) /\ FilesOf(j) \cap late' = {}
<1> DEFINE stays == Arrived(slskd', j) /\ FilesOf(j) \cap late' = {}
<1>a. slskd \in [Files -> Transfer] /\ FilesOf(j) \subseteq Files
  BY PayloadFacts DEF Based, TypeInv, TypeOK
<1>b. Arrived(slskd, j) /\ FilesOf(j) \cap late = {} /\ j \in Settled /\ \A t \in Threads : Respects(req[t], j)
  BY DEF Safe
<1>1. CASE UNCHANGED <<slskd, late>>
  BY <1>b, <1>1
<1>2. ASSUME NEW f \in Files, PeerSends(f) \/ TransferSucceeds(f) \/ TransferFails(f) PROVE stays
  <2>1. slskd[f].state = "active" /\ late' = late /\ \A g \in Files \ {f} : slskd'[g] = slskd[g]
    BY <1>a, <1>2 DEF PeerSends, TransferSucceeds, TransferFails, world
  <2> QED BY <1>a, <1>b, <2>1 DEF Arrived
<1>3. ASSUME NEW f \in Files, LateEnqueue(f) PROVE stays
  <2>1. f \notin FilesOf(j) /\ late' \subseteq late /\ slskd' = Enqueued({f})
    BY <1>b, <1>3 DEF LateEnqueue
  <2>2. \A g \in FilesOf(j) : slskd'[g] = slskd[g]
    BY <1>a, <2>1, EnqueuedActive
  <2> QED BY <1>b, <2>1, <2>2 DEF Arrived
<1>4. ASSUME NEW t \in Threads, StartEnqueue(t) \/ RetryEnqueue(t) PROVE stays
  <2>1. PICK k \in Jobs \ {j} : \E batch \in SUBSET FilesOf(k) : Posts(batch) \/ PostRaises(batch)
    BY <1>b, <1>4, PostOfOther
  <2> QED BY <1>b, <2>1, PostApart DEF Arrived
<1>5. ASSUME NEW t \in Threads, CancelOne(t) PROVE stays
  <2>1. PICK c \in req[t].cancels :
          /\ req[t].pc = "cancel" /\ late' = late
          /\ slskd' = slskd \/ slskd' = [slskd EXCEPT ![c[1]] = [NoTransfer EXCEPT !.id = c[2]]]
    BY <1>5 DEF CancelOne, world
  <2>2. c[1] \notin FilesOf(j)
    BY <1>b, <2>1 DEF Respects
  <2> QED BY <1>a, <1>b, <2>1, <2>2 DEF Arrived
<1>6. CASE Environment
  BY <1>1, <1>2, <1>3, <1>6 DEF Environment, ReleaseWrite, ReleaseWriteFails, Tick, Restart, world
<1>7. ASSUME NEW t \in Threads, Begin(t) PROVE stays
  BY <1>1, <1>7 DEF Begin, PollBegin, StartBegin, RemoveBegin, world
<1>8. ASSUME NEW t \in Threads, Work(t), ~StartEnqueue(t), ~RetryEnqueue(t), ~CancelOne(t) PROVE stays
  BY <1>1, <1>8 DEF Work, StartAdd, StartRaise, CancelLocate, PollRows, PollList, Visit, VisitCompleted,
     VisitFailed, VisitRunning, StallCheck, Conclude, PollLoopEnds, DropJob, ForgetJob, QueueAnswers,
     HistoryAnswers, Answers, RemoveReturns, world
<1>9. CASE UNCHANGED vars
  BY <1>1, <1>9 DEF vars, world
<1> QED BY <1>4, <1>5, <1>6, <1>7, <1>8, <1>9 DEF Next

\* A request that begins threatens no job.
LEMMA RespectsBegin ==
  ASSUME Based, NEW t \in Threads, NEW j \in Jobs, Begin(t)
  PROVE  Respects(req'[t], j)
<1>1. CASE PollBegin(t)
  <2> DEFINE r == [Idle EXCEPT !.op = "poll", !.pc = "rows", !.now = clock]
  <2>1. Respects(r, j)
    BY DEF Respects, Idle
  <2> QED BY <1>1, <2>1, OthersStay DEF PollBegin
<1>2. ASSUME NEW k \in Jobs, StartBegin(t, k) PROVE Respects(req'[t], j)
  <2> DEFINE r == [Idle EXCEPT !.op = "start", !.pc = "enqueue", !.now = clock,
                               !.job = k, !.discs = DOMAIN DiscsOf[k]]
  <2>1. Respects(r, j)
    BY DEF Respects, Idle
  <2> QED BY <1>2, <2>1, OthersStay DEF StartBegin
<1>3. ASSUME NEW k \in Jobs, RemoveBegin(t, k) PROVE Respects(req'[t], j)
  <2> DEFINE r == [Idle EXCEPT !.op = "remove", !.pc = "locate", !.now = clock,
                               !.files = FilesOf(k), !.purge = {k}]
  <2>1. Respects(r, j)
    BY DEF Respects, Idle
  <2> QED BY <1>3, <2>1, OthersStay DEF RemoveBegin
<1> QED BY <1>1, <1>2, <1>3 DEF Begin

\* The next step of a request leaves a safe job safe from it.
LEMMA RespectsWork ==
  ASSUME Based, NEW j \in Jobs, Safe(j), NEW t \in Threads, Work(t)
  PROVE  Respects(req'[t], j)
<1>a. /\ req[t] \in Requests /\ Consistent(req[t]) /\ Sound(req[t]) /\ Controlled(req[t])
      /\ Respects(req[t], j) /\ Arrived(slskd, j)
  BY BasedFacts DEF Safe
<1>b. ASSUME NEW r, Become(t, r), Respects(r, j) PROVE Respects(req'[t], j)
  BY <1>b, OthersStay
<1>c. ASSUME Leave(t) PROVE Respects(req'[t], j)
  BY <1>b, <1>c, IdleRespects DEF Leave
\* A grab or a removal that cancels nothing of the job.
<1>d. ASSUME NEW r, Become(t, r), r.op # "poll", r.pc = "cancel" => \A c \in r.cancels : c[1] \notin FilesOf(j)
      PROVE  Respects(req'[t], j)
  <2>1. Sound(req'[t])
    BY SoundWork
  <2>2. req'[t] = r
    BY <1>d, OthersStay
  <2> QED BY <1>d, <2>1, <2>2 DEF Respects, Sound
\* A poll that goes on with the listing it has.
<1>e. ASSUME NEW r, Become(t, r), r.op = "poll", r.todo \subseteq req[t].todo, r.users = req[t].users, r.snap = req[t].snap,
             r.purge \subseteq req[t].purge, r.pc # "cancel", r.pc \in {"retry", "stall"} => r.job # j,
             r.pc = "conclude" /\ r.job = j => r.verdict = "completed", req[t].op = "poll"
      PROVE  Respects(req'[t], j)
  <2>1. Respects(r, j)
    BY <1>a, <1>e DEF Respects
  <2> QED BY <1>b, <1>e, <2>1
<1>1. CASE StartEnqueue(t)
  <2>1. PICK i :
          \/ Become(t, [req[t] EXCEPT !.discs = req[t].discs \ {i}, !.files = @ \cup DiscsOf[req[t].job][i],
                             !.pc = IF req[t].discs \ {i} = {} THEN "add" ELSE "enqueue"])
          \/ Become(t, [req[t] EXCEPT !.files = Attempted(@, DiscsOf[req[t].job][i]), !.pc = "locate"])
    BY <1>1 DEF StartEnqueue
  <2> DEFINE batch == DiscsOf[req[t].job][i]
             r == [req[t] EXCEPT !.discs = req[t].discs \ {i}, !.files = @ \cup batch,
                                 !.pc = IF req[t].discs \ {i} = {} THEN "add" ELSE "enqueue"]
             q == [req[t] EXCEPT !.files = Attempted(@, batch), !.pc = "locate"]
  <2>2. req[t].op = "start"
    BY <1>1, <1>a DEF Consistent, StartEnqueue
  <2>3. Become(t, r) \/ Become(t, q)
    BY <2>1
  <2> HIDE DEF batch
  <2>4. r.op = "start" /\ r.pc # "cancel" /\ q.op = "start" /\ q.pc # "cancel"
    BY <1>a, <2>2 DEF Requests
  <2> HIDE DEF r, q
  <2> QED BY <1>d, <2>3, <2>4
<1>2. CASE StartAdd(t) \/ StartRaise(t) \/ QueueAnswers(t) \/ HistoryAnswers(t) \/ RemoveReturns(t)
  BY <1>2, <1>c DEF StartAdd, StartRaise, QueueAnswers, HistoryAnswers, Answers, RemoveReturns
<1>3. CASE CancelLocate(t)
  <2> DEFINE found == Running(req[t].files)
             r == [req[t] EXCEPT !.cancels = found,
                                 !.pc = IF found = {} THEN AfterCancel(t) ELSE "cancel"]
             q == [req[t] EXCEPT !.pc = AfterCancel(t)]
  <2>1. (Become(t, r) \/ Become(t, q)) /\ req[t].op # "poll"
    BY <1>3, <1>a DEF CancelLocate, Consistent
  <2>2. \A c \in found : c[1] \notin FilesOf(j)
    BY <1>a DEF Running, Arrived
  <2>3. /\ r.op = req[t].op /\ r.cancels = found
        /\ q.op = req[t].op /\ q.pc \in {"raise", "drop"}
    BY <1>a DEF Requests, AfterCancel
  <2> HIDE DEF r, q, found
  <2> QED BY <1>d, <2>1, <2>2, <2>3
<1>4. CASE CancelOne(t)
  <2>1. PICK c :
          Become(t, [req[t] EXCEPT !.cancels = req[t].cancels \ {c},
                             !.pc = IF req[t].cancels \ {c} = {} THEN AfterCancel(t) ELSE "cancel"])
    BY <1>4 DEF CancelOne
  <2> DEFINE rest == req[t].cancels \ {c}
             r == [req[t] EXCEPT !.cancels = rest, !.pc = IF rest = {} THEN AfterCancel(t) ELSE "cancel"]
  <2>2. Become(t, r) /\ req[t].op # "poll" /\ \A d \in req[t].cancels : d[1] \notin FilesOf(j)
    BY <1>4, <1>a, <2>1 DEF CancelOne, Consistent, Respects
  <2>3. r.op = req[t].op /\ r.cancels \subseteq req[t].cancels
    BY <1>a DEF Requests
  <2> HIDE DEF r
  <2> QED BY <1>d, <2>2, <2>3
<1>5. CASE PollRows(t)
  <2> DEFINE peers == {JobUser[k] : k \in jobs}
             r == [req[t] EXCEPT !.todo = jobs, !.users = peers,
                                 !.pc = IF peers = {} THEN "visit" ELSE "list"]
  <2>1. (Leave(t) \/ Become(t, r)) /\ req[t].op = "poll"
    BY <1>5, <1>a DEF PollRows, Sound
  <2>2. j \in jobs => JobUser[j] \in peers
    OBVIOUS
  <2> HIDE DEF peers
  <2>3. r.todo = jobs /\ r.users = peers /\ r.pc \in {"visit", "list"} /\ r.purge = req[t].purge
    BY <1>a DEF Requests
  <2> HIDE DEF r
  <2>4. Respects(r, j)
    BY <1>a, <2>1, <2>2, <2>3 DEF Respects
  <2> QED BY <1>b, <1>c, <2>1, <2>4
<1>6. CASE PollList(t)
  <2>1. PICK u \in req[t].users :
          \/ Leave(t)
          \/ Become(t, [req[t] EXCEPT !.users = req[t].users \ {u},
                          !.snap = [f \in Files |-> IF FileUser[f] = u THEN slskd[f] ELSE @[f]],
                          !.pc = IF req[t].users \ {u} = {} THEN "visit" ELSE "list"])
    BY <1>6 DEF PollList
  <2> DEFINE snap == [f \in Files |-> IF FileUser[f] = u THEN slskd[f] ELSE req[t].snap[f]]
             r == [req[t] EXCEPT !.users = req[t].users \ {u}, !.snap = snap,
                                 !.pc = IF req[t].users \ {u} = {} THEN "visit" ELSE "list"]
  <2>2. (Leave(t) \/ Become(t, r)) /\ req[t].op = "poll"
    BY <1>6, <1>a, <2>1 DEF PollList, Sound
  <2>3. \A f \in FilesOf(j) : f \in Files /\ FileUser[f] = JobUser[j]
    BY PayloadFacts, PayloadAssumption
  <2>4. JobUser[j] = u \/ Arrived(req[t].snap, j) => Arrived(snap, j)
    BY <1>a, <2>3 DEF Arrived
  <2> HIDE DEF snap
  <2>5. /\ r.todo = req[t].todo /\ r.users = req[t].users \ {u} /\ r.snap = snap /\ r.op = req[t].op
        /\ r.pc \in {"visit", "list"} /\ r.purge = req[t].purge
    BY <1>a DEF Requests
  <2> HIDE DEF r
  <2>6. Respects(r, j)
    BY <1>a, <2>2, <2>4, <2>5 DEF Respects
  <2> QED BY <1>b, <1>c, <2>2, <2>6
<1>7. ASSUME NEW k \in Jobs, VisitCompleted(t, k) \/ VisitFailed(t, k) \/ VisitRunning(t, k)
      PROVE  Respects(req'[t], j)
  <2> DEFINE chosen == {i \in DOMAIN DiscsOf[k] : RetryFiles(req[t].snap, k, i) # {}}
             r1 == [req[t] EXCEPT !.todo = @ \ {k}, !.job = k, !.pc = "conclude", !.verdict = "completed"]
             r2 == [req[t] EXCEPT !.todo = @ \ {k}, !.job = k, !.pc = "retry", !.discs = chosen]
             r3 == [req[t] EXCEPT !.todo = @ \ {k}, !.job = k, !.pc = "conclude", !.verdict = "failed"]
             r4 == [req[t] EXCEPT !.todo = @ \ {k}, !.job = k, !.pc = "stall"]
             Goes(r) == /\ r.op = "poll" /\ r.todo \subseteq req[t].todo /\ r.users = req[t].users
                        /\ r.snap = req[t].snap /\ r.purge = req[t].purge /\ r.job = k
                        /\ r.pc \in {"retry", "stall", "conclude"}
  <2>1. /\ req[t].pc = "visit" /\ k \in req[t].todo /\ req[t].op = "poll"
        /\ \/ Leave(t) \/ Become(t, r1)
           \/ /\ Become(t, r2) \/ Become(t, r3) \/ Become(t, r4)
              /\ \E f \in FilesOf(k) : req[t].snap[f].state # "succeeded"
    BY <1>7, <1>a DEF VisitCompleted, VisitFailed, VisitRunning, Sound, InState
  <2> HIDE DEF chosen
  <2>2. Goes(r1) /\ Goes(r2) /\ Goes(r3) /\ Goes(r4) /\ r1.pc = "conclude" /\ r1.verdict = "completed"
    BY <1>a, <2>1 DEF Requests
  <2> HIDE DEF r1, r2, r3, r4
  <2>3. j \in req[t].todo => Arrived(req[t].snap, j)
    BY <1>a, <2>1 DEF Sound, Respects
  <2>4. CASE Become(t, r1)
    BY <1>e, <2>1, <2>2, <2>4
  <2>5. ASSUME NEW r, Become(t, r), Goes(r), k # j PROVE Respects(req'[t], j)
    BY <1>e, <2>1, <2>5
  <2> HIDE DEF Goes
  <2> QED BY <1>c, <2>1, <2>2, <2>3, <2>4, <2>5 DEF Arrived
<1>8. CASE RetryEnqueue(t)
  <2>1. PICK i : \/ Become(t, [req[t] EXCEPT !.discs = req[t].discs \ {i},
                                  !.pc = IF req[t].discs \ {i} = {} THEN "stall" ELSE "retry"])
                 \/ Become(t, [req[t] EXCEPT !.discs = {}, !.pc = "stall"])
    BY <1>8 DEF RetryEnqueue
  <2> DEFINE rest == req[t].discs \ {i}
             r == [req[t] EXCEPT !.discs = rest, !.pc = IF rest = {} THEN "stall" ELSE "retry"]
             q == [req[t] EXCEPT !.discs = {}, !.pc = "stall"]
             Goes(s) == /\ s.op = "poll" /\ s.todo = req[t].todo /\ s.users = req[t].users /\ s.snap = req[t].snap
                        /\ s.purge = req[t].purge /\ s.job # j /\ s.pc \in {"retry", "stall"}
  <2>2. (Become(t, r) \/ Become(t, q)) /\ req[t].op = "poll" /\ req[t].job # j
    BY <1>8, <1>a, <2>1 DEF RetryEnqueue, Sound, Respects
  <2> HIDE DEF rest
  <2>3. Goes(r) /\ Goes(q)
    BY <1>a, <2>2 DEF Requests
  <2> HIDE DEF r, q
  <2> QED BY <1>e, <2>2, <2>3
<1>9. CASE StallCheck(t)
  <2> DEFINE r == [req[t] EXCEPT !.pc = "conclude", !.verdict = "stalled"]
             q == [req[t] EXCEPT !.pc = "visit", !.views[req[t].job] = "downloading"]
             Goes(s) == /\ s.op = "poll" /\ s.todo = req[t].todo /\ s.users = req[t].users /\ s.snap = req[t].snap
                        /\ s.purge = req[t].purge /\ s.job # j /\ s.pc \in {"visit", "conclude"}
  <2>1. (Become(t, r) \/ Become(t, q)) /\ req[t].op = "poll" /\ req[t].job # j
    BY <1>9, <1>a DEF StallCheck, Sound, Respects
  <2>2. Goes(r) /\ Goes(q)
    BY <1>a, <2>1 DEF Requests
  <2> HIDE DEF r, q
  <2> QED BY <1>e, <2>1, <2>2
<1>10. CASE Conclude(t)
  <2> DEFINE r == [req[t] EXCEPT !.pc = "visit", !.purge = @ \cup {req[t].job}]
             q == [req[t] EXCEPT !.pc = "visit", !.views[req[t].job] = Reported(req[t].verdict)]
             Goes(s) == /\ s.op = "poll" /\ s.todo = req[t].todo /\ s.users = req[t].users /\ s.snap = req[t].snap
                        /\ s.pc = "visit"
  <2>1. /\ Become(t, q) \/ (req[t].verdict # "completed" /\ Become(t, r))
        /\ req[t].op = "poll" /\ req[t].pc = "conclude"
    BY <1>10, <1>a DEF Conclude, PurgeDue, Sound
  <2>2. Goes(r) /\ r.purge = req[t].purge \cup {req[t].job} /\ Goes(q) /\ q.purge = req[t].purge
    BY <1>a, <2>1 DEF Requests
  <2> HIDE DEF r, q
  <2>3. Respects(q, j)
    BY <1>a, <2>1, <2>2 DEF Respects
  <2>4. req[t].verdict # "completed" => Respects(r, j)
    BY <1>a, <2>1, <2>2 DEF Respects
  <2> QED BY <1>b, <2>1, <2>3, <2>4
<1>11. CASE PollLoopEnds(t)
  <2> DEFINE r == [req[t] EXCEPT !.pc = IF req[t].purge = {} THEN "return" ELSE "drop"]
  <2>1. Become(t, r) /\ req[t].op = "poll"
    BY <1>11, <1>a DEF PollLoopEnds, Sound
  <2>2. /\ r.op = "poll" /\ r.todo = req[t].todo /\ r.users = req[t].users /\ r.snap = req[t].snap
        /\ r.purge = req[t].purge /\ r.pc \in {"return", "drop"}
    BY <1>a, <2>1 DEF Requests
  <2> HIDE DEF r
  <2> QED BY <1>e, <2>1, <2>2
<1>12. CASE DropJob(t)
  <2>1. PICK k \in req[t].purge : Leave(t) \/ Become(t, [req[t] EXCEPT !.job = k, !.pc = "forget"])
    BY <1>12 DEF DropJob
  <2> DEFINE r == [req[t] EXCEPT !.job = k, !.pc = "forget"]
  <2>2. Leave(t) \/ Become(t, r)
    BY <2>1
  <2>3. /\ r.op = req[t].op /\ r.todo = req[t].todo /\ r.users = req[t].users /\ r.snap = req[t].snap
        /\ r.purge = req[t].purge /\ r.pc = "forget"
    BY <1>a DEF Requests
  <2> HIDE DEF r
  <2> QED BY <1>c, <1>d, <1>e, <2>2, <2>3
<1>13. CASE ForgetJob(t)
  <2> DEFINE rest == req[t].purge \ {req[t].job}
             r == [req[t] EXCEPT !.purge = rest, !.pc = IF rest = {} THEN "return" ELSE "drop"]
  <2>1. Become(t, r)
    BY <1>13 DEF ForgetJob
  <2>2. /\ r.op = req[t].op /\ r.todo = req[t].todo /\ r.users = req[t].users /\ r.snap = req[t].snap
        /\ r.purge \subseteq req[t].purge /\ r.pc \in {"return", "drop"}
    BY <1>a DEF Requests
  <2> HIDE DEF r
  <2> QED BY <1>d, <1>e, <2>1, <2>2
<1> QED
  BY <1>1, <1>2, <1>3, <1>4, <1>5, <1>6, <1>7, <1>8, <1>9, <1>10, <1>11, <1>12, <1>13 DEF Work, Visit

\* What is safe stays safe.
LEMMA SafeStep ==
  ASSUME Disjoint, Based, Based', [Next]_vars, NEW j \in Jobs, Safe(j)
  PROVE  Safe(j)'
<1>1. Arrived(slskd', j) /\ FilesOf(j) \cap late' = {}
  BY ArrivedStays
<1>2. j \in Settled'
  BY SettledStays DEF Safe
<1>3. ASSUME NEW t \in Threads, Begin(t) \/ Work(t) PROVE \A u \in Threads : Respects(req'[u], j)
  <2>1. \A u \in Threads : u # t => req'[u] = req[u]
    BY <1>3, StepBecomes, OthersStay
  <2> QED BY <1>3, <2>1, RespectsBegin, RespectsWork DEF Safe
<1>4. CASE Environment
  BY <1>1, <1>2, <1>4, RequestsOutside, IdleRespects DEF Safe
<1>5. CASE UNCHANGED vars
  BY <1>1, <1>2, <1>5 DEF vars, Safe
<1> QED BY <1>1, <1>2, <1>3, <1>4, <1>5 DEF Next, Safe

\* A job told completed when nothing was in doubt is safe.
LEMMA SafeAnswer ==
  ASSUME Disjoint, Based, Based', NEW t \in Threads, NEW listed, Answers(t, listed), NEW j \in Jobs, Certain(t, j)
  PROVE  Safe(j)'
<1>1. /\ j \in Settled /\ Arrived(slskd, j) /\ FilesOf(j) \cap late = {}
      /\ \A u \in Threads \ {t} : ~Judges(u, j) /\ j \notin req[u].purge
  BY DEF Certain, Arrived, InState, Based, LedgerInv, Served, Kept
<1>2. Leave(t) /\ slskd' = slskd /\ late' = late /\ Answers(t, listed)
  BY DEF Answers, world
<1>3. req'[t] = Idle /\ \A u \in Threads : u # t => req'[u] = req[u]
  BY <1>2, OthersStay DEF Leave
<1>4. ASSUME NEW u \in Threads, u # t PROVE Respects(req[u], j)
  <2>1. ~Judges(u, j) /\ j \notin req[u].purge /\ Sound(req[u]) /\ Consistent(req[u])
    BY <1>1, <1>4, BasedFacts
  <2>2. ASSUME req[u].pc = "cancel", NEW c \in req[u].cancels PROVE c[1] \notin FilesOf(j)
    <3>1. c[1] \in req[u].files /\ req[u].op \in {"start", "remove"}
      BY <2>1, <2>2 DEF Sound, Consistent
    <3>2. CASE req[u].op = "start"
      <4>1. req[u].files \subseteq FilesOf(req[u].job) /\ req[u].job \in grabbed /\ req[u].job \notin Settled
        BY <2>1, <3>2 DEF Sound, Consistent, Settled, Opening
      <4>2. req[u].job \in Jobs
        BY <4>1 DEF Based, TypeInv, TypeOK
      <4> QED BY <1>1, <3>1, <4>1, <4>2 DEF Disjoint
    <3>3. CASE req[u].op = "remove"
      <4>1. PICK k \in Jobs : req[u].purge = {k} /\ req[u].files = FilesOf(k)
        BY <2>1, <2>2, <3>3 DEF Sound
      <4> QED BY <2>1, <3>1, <4>1 DEF Disjoint
    <3> QED BY <3>1, <3>2, <3>3
  <2> QED BY <2>1, <2>2 DEF Judges, Respects, Sound
<1>5. \A u \in Threads : Respects(req'[u], j)
  BY <1>3, <1>4, IdleRespects
<1>6. j \in Settled'
  BY <1>1, <1>3, IdleSound DEF Settled, Opening, Answers
<1> QED BY <1>1, <1>2, <1>5, <1>6 DEF Safe, Arrived

\* Only an answer adds to the jobs told completed for certain.
LEMMA AssuredGrows ==
  ASSUME Based, [Next]_vars, NEW j \in assured', j \notin assured
  PROVE  \E t \in Threads : Certain(t, j) /\ j \in Jobs /\ \E listed : Answers(t, listed)
<1> DEFINE same == assured' = assured
<1>1. CASE Environment \/ UNCHANGED vars
  BY <1>1 DEF Environment, PeerSends, TransferSucceeds, TransferFails, LateEnqueue, ReleaseWrite,
     ReleaseWriteFails, Tick, Restart, vars, heard
<1>2. ASSUME NEW t \in Threads, Begin(t) PROVE same
  BY <1>2 DEF Begin, PollBegin, StartBegin, RemoveBegin, heard
<1>3. ASSUME NEW t \in Threads, Work(t), ~QueueAnswers(t), ~HistoryAnswers(t) PROVE same
  BY <1>3 DEF Work, StartEnqueue, StartAdd, StartRaise, CancelLocate, CancelOne, PollRows, PollList, Visit,
     VisitCompleted, VisitFailed, VisitRunning, RetryEnqueue, StallCheck, Conclude, PollLoopEnds, DropJob, ForgetJob,
     RemoveReturns, heard
<1>4. ASSUME NEW t \in Threads, NEW listed, Answers(t, listed) PROVE Certain(t, j) /\ j \in Jobs
  BY <1>4 DEF Answers
<1> QED BY <1>1, <1>2, <1>3, <1>4 DEF Next, QueueAnswers, HistoryAnswers

\* A job Lidarr was told has completed, when it had and no other request was
\* judging it or taking it out, is never auto-purged (download_service.py:263-264),
\* however polls, grabs and removals overlap, whatever fails, and through
\* restarts.  No two grabs share a file: cancelling one of two that do takes a
\* file from the other.
THEOREM CompletedStays == ASSUME Disjoint PROVE Spec => []CompletedNotPurged
<1>1. Init => Assured
  BY DEF Init, Assured
<1>2. ASSUME Based, Based', Assured, [Next]_vars PROVE Assured'
  <2> SUFFICES ASSUME NEW j \in assured' PROVE Safe(j)'
    BY DEF Assured
  <2>1. CASE j \in assured
    <3>1. j \in Jobs
      BY <1>2, <2>1 DEF Based, TypeInv, TypeOK
    <3> QED BY <1>2, <2>1, <3>1, SafeStep DEF Assured
  <2>2. CASE j \notin assured
    BY <1>2, <2>2, AssuredGrows, SafeAnswer
  <2> QED BY <2>1, <2>2
<1>3. Assured => CompletedNotPurged
  BY DEF Assured, Safe, Respects, CompletedNotPurged, Purging
<1> QED BY <1>1, <1>2, <1>3, BasedInvariant, PTL DEF Spec

-----------------------------------------------------------------------------
(* The stall detector.                                                       *)

\* No lost batch is taken later, and the table takes every row: a removal that
\* fails after its cancellations leaves a job with fewer bytes than it had, and a
\* lost retry that slskd takes after a restart makes a job begin afresh.
Dependable == FaultKinds \cap {"late", "store"} = {}

\* slskd owes no batch.
Prompt == late = {}

\* A later listing of a job whose transfers nobody enqueued or cancelled since.
Grown(x, y, j) ==
  \A f \in FilesOf(j) : /\ x[f].bytes <= y[f].bytes /\ x[f].moved <= y[f].moved
                        /\ x[f].bytes = y[f].bytes => x[f].moved = y[f].moved

\* What a watermark says of the transfers: no byte came unseen since.
Marked(x, j, m) ==
  /\ m.bytes <= Transferred(x, j)
  /\ m.bytes = Transferred(x, j) => \A f \in FilesOf(j) : x[f].moved <= m.at + MaxBusy

\* What it says of a listing a poll is yet to compare with it, which may be the
\* older of the two.
Dated(x, j, m) == Transferred(x, j) <= m.bytes => \A f \in FilesOf(j) : x[f].moved <= m.at + MaxBusy

\* A watermark of transfers that are as the grab enqueued them.
Watched(j) == j \in DOMAIN progress /\ rounds[j] = 0 /\ ~Removing(j)

\* Jobs whose transfers the poll has listed and not yet judged.
Listed(r, j) ==
  r.op = "poll" /\ \/ j \in r.todo /\ JobUser[j] \notin r.users
                   \/ r.pc = "stall" /\ j = r.job

\* No listing is ahead of slskd, nor much later than its poll's instant.
Observed(r) ==
  \A j \in Jobs : Listed(r, j) /\ rounds[j] = 0 =>
    /\ Grown(r.snap, slskd, j)
    /\ \A f \in FilesOf(j) : r.snap[f].moved <= r.now + MaxBusy
    /\ j \in DOMAIN progress => Dated(r.snap, j, progress[j])

Judged(r) ==
  r.pc = "conclude" /\ r.verdict = "stalled" /\ rounds[r.job] = 0
    => \A f \in FilesOf(r.job) : r.snap[f].moved <= r.now - StallTimeout + MaxBusy

Timed(r) == (r.pc # "idle" => clock <= r.now + MaxBusy) /\ (r.pc = "retry" => rounds[r.job] > 0)

\* Of two polls' listings of a job, one is the later.
Compared(r, s) ==
  \A j \in Jobs : Listed(r, j) /\ Listed(s, j) /\ rounds[j] = 0 => Grown(r.snap, s.snap, j) \/ Grown(s.snap, r.snap, j)

Metered ==
  /\ \A f \in Files : slskd[f].moved <= clock
  /\ \A t \in Threads : Observed(req[t]) /\ Judged(req[t]) /\ Timed(req[t])
  /\ \A t, u \in Threads : t # u => Compared(req[t], req[u])
  /\ \A j \in Jobs : Watched(j) => Marked(slskd, j, progress[j])

\* The invariants a step may rely on.
Steered == Based /\ Based' /\ Prompt /\ RemovalsApart /\ Tidy(Entries, req, Settled) /\ Metered

\* No step makes slskd owe one.
LEMMA PromptStep ==
  ASSUME Dependable, Prompt, [Next]_vars
  PROVE  Prompt'
<1>1. CASE Environment \/ UNCHANGED vars
  BY <1>1 DEF Environment, PeerSends, TransferSucceeds, TransferFails, LateEnqueue, ReleaseWrite,
     ReleaseWriteFails, Tick, Restart, vars, world, Prompt
<1>2. ASSUME NEW t \in Threads, Begin(t) PROVE Prompt'
  BY <1>2 DEF Begin, PollBegin, StartBegin, RemoveBegin, world, Prompt
<1>3. ASSUME NEW t \in Threads, StartEnqueue(t) \/ RetryEnqueue(t) PROVE Prompt'
  BY <1>3 DEF StartEnqueue, RetryEnqueue, Posts, PostRaises, Fault, Dependable, Prompt
<1>4. ASSUME NEW t \in Threads, Work(t), ~StartEnqueue(t), ~RetryEnqueue(t) PROVE Prompt'
  BY <1>4 DEF Work, StartAdd, StartRaise, CancelLocate, CancelOne, PollRows, PollList, Visit, VisitCompleted,
     VisitFailed, VisitRunning, StallCheck, Conclude, PollLoopEnds, DropJob, ForgetJob, QueueAnswers,
     HistoryAnswers, Answers, RemoveReturns, world, Prompt
<1> QED BY <1>1, <1>2, <1>3, <1>4 DEF Next

\* The count of a job's bytes grows with its transfers, and stays only if all stay.
LEMMA TransferredGrows ==
  ASSUME NEW j \in Jobs, NEW x \in [Files -> Transfer], NEW y \in [Files -> Transfer], Grown(x, y, j)
  PROVE  /\ Transferred(x, j) \in Nat /\ Transferred(y, j) \in Nat
         /\ Transferred(x, j) <= Transferred(y, j)
         /\ Transferred(x, j) = Transferred(y, j) => \A f \in FilesOf(j) : x[f].moved = y[f].moved
<1> DEFINE U == FilesOf(j) \X (1 .. FileSize)
           X == {p \in U : p[2] <= x[p[1]].bytes}
           Y == {p \in U : p[2] <= y[p[1]].bytes}
<1>1. IsFiniteSet(U)
  <2>1. IsFiniteSet(FilesOf(j))
    BY PayloadFacts, PayloadAssumption, FS_Subset
  <2>2. FileSize \in Nat
    BY SettingsAssumption
  <2>3. IsFiniteSet(1 .. FileSize)
    BY <2>2, FS_Interval
  <2> QED BY <2>1, <2>3, FS_Product
<1>2. \A f \in FilesOf(j) : x[f].bytes \in 0 .. FileSize /\ y[f].bytes \in 0 .. FileSize
  BY PayloadFacts DEF Transfer
<1>3. X \subseteq Y
  BY <1>2, SettingsAssumption DEF Grown
<1>4. ASSUME NEW f \in FilesOf(j), x[f].bytes # y[f].bytes PROVE X # Y
  <2>1. x[f].bytes < y[f].bytes /\ y[f].bytes \in 1 .. FileSize
    BY <1>2, <1>4, SettingsAssumption DEF Grown
  <2>2. <<f, y[f].bytes>> \in Y /\ <<f, y[f].bytes>> \notin X
    BY <1>2, <2>1
  <2> QED BY <2>2
<1> HIDE DEF U, X, Y
<1>5. IsFiniteSet(Y)
  <2>1. Y \subseteq U
    BY DEF Y
  <2> QED BY <1>1, <2>1, FS_Subset
<1>6. Cardinality(X) \in Nat /\ Cardinality(Y) \in Nat /\ Cardinality(X) <= Cardinality(Y)
      /\ (Cardinality(X) = Cardinality(Y) => X = Y)
  BY <1>3, <1>5, FS_Subset, FS_CardinalityType
<1>7. Transferred(x, j) = Cardinality(X) /\ Transferred(y, j) = Cardinality(Y)
  BY DEF Transferred, X, Y, U
<1> QED BY <1>4, <1>6, <1>7 DEF Grown

\* Only a job's own files say anything of it.
LEMMA SameListing ==
  ASSUME NEW j \in Jobs, NEW x, NEW y, \A f \in FilesOf(j) : x[f] = y[f]
  PROVE  /\ Transferred(x, j) = Transferred(y, j)
         /\ \A m : (Marked(x, j, m) <=> Marked(y, j, m)) /\ (Dated(x, j, m) <=> Dated(y, j, m))
         /\ \A z : (Grown(x, z, j) <=> Grown(y, z, j)) /\ (Grown(z, x, j) <=> Grown(z, y, j))
<1>1. Transferred(x, j) = Transferred(y, j)
  BY DEF Transferred
<1> QED BY <1>1 DEF Marked, Dated, Grown

\* A watermark still says of later transfers what it said of them.
LEMMA MarkedGrows ==
  ASSUME NEW j \in Jobs, NEW x \in [Files -> Transfer], NEW y \in [Files -> Transfer], Grown(x, y, j),
         NEW m \in Marks, Marked(x, j, m)
  PROVE  Marked(y, j, m)
BY TransferredGrows DEF Marked, Marks

\* A listing is as old as it was, and transfers only get ahead of it.
LEMMA GrownOn ==
  ASSUME NEW j \in Jobs, NEW x \in [Files -> Transfer], NEW y \in [Files -> Transfer], NEW z \in [Files -> Transfer],
         Grown(x, y, j), Grown(y, z, j)
  PROVE  Grown(x, z, j)
<1>1. \A f \in FilesOf(j) :
        /\ x[f].bytes \in Nat /\ y[f].bytes \in Nat /\ z[f].bytes \in Nat
        /\ x[f].moved \in Nat /\ y[f].moved \in Nat /\ z[f].moved \in Nat
  BY PayloadFacts, SettingsAssumption DEF Transfer
<1> QED BY <1>1 DEF Grown

\* A listing is no newer than itself.
LEMMA GrownSame ==
  ASSUME NEW j \in Jobs, NEW x \in [Files -> Transfer]
  PROVE  Grown(x, x, j)
<1>1. \A f \in FilesOf(j) : x[f].bytes \in Nat /\ x[f].moved \in Nat
  BY PayloadFacts, SettingsAssumption DEF Transfer
<1> QED BY <1>1 DEF Grown

\* The watermark a poll writes dates every listing that is older or newer than
\* the poll's own.
LEMMA DatedByListing ==
  ASSUME NEW j \in Jobs, NEW x \in [Files -> Transfer], NEW y \in [Files -> Transfer], NEW now \in Nat,
         Grown(x, y, j) \/ Grown(y, x, j), \A f \in FilesOf(j) : y[f].moved <= now + MaxBusy
  PROVE  Dated(x, j, [bytes |-> Transferred(y, j), at |-> now])
<1>1. \A f \in FilesOf(j) : x[f].moved \in Nat /\ y[f].moved \in Nat
  BY PayloadFacts DEF Transfer
<1>2. MaxBusy \in Nat
  BY SettingsAssumption
<1>3. CASE Grown(x, y, j)
  BY <1>1, <1>2, <1>3 DEF Grown, Dated
<1>4. CASE Grown(y, x, j)
  BY <1>1, <1>2, <1>4, TransferredGrows DEF Dated
<1> QED BY <1>3, <1>4

\* ... and the transfers themselves.
LEMMA MarkedByListing ==
  ASSUME NEW j \in Jobs, NEW x \in [Files -> Transfer], NEW y \in [Files -> Transfer], NEW now \in Nat,
         Grown(y, x, j), \A f \in FilesOf(j) : y[f].moved <= now + MaxBusy
  PROVE  Marked(x, j, [bytes |-> Transferred(y, j), at |-> now])
BY TransferredGrows DEF Marked

-----------------------------------------------------------------------------
(* What a step may do to a job whose watermark or listing still counts.      *)

Followed(j) == rounds[j] = 0 /\ (Watched(j) \/ \E u \in Threads : Listed(req[u], j))

\* A watermark stays, or is the one thread t takes from its own listing.
Remembers(t, j) ==
  \/ j \in DOMAIN progress /\ progress'[j] = progress[j]
  \/ Listed(req[t], j) /\ progress'[j] = [bytes |-> Transferred(req[t].snap, j), at |-> req[t].now]

\* The locals r hold the listing of j that thread t has, or one of this instant.
Keeps(t, r, j) ==
  Listed(req[t], j) /\ r.now = req[t].now /\ \A f \in FilesOf(j) : r.snap[f] = req[t].snap[f]
Looks(t, r, j) ==
  /\ Judges(t, j) /\ UNCHANGED <<slskd, progress, rounds>> /\ clock <= r.now + MaxBusy
  /\ \A f \in FilesOf(j) : r.snap[f] = slskd[f]

\* A listed job is one the poll is judging.
LEMMA ListedJudged == ASSUME NEW t \in Threads, NEW j, Listed(req[t], j) PROVE Judges(t, j)
BY DEF Listed, Judges

\* What the invariants say of a listing.
LEMMA SteeredFacts ==
  ASSUME Steered, NEW t \in Threads
  PROVE  /\ req[t] \in Requests /\ Controlled(req[t]) /\ Consistent(req[t]) /\ Sound(req[t])
         /\ Observed(req[t]) /\ Judged(req[t]) /\ Timed(req[t])
         /\ req[t].snap \in [Files -> Transfer] /\ req[t].now \in Nat /\ req[t].todo \subseteq Jobs
         /\ slskd \in [Files -> Transfer] /\ slskd' \in [Files -> Transfer]
         /\ clock \in Nat /\ MaxBusy \in Nat /\ rounds \in [Jobs -> Nat] /\ rounds' \in [Jobs -> Nat]
         /\ \A f \in Files : slskd[f].moved <= clock
<1>1. Based /\ Based' /\ Metered
  BY DEF Steered
<1> QED BY <1>1, BasedFacts, SettingsAssumption DEF Metered, Requests, Based, TypeInv, TypeOK

\* A step of thread t that leaves it the locals r, takes no followed job's
\* transfers elsewhere, and writes no watermark but from a listing of its own.
LEMMA MeteredStep ==
  ASSUME Steered, NEW t \in Threads, NEW r, Become(t, r), clock' = clock, \A f \in Files : slskd'[f].moved <= clock,
         \A j \in Jobs : rounds'[j] = 0 => rounds[j] = 0,
         \A j \in Jobs : Followed(j) => \A f \in FilesOf(j) : slskd'[f] = slskd[f],
         \A j \in Jobs : Removing(j) /\ j \in DOMAIN progress' => Removing(j)',
         \A j \in Jobs : j \in DOMAIN progress' /\ rounds'[j] = 0 => Remembers(t, j),
         \A j \in Jobs : Listed(r, j) /\ rounds'[j] = 0 => Keeps(t, r, j) \/ Looks(t, r, j),
         r.pc = "conclude" /\ r.verdict = "stalled" /\ rounds'[r.job] = 0
           => \A f \in FilesOf(r.job) : r.snap[f].moved <= r.now - StallTimeout + MaxBusy,
         r.pc # "idle" => clock <= r.now + MaxBusy,
         r.pc = "retry" => rounds'[r.job] > 0,
         RemovalsApart
  PROVE  Metered'
<1>a. req'[t] = r /\ (\A u \in Threads : u # t => req'[u] = req[u]) /\ r \in Requests /\ r.snap \in [Files -> Transfer]
  <2>1. Based /\ Based'
    BY DEF Steered
  <2>2. req'[t] = r /\ \A u \in Threads : u # t => req'[u] = req[u]
    BY <2>1, OthersStay
  <2>3. req'[t] \in Requests
    BY <2>1 DEF Based, TypeInv, TypeOK
  <2> QED BY <2>2, <2>3 DEF Requests
<1>b. /\ slskd \in [Files -> Transfer] /\ slskd' \in [Files -> Transfer]
      /\ clock \in Nat /\ MaxBusy \in Nat /\ rounds \in [Jobs -> Nat] /\ rounds' \in [Jobs -> Nat]
      /\ \A f \in Files : slskd[f].moved <= clock
  BY SteeredFacts
\* What a listing that stays says.
<1>c. ASSUME NEW u \in Threads, NEW j \in Jobs, Listed(req[u], j), rounds'[j] = 0
      PROVE  /\ Grown(req[u].snap, slskd', j)
             /\ \A f \in FilesOf(j) : req[u].snap[f].moved <= req[u].now + MaxBusy
             /\ j \in DOMAIN progress' => Dated(req[u].snap, j, progress'[j])
  <2>1. rounds[j] = 0 /\ Followed(j)
    BY <1>c DEF Followed
  <2>2. /\ Grown(req[u].snap, slskd, j)
        /\ \A f \in FilesOf(j) : req[u].snap[f].moved <= req[u].now + MaxBusy
        /\ j \in DOMAIN progress => Dated(req[u].snap, j, progress[j])
    BY <1>c, <2>1, SteeredFacts DEF Observed
  <2>3. Grown(req[u].snap, slskd', j)
    BY <2>1, <2>2, SameListing
  <2>4. ASSUME Listed(req[t], j)
        PROVE  Dated(req[u].snap, j, [bytes |-> Transferred(req[t].snap, j), at |-> req[t].now])
    <3>1. /\ req[u].snap \in [Files -> Transfer] /\ req[t].snap \in [Files -> Transfer] /\ req[t].now \in Nat
          /\ \A f \in FilesOf(j) : req[t].snap[f].moved <= req[t].now + MaxBusy
      BY <2>1, <2>4, SteeredFacts DEF Observed
    <3>2. Grown(req[u].snap, req[t].snap, j) \/ Grown(req[t].snap, req[u].snap, j)
      <4>1. CASE u = t
        BY <3>1, <4>1, GrownSame
      <4>2. CASE u # t
        BY <1>c, <2>1, <2>4, <4>2 DEF Steered, Metered, Compared
      <4> QED BY <4>1, <4>2
    <3> QED BY <3>1, <3>2, DatedByListing
  <2>5. j \in DOMAIN progress' => Remembers(t, j)
    BY <1>c
  <2> QED BY <2>2, <2>3, <2>4, <2>5 DEF Remembers
\* What a listing of this instant says.
<1>d. ASSUME NEW j \in Jobs, Looks(t, r, j), rounds'[j] = 0
      PROVE  /\ Grown(r.snap, slskd', j)
             /\ \A f \in FilesOf(j) : r.snap[f].moved <= r.now + MaxBusy
             /\ j \in DOMAIN progress' => Dated(r.snap, j, progress'[j])
             /\ \A u \in Threads : Listed(req[u], j) => Grown(req[u].snap, r.snap, j)
  <2>1. /\ Judges(t, j) /\ UNCHANGED <<slskd, progress, rounds>> /\ clock <= r.now + MaxBusy
        /\ \A f \in FilesOf(j) : r.snap[f] = slskd[f]
    BY <1>d DEF Looks
  <2>2. Grown(r.snap, slskd', j)
    <3>1. Grown(slskd, slskd, j)
      BY <1>b, GrownSame
    <3> QED BY <2>1, <3>1, SameListing
  <2>3. \A f \in FilesOf(j) : r.snap[f].moved <= r.now + MaxBusy
    <3>1. \A f \in FilesOf(j) : slskd[f].moved \in Nat /\ slskd[f].moved <= clock
      BY <1>b, PayloadFacts DEF Transfer
    <3>2. r.now \in Nat
      BY <1>a DEF Requests
    <3> QED BY <1>b, <2>1, <3>1, <3>2
  <2>4. ASSUME j \in DOMAIN progress PROVE Dated(r.snap, j, progress[j])
    <3>1. Watched(j)
      BY <1>d, <2>1, <2>4 DEF Watched, RemovalsApart
    <3>2. Marked(slskd, j, progress[j]) /\ progress[j] \in Marks
      BY <2>4, <3>1 DEF Steered, Metered, Based, TypeInv, TypeOK, IsDict
    <3>3. Dated(slskd, j, progress[j])
      BY <3>2, TransferredType DEF Marked, Dated, Marks
    <3> QED BY <2>1, <3>3, SameListing
  <2>5. \A u \in Threads : Listed(req[u], j) => Grown(req[u].snap, r.snap, j)
    <3> SUFFICES ASSUME NEW u \in Threads, Listed(req[u], j) PROVE Grown(req[u].snap, r.snap, j)
      OBVIOUS
    <3>1. Grown(req[u].snap, slskd, j)
      BY <1>d, <2>1, SteeredFacts DEF Observed
    <3> QED BY <2>1, <3>1, SameListing
  <2> QED BY <2>1, <2>2, <2>3, <2>4, <2>5
<1>1. ASSUME NEW u \in Threads PROVE Observed(req[u])'
  <2> SUFFICES ASSUME NEW j \in Jobs, Listed(req'[u], j), rounds'[j] = 0
               PROVE  /\ Grown(req'[u].snap, slskd', j)
                      /\ \A f \in FilesOf(j) : req'[u].snap[f].moved <= req'[u].now + MaxBusy
                      /\ j \in DOMAIN progress' => Dated(req'[u].snap, j, progress'[j])
    BY DEF Observed
  <2>1. CASE u # t
    BY <1>a, <1>c, <2>1
  <2>2. CASE u = t /\ Keeps(t, r, j)
    <3>1. /\ Grown(req[t].snap, slskd', j)
          /\ \A f \in FilesOf(j) : req[t].snap[f].moved <= req[t].now + MaxBusy
          /\ j \in DOMAIN progress' => Dated(req[t].snap, j, progress'[j])
      BY <1>c, <2>2 DEF Keeps
    <3>2. r.now = req[t].now /\ \A f \in FilesOf(j) : r.snap[f] = req[t].snap[f]
      BY <2>2 DEF Keeps
    <3> QED BY <1>a, <2>2, <3>1, <3>2, SameListing
  <2>3. CASE u = t /\ Looks(t, r, j)
    BY <1>a, <1>d, <2>3
  <2> QED BY <1>a, <2>1, <2>2, <2>3
<1>2. ASSUME NEW u \in Threads, NEW v \in Threads, u # v PROVE Compared(req[u], req[v])'
  <2> SUFFICES ASSUME NEW j \in Jobs, Listed(req'[u], j), Listed(req'[v], j), rounds'[j] = 0
               PROVE  Grown(req'[u].snap, req'[v].snap, j) \/ Grown(req'[v].snap, req'[u].snap, j)
    BY DEF Compared
  <2>0. rounds[j] = 0
    OBVIOUS
  <2>1. ASSUME NEW w \in Threads, w # t, Listed(req[w], j), Listed(r, j)
        PROVE  Grown(req[w].snap, r.snap, j) \/ Grown(r.snap, req[w].snap, j)
    <3>1. CASE Keeps(t, r, j)
      <4>1. Grown(req[w].snap, req[t].snap, j) \/ Grown(req[t].snap, req[w].snap, j)
        BY <2>0, <2>1, <3>1 DEF Steered, Metered, Compared, Keeps
      <4> QED BY <3>1, <4>1, SameListing DEF Keeps
    <3>2. CASE Looks(t, r, j)
      BY <1>d, <2>1, <3>2
    <3> QED BY <2>1, <3>1, <3>2
  <2>2. CASE u = t
    BY <1>a, <1>2, <2>1, <2>2
  <2>3. CASE v = t
    BY <1>a, <1>2, <2>1, <2>3
  <2>4. CASE u # t /\ v # t
    BY <1>a, <1>2, <2>0, <2>4 DEF Steered, Metered, Compared
  <2> QED BY <2>2, <2>3, <2>4
<1>3. ASSUME NEW u \in Threads PROVE Judged(req[u])' /\ Timed(req[u])'
  <2>1. CASE u = t
    BY <1>a, <2>1 DEF Judged, Timed
  <2>2. CASE u # t
    <3>1. Judged(req[u]) /\ Timed(req[u]) /\ req'[u] = req[u] /\ Controlled(req[u])
      BY <1>a, <2>2, SteeredFacts
    <3>2. req[u].pc \in {"conclude", "retry"} => req[u].job \in Jobs
      BY <3>1 DEF Controlled
    <3>3. \A j \in Jobs : rounds[j] > 0 => rounds'[j] > 0
      BY <1>b
    <3> QED BY <3>1, <3>2, <3>3 DEF Judged, Timed
  <2> QED BY <2>1, <2>2
<1>4. ASSUME NEW j \in Jobs, Watched(j)' PROVE Marked(slskd', j, progress'[j])
  <2>1. j \in DOMAIN progress' /\ rounds'[j] = 0 /\ rounds[j] = 0 /\ ~Removing(j) /\ Remembers(t, j)
    BY <1>4 DEF Watched
  <2>2. CASE j \in DOMAIN progress /\ progress'[j] = progress[j]
    <3>1. Watched(j) /\ Followed(j)
      BY <2>1, <2>2 DEF Watched, Followed
    <3>2. Marked(slskd, j, progress[j])
      BY <3>1 DEF Steered, Metered
    <3> QED BY <2>2, <3>1, <3>2, SameListing
  <2>3. CASE Listed(req[t], j) /\ progress'[j] = [bytes |-> Transferred(req[t].snap, j), at |-> req[t].now]
    <3>1. Grown(req[t].snap, slskd', j) /\ \A f \in FilesOf(j) : req[t].snap[f].moved <= req[t].now + MaxBusy
      BY <1>c, <2>1, <2>3
    <3>2. req[t].snap \in [Files -> Transfer] /\ req[t].now \in Nat
      BY SteeredFacts
    <3>3. Marked(slskd', j, [bytes |-> Transferred(req[t].snap, j), at |-> req[t].now])
      BY <1>b, <3>1, <3>2, MarkedByListing
    <3> QED BY <2>3, <3>3
  <2> QED BY <2>1, <2>2, <2>3 DEF Remembers
<1> QED BY <1>1, <1>2, <1>3, <1>4 DEF Metered

\* Grabs, retries and removals touch no job that is followed.
LEMMA FollowedStays ==
  ASSUME Disjoint, Steered, RemovalsApart, NEW t \in Threads, Work(t), NEW j \in Jobs, Followed(j)
  PROVE  \A f \in FilesOf(j) : slskd'[f] = slskd[f]
<1>a. /\ req[t] \in Requests /\ Controlled(req[t]) /\ Consistent(req[t]) /\ Sound(req[t]) /\ Timed(req[t])
      /\ slskd \in [Files -> Transfer]
  BY SteeredFacts
<1>b. j \in Settled /\ rounds[j] = 0 /\ ~Removing(j)
  <2>1. CASE Watched(j)
    BY <2>1, SettledEntries DEF Watched, Entries, Steered
  <2>2. ASSUME NEW u \in Threads, Listed(req[u], j) PROVE j \in Settled /\ ~Removing(j)
    <3>1. Consistent(req[u]) /\ Judges(u, j)
      BY <2>2, SteeredFacts, ListedJudged
    <3>2. j \in Settled
      BY <2>2, <3>1, SettingsAssumption DEF Listed, Consistent
    <3> QED BY <3>1, <3>2 DEF RemovalsApart
  <2> QED BY <2>1, <2>2 DEF Followed, Watched
<1>c. ASSUME req[t].op = "start" PROVE req[t].job # j /\ req[t].job \in Jobs
  BY <1>a, <1>b, <1>c DEF Consistent, Settled, Opening, Steered, Based, TypeInv, TypeOK
<1>1. CASE StartEnqueue(t)
  <2>1. PICK i \in NextDisc(t) : \E taken \in SUBSET DiscsOf[req[t].job][i] :
          req[t].pc = "enqueue" /\ slskd' = Enqueued(taken)
    BY <1>1 DEF StartEnqueue, Posts, PostRaises
  <2>2. req[t].op = "start"
    BY <1>a, <2>1 DEF Consistent
  <2>3. DiscsOf[req[t].job][i] \subseteq FilesOf(req[t].job)
    BY <1>a, <2>1 DEF Controlled, NextDisc, FilesOf
  <2> QED BY <1>c, <2>1, <2>2, <2>3, OwnFiles
<1>2. CASE RetryEnqueue(t)
  <2>1. PICK i \in NextDisc(t) : \E taken \in SUBSET RetryFiles(req[t].snap, req[t].job, i) : slskd' = Enqueued(taken)
    BY <1>2 DEF RetryEnqueue, Posts, PostRaises
  <2>2. req[t].job \in Jobs /\ req[t].job # j
    BY <1>2, <1>a, <1>b DEF RetryEnqueue, Controlled, Timed
  <2>3. RetryFiles(req[t].snap, req[t].job, i) \subseteq FilesOf(req[t].job)
    BY DEF RetryFiles, InState
  <2> QED BY <2>1, <2>2, <2>3, OwnFiles
<1>3. CASE CancelOne(t)
  <2>1. PICK c \in req[t].cancels :
          slskd' = slskd \/ slskd' = [slskd EXCEPT ![c[1]] = [NoTransfer EXCEPT !.id = c[2]]]
    BY <1>3 DEF CancelOne
  <2>2. c[1] \in req[t].files /\ req[t].op \in {"start", "remove"} /\ req[t].pc = "cancel"
    BY <1>3, <1>a, <2>1 DEF CancelOne, Sound, Consistent
  <2>3. c[1] \notin FilesOf(j)
    <3>1. CASE req[t].op = "start"
      BY <1>a, <1>c, <2>2, <3>1 DEF Sound, Disjoint
    <3>2. CASE req[t].op = "remove"
      <4>1. PICK k \in Jobs : req[t].purge = {k} /\ req[t].files = FilesOf(k)
        BY <1>a, <2>2, <3>2 DEF Sound
      <4>2. k # j
        BY <1>b, <3>2, <4>1 DEF Removing
      <4> QED BY <2>2, <4>1, <4>2 DEF Disjoint
    <3> QED BY <2>2, <3>1, <3>2
  <2> QED BY <1>a, <2>1, <2>3, PayloadFacts
<1>4. CASE ~StartEnqueue(t) /\ ~RetryEnqueue(t) /\ ~CancelOne(t)
  <2>1. slskd' = slskd
    BY <1>4 DEF Work, StartAdd, StartRaise, CancelLocate, PollRows, PollList, Visit, VisitCompleted, VisitFailed, VisitRunning,
         StallCheck, Conclude, PollLoopEnds, DropJob, ForgetJob, QueueAnswers, HistoryAnswers, Answers, RemoveReturns
  <2> QED BY <2>1
<1> QED BY <1>1, <1>2, <1>3, <1>4

\* A step of a request takes no time, moves no byte and takes back no retry.
LEMMA WorkAside ==
  ASSUME Steered, NEW t \in Threads, Work(t)
  PROVE  /\ clock' = clock /\ \A f \in Files : slskd'[f].moved <= clock
         /\ \A j \in Jobs : rounds'[j] = 0 => rounds[j] = 0
<1>a. /\ slskd \in [Files -> Transfer] /\ clock \in Nat /\ rounds \in [Jobs -> Nat]
      /\ \A f \in Files : slskd[f].moved <= clock
  BY SteeredFacts
<1>1. clock' = clock
  BY DEF Work, StartEnqueue, StartAdd, StartRaise, CancelLocate, CancelOne, PollRows, PollList, Visit, VisitCompleted,
       VisitFailed, VisitRunning, RetryEnqueue, StallCheck, Conclude, PollLoopEnds, DropJob, ForgetJob,
       QueueAnswers, HistoryAnswers, Answers, RemoveReturns, world
<1>2. \A f \in Files : slskd'[f].moved <= clock
  <2>1. CASE StartEnqueue(t) \/ RetryEnqueue(t)
    <3>1. PICK batch : slskd' = Enqueued(batch)
      BY <2>1 DEF StartEnqueue, RetryEnqueue, Posts, PostRaises
    <3> QED BY <1>a, <3>1 DEF Enqueued
  <2>2. CASE CancelOne(t)
    <3>1. PICK c : slskd' = slskd \/ slskd' = [slskd EXCEPT ![c[1]] = [NoTransfer EXCEPT !.id = c[2]]]
      BY <2>2 DEF CancelOne
    <3> QED BY <1>a, <3>1 DEF NoTransfer
  <2>3. CASE ~StartEnqueue(t) /\ ~RetryEnqueue(t) /\ ~CancelOne(t)
    <3>1. slskd' = slskd
      BY <2>3 DEF Work, StartAdd, StartRaise, CancelLocate, PollRows, PollList, Visit, VisitCompleted, VisitFailed, VisitRunning,
           StallCheck, Conclude, PollLoopEnds, DropJob, ForgetJob, QueueAnswers, HistoryAnswers, Answers, RemoveReturns
    <3> QED BY <1>a, <3>1
  <2> QED BY <2>1, <2>2, <2>3
<1>3. \A j \in Jobs : rounds'[j] = 0 => rounds[j] = 0
  <2>1. CASE Visit(t)
    <3>1. PICK k \in Jobs : rounds' = rounds \/ rounds' = [rounds EXCEPT ![k] = @ + 1]
      BY <2>1 DEF Visit, VisitCompleted, VisitFailed, VisitRunning, memory
    <3> QED BY <1>a, <3>1
  <2>2. CASE ~Visit(t)
    BY <2>2 DEF Work, StartEnqueue, StartAdd, StartRaise, CancelLocate, CancelOne, PollRows, PollList, RetryEnqueue,
         StallCheck, Conclude, PollLoopEnds, DropJob, ForgetJob, QueueAnswers, HistoryAnswers, Answers,
         RemoveReturns, memory
  <2> QED BY <2>1, <2>2
<1> QED BY <1>1, <1>2, <1>3

\* A step of a request already begun.
LEMMA MeteredWork ==
  ASSUME Disjoint, Dependable, Steered, RemovalsApart, NEW t \in Threads, Work(t), NEW r, Become(t, r),
         \A j \in Jobs : j \in DOMAIN progress' /\ rounds'[j] = 0 => Remembers(t, j),
         \A j \in Jobs : Listed(r, j) /\ rounds'[j] = 0 => Keeps(t, r, j) \/ Looks(t, r, j),
         r.pc = "conclude" /\ r.verdict = "stalled" /\ rounds'[r.job] = 0
           => \A f \in FilesOf(r.job) : r.snap[f].moved <= r.now - StallTimeout + MaxBusy,
         r.pc # "idle" => r.now = req[t].now /\ req[t].pc # "idle",
         r.pc = "retry" => rounds'[r.job] > 0
  PROVE  Metered'
<1>1. \A j \in Jobs : Followed(j) => \A f \in FilesOf(j) : slskd'[f] = slskd[f]
  BY FollowedStays
<1>2. \A j \in Jobs : Removing(j) /\ j \in DOMAIN progress' => Removing(j)'
  <2>1. ForgetJob(t) => req[t].job \notin DOMAIN progress'
    <3>1. ForgetJob(t) => progress' = Pop(progress, req[t].job)
      BY DEF ForgetJob, ForgetEntries
    <3> QED BY <3>1 DEF Pop
  <2>2. \A j : Removing(j) => Removing(j)' \/ (ForgetJob(t) /\ j = req[t].job)
    BY RemovingWork DEF Steered, Dependable
  <2> QED BY <2>1, <2>2
<1>3. r.pc # "idle" => clock <= r.now + MaxBusy
  BY SteeredFacts DEF Timed
<1> QED BY <1>1, <1>2, <1>3, WorkAside, MeteredStep

\* A step that takes no new listing and writes no watermark.
LEMMA OnwardStep ==
  ASSUME Disjoint, Dependable, Steered, RemovalsApart, NEW t \in Threads, Work(t), NEW r, Become(t, r),
         \A j \in DOMAIN progress' : j \in DOMAIN progress /\ progress'[j] = progress[j],
         rounds' = rounds,
         \A j \in Jobs : Listed(r, j) => Keeps(t, r, j),
         r.pc = "conclude" /\ r.verdict = "stalled" /\ rounds[r.job] = 0
           => \A f \in FilesOf(r.job) : r.snap[f].moved <= r.now - StallTimeout + MaxBusy,
         r.pc # "idle" => r.now = req[t].now /\ req[t].pc # "idle",
         r.pc = "retry" => req[t].pc = "retry" /\ r.job = req[t].job
  PROVE  Metered'
<1>1. \A j \in Jobs : j \in DOMAIN progress' /\ rounds'[j] = 0 => Remembers(t, j)
  BY DEF Remembers
<1>2. r.pc = "retry" => rounds'[r.job] > 0
  BY SteeredFacts DEF Timed
<1> QED BY <1>1, <1>2, MeteredWork

\* A grab and a removal, whatever they do.
LEMMA MeteredAloof ==
  ASSUME Disjoint, Dependable, Steered, RemovalsApart, NEW t \in Threads, Work(t), req[t].op # "poll"
  PROVE  Metered'
<1>1. PICK r : Become(t, r)
  BY StepBecomes
<1>2. r = req'[t] /\ Continues(t) /\ Sound(r)
  <2>1. Based /\ Based'
    BY DEF Steered
  <2>2. r = req'[t]
    BY <1>1, <2>1, OthersStay
  <2>3. Sound(req'[t])
    BY <2>1 DEF Based
  <2> QED BY <2>1, <2>2, <2>3, WorkContinues
<1>3. r.op # "poll" /\ (r.pc # "idle" => r.now = req[t].now /\ req[t].pc # "idle")
  BY <1>2, IdleSound, SteeredFacts DEF Continues, Sound
<1>4. r.pc \notin {"retry", "conclude"} /\ \A j : ~Listed(r, j)
  BY <1>2, <1>3 DEF Sound, Listed
<1>5. (\A j \in DOMAIN progress' : j \in DOMAIN progress /\ progress'[j] = progress[j]) /\ rounds' = rounds
  <2>1. CASE ForgetJob(t)
    BY <2>1 DEF ForgetJob, ForgetEntries, Pop
  <2>2. CASE ~ForgetJob(t)
    <3>1. ~Visit(t) /\ ~StallCheck(t)
      BY SteeredFacts DEF Visit, VisitCompleted, VisitFailed, VisitRunning, StallCheck, Sound
    <3> QED BY <2>2, <3>1 DEF Work, StartEnqueue, StartAdd, StartRaise, CancelLocate, CancelOne, PollRows, PollList,
         RetryEnqueue, Conclude, PollLoopEnds, DropJob, QueueAnswers, HistoryAnswers, Answers,
         RemoveReturns, memory
  <2> QED BY <2>1, <2>2
<1> QED BY <1>1, <1>3, <1>4, <1>5, OnwardStep

\* A request that begins has listed nothing.
LEMMA MeteredBegin ==
  ASSUME Steered, RemovalsApart, NEW t \in Threads, Begin(t)
  PROVE  Metered'
<1>a. Based /\ clock \in Nat /\ MaxBusy \in Nat /\ clock <= clock + MaxBusy /\ \A f \in Files : slskd[f].moved <= clock
  BY SteeredFacts DEF Steered
<1>b. ASSUME NEW r, Become(t, r), req[t].pc = "idle", UNCHANGED <<clock, slskd, progress, rounds>>,
             \A j \in Jobs : ~Listed(r, j), r.pc \notin {"conclude", "retry"}, r.now = clock
      PROVE  Metered'
  <2>1. \A j : Removing(j) => Removing(j)'
    BY <1>a, <1>b, RemovingBegin
  <2>2. \A j \in Jobs : j \in DOMAIN progress' => Remembers(t, j)
    BY <1>b DEF Remembers
  <2> QED BY <1>a, <1>b, <2>1, <2>2, MeteredStep
<1>1. CASE PollBegin(t)
  <2> DEFINE r == [Idle EXCEPT !.op = "poll", !.pc = "rows", !.now = clock]
  <2>1. r.pc = "rows" /\ r.todo = {} /\ r.now = clock
    BY DEF Idle
  <2>2. Become(t, r) /\ req[t].pc = "idle" /\ UNCHANGED <<clock, slskd, progress, rounds>>
    BY <1>1 DEF PollBegin, world, memory
  <2> HIDE DEF r
  <2> QED BY <1>b, <2>1, <2>2 DEF Listed
<1>2. ASSUME NEW j \in Jobs, StartBegin(t, j) PROVE Metered'
  <2> DEFINE r == [Idle EXCEPT !.op = "start", !.pc = "enqueue", !.now = clock,
                               !.job = j, !.discs = DOMAIN DiscsOf[j]]
  <2>1. r.op = "start" /\ r.pc = "enqueue" /\ r.now = clock
    BY DEF Idle
  <2>2. Become(t, r) /\ req[t].pc = "idle" /\ UNCHANGED <<clock, slskd, progress, rounds>>
    BY <1>2 DEF StartBegin, world, memory
  <2> HIDE DEF r
  <2> QED BY <1>b, <2>1, <2>2 DEF Listed
<1>3. ASSUME NEW j \in Jobs, RemoveBegin(t, j) PROVE Metered'
  <2> DEFINE r == [Idle EXCEPT !.op = "remove", !.pc = "locate", !.now = clock,
                               !.files = FilesOf(j), !.purge = {j}]
  <2>1. r.op = "remove" /\ r.pc = "locate" /\ r.now = clock
    BY DEF Idle
  <2>2. Become(t, r) /\ req[t].pc = "idle" /\ UNCHANGED <<clock, slskd, progress, rounds>>
    BY <1>3 DEF RemoveBegin, world, memory
  <2> HIDE DEF r
  <2> QED BY <1>b, <2>1, <2>2 DEF Listed
<1> QED BY <1>1, <1>2, <1>3 DEF Begin

\* A poll reads the rows, and has listed no peer yet.
LEMMA MeteredRows ==
  ASSUME Disjoint, Dependable, Steered, RemovalsApart, NEW t \in Threads, PollRows(t)
  PROVE  Metered'
<1>a. req[t] \in Requests /\ req[t].pc = "rows" /\ Work(t) /\ UNCHANGED <<progress, rounds>>
  BY SteeredFacts DEF PollRows, Work, memory
<1> DEFINE peers == {JobUser[j] : j \in jobs}
           r == [req[t] EXCEPT !.todo = jobs, !.users = peers,
                               !.pc = IF peers = {} THEN "visit" ELSE "list"]
<1>1. Leave(t) \/ Become(t, r)
  BY DEF PollRows
<1>2. \A j \in jobs : JobUser[j] \in peers
  OBVIOUS
<1> HIDE DEF peers
<1>3. r.pc \in {"visit", "list"} /\ r.todo = jobs /\ r.users = peers /\ r.now = req[t].now
  BY <1>a DEF Requests
<1> HIDE DEF r
<1>4. \A j \in Jobs : ~Listed(r, j) /\ ~Listed(Idle, j)
  BY <1>2, <1>3, IdleSound DEF Listed
<1> QED BY <1>a, <1>1, <1>3, <1>4, IdleSound, OnwardStep DEF Leave

\* A poll asks slskd for one peer's transfers.
LEMMA MeteredList ==
  ASSUME Disjoint, Dependable, Steered, RemovalsApart, NEW t \in Threads, PollList(t)
  PROVE  Metered'
<1>a. /\ req[t] \in Requests /\ Sound(req[t]) /\ Timed(req[t]) /\ req[t].todo \subseteq Jobs
  BY SteeredFacts
<1>b. /\ req[t].op = "poll" /\ req[t].pc = "list" /\ Work(t)
      /\ UNCHANGED <<clock, slskd, progress, rounds>>
  BY <1>a DEF PollList, Sound, Work, world, memory
<1>1. PICK u \in req[t].users :
        \/ Leave(t)
        \/ Become(t, [req[t] EXCEPT !.users = req[t].users \ {u},
                        !.snap = [f \in Files |-> IF FileUser[f] = u THEN slskd[f] ELSE @[f]],
                        !.pc = IF req[t].users \ {u} = {} THEN "visit" ELSE "list"])
  BY DEF PollList
<1> DEFINE r == [req[t] EXCEPT !.users = req[t].users \ {u},
                        !.snap = [f \in Files |-> IF FileUser[f] = u THEN slskd[f] ELSE @[f]],
                        !.pc = IF req[t].users \ {u} = {} THEN "visit" ELSE "list"]
<1>2. /\ r.op = "poll" /\ r.pc \in {"list", "visit"}
      /\ r.users = req[t].users \ {u} /\ r.todo = req[t].todo /\ r.now = req[t].now
      /\ \A f \in Files : r.snap[f] = IF FileUser[f] = u THEN slskd[f] ELSE req[t].snap[f]
  BY <1>a, <1>b DEF Requests
<1>3. Leave(t) \/ Become(t, r)
  BY <1>1
<1> HIDE DEF r
<1>4. CASE Leave(t)
  <2>1. Idle.pc = "idle" /\ \A j : ~Listed(Idle, j)
    BY IdleSound DEF Listed
  <2> QED BY <1>b, <1>4, <2>1, OnwardStep DEF Leave
<1>5. CASE Become(t, r)
  <2>1. clock <= r.now + MaxBusy
    BY <1>a, <1>b, <1>2 DEF Timed
  \* The job's files are its peer's, so they are all of this listing or none.
  <2>2. \A j \in Jobs, f \in Files : f \in FilesOf(j) => FileUser[f] = JobUser[j]
    BY PayloadAssumption
  <2>3. \A j \in Jobs : FilesOf(j) \subseteq Files
    BY PayloadFacts
  <2>4. \A j \in Jobs : j \in DOMAIN progress' => Remembers(t, j)
    BY <1>b DEF Remembers
  <2>5. ASSUME NEW j \in Jobs, Listed(r, j) PROVE Keeps(t, r, j) \/ Looks(t, r, j)
    <3>1. j \in req[t].todo /\ \A f \in FilesOf(j) : f \in Files /\ FileUser[f] = JobUser[j]
      BY <1>2, <2>2, <2>3, <2>5 DEF Listed
    <3>2. CASE JobUser[j] = u
      BY <1>b, <1>2, <2>1, <3>1, <3>2 DEF Looks, Judges
    <3>3. CASE JobUser[j] # u
      BY <1>b, <1>2, <2>5, <3>1, <3>3 DEF Listed, Keeps
    <3> QED BY <3>2, <3>3
  <2> QED BY <1>b, <1>2, <1>5, <2>4, <2>5, MeteredWork
<1> QED BY <1>3, <1>4, <1>5

\* A poll visits its jobs one by one, and judges each.
LEMMA MeteredVisit ==
  ASSUME Disjoint, Dependable, Steered, RemovalsApart, NEW t \in Threads,
         Visit(t) \/ RetryEnqueue(t) \/ Conclude(t) \/ PollLoopEnds(t)
  PROVE  Metered'
<1>a. req[t] \in Requests /\ Controlled(req[t]) /\ Sound(req[t]) /\ Timed(req[t]) /\ rounds \in [Jobs -> Nat]
  BY SteeredFacts
<1>b. req[t].op = "poll" /\ req[t].pc # "idle" /\ Work(t)
  BY <1>a DEF Visit, VisitCompleted, VisitFailed, VisitRunning, RetryEnqueue, Conclude, PollLoopEnds, Sound, Work
<1>c. ASSUME NEW r, Become(t, r), UNCHANGED <<progress, rounds>>, r.now = req[t].now,
             r.snap = req[t].snap, r.users = req[t].users, r.todo \subseteq req[t].todo,
             r.pc = "conclude" => r.verdict # "stalled",
             r.pc = "retry" => req[t].pc = "retry" /\ r.job = req[t].job,
             r.pc = "stall" => req[t].users = {} /\ (r.job \in req[t].todo \/ ~Listed(r, r.job) \/ rounds[r.job] > 0)
      PROVE  Metered'
  <2>1. \A j \in Jobs : Listed(r, j) /\ rounds'[j] = 0 => Keeps(t, r, j)
    BY <1>b, <1>c DEF Listed, Keeps
  <2>2. \A j \in Jobs : j \in DOMAIN progress' => Remembers(t, j)
    BY <1>c DEF Remembers
  <2>3. r.pc = "retry" => rounds'[r.job] > 0
    BY <1>a, <1>c DEF Timed
  <2> QED BY <1>b, <1>c, <2>1, <2>2, <2>3, MeteredWork
<1>d. ASSUME Leave(t), UNCHANGED <<progress, rounds>> PROVE Metered'
  <2>1. Idle.pc = "idle" /\ \A j : ~Listed(Idle, j)
    BY IdleSound DEF Listed
  <2> QED BY <1>b, <1>d, <2>1, OnwardStep DEF Leave
<1>1. ASSUME NEW j \in Jobs, VisitCompleted(t, j) PROVE Metered'
  <2> DEFINE r == [req[t] EXCEPT !.todo = @ \ {j}, !.job = j, !.pc = "conclude", !.verdict = "completed"]
  <2>1. /\ r.pc = "conclude" /\ r.verdict = "completed" /\ r.now = req[t].now
        /\ r.users = req[t].users /\ r.todo \subseteq req[t].todo /\ r.snap = req[t].snap
    BY <1>a DEF Requests
  <2>2. (Leave(t) \/ Become(t, r)) /\ UNCHANGED <<progress, rounds>>
    BY <1>1 DEF VisitCompleted
  <2> HIDE DEF r
  <2> QED BY <1>c, <1>d, <2>1, <2>2
<1>2. ASSUME NEW j \in Jobs, VisitFailed(t, j), ~HasBudget(Used(j)) PROVE Metered'
  <2> DEFINE r == [req[t] EXCEPT !.todo = @ \ {j}, !.job = j, !.pc = "conclude", !.verdict = "failed"]
  <2>1. /\ r.pc = "conclude" /\ r.verdict = "failed" /\ r.now = req[t].now
        /\ r.users = req[t].users /\ r.todo \subseteq req[t].todo /\ r.snap = req[t].snap
    BY <1>a DEF Requests
  <2>2. Become(t, r) /\ UNCHANGED <<progress, rounds>>
    BY <1>2 DEF VisitFailed
  <2> HIDE DEF r
  <2> QED BY <1>c, <2>1, <2>2
<1>3. ASSUME NEW j \in Jobs, VisitFailed(t, j), HasBudget(Used(j)) PROVE Metered'
  <2> DEFINE chosen == {i \in DOMAIN DiscsOf[j] : RetryFiles(req[t].snap, j, i) # {}}
             r == [req[t] EXCEPT !.todo = @ \ {j}, !.job = j, !.pc = "retry", !.discs = chosen]
  <2>1. /\ Become(t, r) /\ (\E m : progress' = Put(progress, j, m))
        /\ rounds' = [rounds EXCEPT ![j] = @ + 1]
    BY <1>3 DEF VisitFailed
  <2> HIDE DEF chosen
  <2>2. /\ r.op = "poll" /\ r.pc = "retry" /\ r.job = j /\ r.now = req[t].now
        /\ r.users = req[t].users /\ r.todo = req[t].todo \ {j} /\ r.snap = req[t].snap
    BY <1>a, <1>b DEF Requests
  <2> HIDE DEF r
  <2>3. rounds'[j] > 0
    BY <1>a, <2>1
  <2>4. \A i \in Jobs : i \in DOMAIN progress' /\ rounds'[i] = 0 => Remembers(t, i)
    <3>1. DOMAIN progress' = DOMAIN progress \cup {j} /\ \A i \in DOMAIN progress : i # j => progress'[i] = progress[i]
      BY <2>1 DEF Put
    <3> QED BY <2>3, <3>1 DEF Remembers
  <2>5. \A i \in Jobs : Listed(r, i) => Keeps(t, r, i)
    BY <1>b, <2>2 DEF Listed, Keeps
  <2> QED BY <1>b, <2>1, <2>2, <2>3, <2>4, <2>5, MeteredWork
<1>4. ASSUME NEW j \in Jobs, VisitRunning(t, j) PROVE Metered'
  <2> DEFINE r == [req[t] EXCEPT !.todo = @ \ {j}, !.job = j, !.pc = "stall"]
  <2>1. /\ r.pc = "stall" /\ r.job = j /\ r.now = req[t].now
        /\ r.users = req[t].users /\ r.todo \subseteq req[t].todo /\ r.snap = req[t].snap
    BY <1>a DEF Requests
  <2>2. Become(t, r) /\ UNCHANGED <<progress, rounds>> /\ j \in req[t].todo /\ req[t].users = {}
    BY <1>4, <1>a DEF VisitRunning, Sound, memory
  <2> HIDE DEF r
  <2> QED BY <1>c, <2>1, <2>2
<1>5. CASE RetryEnqueue(t)
  <2>1. PICK i : \/ Become(t, [req[t] EXCEPT !.discs = req[t].discs \ {i},
                                  !.pc = IF req[t].discs \ {i} = {} THEN "stall" ELSE "retry"])
                 \/ Become(t, [req[t] EXCEPT !.discs = {}, !.pc = "stall"])
    BY <1>5 DEF RetryEnqueue
  <2> DEFINE rest == req[t].discs \ {i}
             r == [req[t] EXCEPT !.discs = rest, !.pc = IF rest = {} THEN "stall" ELSE "retry"]
             q == [req[t] EXCEPT !.discs = {}, !.pc = "stall"]
  <2>2. Become(t, r) \/ Become(t, q)
    BY <2>1
  <2>3. /\ req[t].pc = "retry" /\ UNCHANGED <<progress, rounds>> /\ rounds[req[t].job] > 0 /\ req[t].users = {}
    BY <1>5, <1>a DEF RetryEnqueue, Timed, Sound, memory
  <2> HIDE DEF rest
  <2>4. /\ r.pc \in {"retry", "stall"} /\ r.job = req[t].job /\ r.now = req[t].now
        /\ r.users = req[t].users /\ r.todo = req[t].todo /\ r.snap = req[t].snap
        /\ q.pc = "stall" /\ q.job = req[t].job /\ q.now = req[t].now
        /\ q.users = req[t].users /\ q.todo = req[t].todo /\ q.snap = req[t].snap
    BY <1>a DEF Requests
  <2> HIDE DEF r, q
  <2> QED BY <1>c, <2>2, <2>3, <2>4
<1>6. CASE Conclude(t)
  <2> DEFINE r == [req[t] EXCEPT !.pc = "visit", !.purge = @ \cup {req[t].job}]
             q == [req[t] EXCEPT !.pc = "visit", !.views[req[t].job] = Reported(req[t].verdict)]
  <2>1. (Become(t, r) \/ Become(t, q)) /\ UNCHANGED <<progress, rounds>>
    BY <1>6 DEF Conclude
  <2>2. /\ r.pc = "visit" /\ r.now = req[t].now
        /\ r.users = req[t].users /\ r.todo = req[t].todo /\ r.snap = req[t].snap
        /\ q.pc = "visit" /\ q.now = req[t].now
        /\ q.users = req[t].users /\ q.todo = req[t].todo /\ q.snap = req[t].snap
    BY <1>a DEF Requests
  <2> HIDE DEF r, q
  <2> QED BY <1>c, <2>1, <2>2
<1>7. CASE PollLoopEnds(t)
  <2> DEFINE r == [req[t] EXCEPT !.pc = IF req[t].purge = {} THEN "return" ELSE "drop"]
  <2>1. /\ r.pc \in {"return", "drop"} /\ r.now = req[t].now
        /\ r.users = req[t].users /\ r.todo = req[t].todo /\ r.snap = req[t].snap
    BY <1>a DEF Requests
  <2>2. Become(t, r) /\ UNCHANGED <<progress, rounds>>
    BY <1>7 DEF PollLoopEnds, memory
  <2> HIDE DEF r
  <2> QED BY <1>c, <2>1, <2>2
<1> QED BY <1>1, <1>2, <1>3, <1>4, <1>5, <1>6, <1>7 DEF Visit

\* The stall detector compares the listing of a job with the watermark.
LEMMA MeteredCheck ==
  ASSUME Disjoint, Dependable, Steered, RemovalsApart, NEW t \in Threads, StallCheck(t)
  PROVE  Metered'
<1> DEFINE j == req[t].job
           bytes == Transferred(req[t].snap, j)
<1>a. req[t] \in Requests /\ Controlled(req[t]) /\ Sound(req[t]) /\ Observed(req[t]) /\ Based
  BY SteeredFacts DEF Steered
<1>b. /\ req[t].op = "poll" /\ req[t].pc = "stall" /\ j \in Jobs /\ j \notin req[t].todo /\ Listed(req[t], j)
      /\ Work(t) /\ rounds' = rounds /\ bytes \in Nat
  BY <1>a, TransferredType DEF StallCheck, Controlled, Sound, Work, Listed
<1>1. CASE StallTimeout > 0 /\ Progressed(j, bytes)
  <2> DEFINE r == [req[t] EXCEPT !.pc = "visit", !.views[j] = "downloading"]
  <2>1. /\ r.op = "poll" /\ r.pc = "visit" /\ r.now = req[t].now
        /\ r.users = req[t].users /\ r.todo = req[t].todo /\ r.snap = req[t].snap
    BY <1>a, <1>b DEF Requests
  <2>2. Become(t, r) /\ progress' = Put(progress, j, [bytes |-> bytes, at |-> req[t].now])
    BY <1>1 DEF StallCheck
  <2> HIDE DEF r
  <2>3. \A i \in Jobs : i \in DOMAIN progress' => Remembers(t, i)
    <3>1. \A i \in DOMAIN progress' : i = j \/ (i \in DOMAIN progress /\ progress'[i] = progress[i])
      BY <2>2 DEF Put
    <3>2. progress'[j] = [bytes |-> bytes, at |-> req[t].now]
      BY <2>2 DEF Put
    <3> QED BY <1>b, <3>1, <3>2 DEF Remembers
  <2>4. \A i \in Jobs : Listed(r, i) => Keeps(t, r, i)
    BY <1>b, <2>1 DEF Listed, Keeps
  <2> QED BY <1>b, <2>1, <2>2, <2>3, <2>4, MeteredWork
<1>2. CASE ~(StallTimeout > 0 /\ Progressed(j, bytes))
  <2> DEFINE r == [req[t] EXCEPT !.pc = "conclude", !.verdict = "stalled"]
             q == [req[t] EXCEPT !.pc = "visit", !.views[j] = "downloading"]
  <2>1. /\ r.op = "poll" /\ r.pc = "conclude" /\ r.job = j /\ r.now = req[t].now
        /\ r.users = req[t].users /\ r.todo = req[t].todo /\ r.snap = req[t].snap
        /\ q.op = "poll" /\ q.pc = "visit" /\ q.now = req[t].now
        /\ q.users = req[t].users /\ q.todo = req[t].todo /\ q.snap = req[t].snap
    BY <1>a, <1>b DEF Requests
  <2>2. /\ Become(t, q) \/ (~Progressed(j, bytes) /\ Stalled(j, req[t].now) /\ Become(t, r))
        /\ progress' = progress
    BY <1>2 DEF StallCheck
  <2> HIDE DEF r, q
  <2>3. \A i \in Jobs : (Listed(r, i) => Keeps(t, r, i)) /\ (Listed(q, i) => Keeps(t, q, i))
    BY <1>b, <2>1 DEF Listed, Keeps
  <2>4. CASE Become(t, q)
    BY <1>b, <2>1, <2>2, <2>3, <2>4, OnwardStep
  <2>5. CASE ~Progressed(j, bytes) /\ Stalled(j, req[t].now) /\ Become(t, r)
    <3>1. ASSUME rounds[j] = 0, NEW f \in FilesOf(j)
          PROVE  req[t].snap[f].moved <= req[t].now - StallTimeout + MaxBusy
      <4>1. j \in DOMAIN progress /\ bytes <= progress[j].bytes /\ progress[j] \in Marks
        <5>1. j \in DOMAIN progress /\ progress[j] \in Marks
          BY <1>a, <2>5 DEF Progressed, Based, TypeInv, TypeOK, IsDict
        <5> QED BY <1>b, <2>5, <5>1 DEF Progressed, Marks
      <4>2. Dated(req[t].snap, j, progress[j])
        BY <1>a, <1>b, <3>1, <4>1 DEF Observed
      <4>3. req[t].snap[f].moved <= progress[j].at + MaxBusy
        BY <4>1, <4>2 DEF Dated
      <4>4. req[t].now - progress[j].at >= StallTimeout
        BY <2>5 DEF Stalled
      <4>5. req[t].snap[f].moved \in Nat /\ req[t].now \in Nat
        BY <1>a, <1>b, PayloadFacts DEF Requests, Transfer
      <4> QED BY <4>1, <4>3, <4>4, <4>5, SettingsAssumption DEF Marks
    <3> QED BY <1>b, <2>1, <2>2, <2>3, <2>5, <3>1, OnwardStep
  <2> QED BY <2>2, <2>4, <2>5
<1> QED BY <1>1, <1>2

\* A poll drops jobs and answers.
LEMMA MeteredEnd ==
  ASSUME Disjoint, Dependable, Steered, RemovalsApart, NEW t \in Threads, req[t].op = "poll",
         DropJob(t) \/ ForgetJob(t) \/ QueueAnswers(t) \/ HistoryAnswers(t)
  PROVE  Metered'
<1>a. req[t] \in Requests /\ Work(t) /\ req[t].pc # "idle"
  BY SteeredFacts DEF Work, Sound
<1>b. ASSUME NEW r, Become(t, r), \A j \in DOMAIN progress' : j \in DOMAIN progress /\ progress'[j] = progress[j],
             rounds' = rounds, r.pc \notin {"conclude", "retry", "stall"}, r.now = req[t].now,
             r.users = req[t].users, r.todo = req[t].todo, r.snap = req[t].snap
      PROVE  Metered'
  <2>1. \A j \in Jobs : Listed(r, j) => Keeps(t, r, j)
    BY <1>b DEF Listed, Keeps
  <2> QED BY <1>a, <1>b, <2>1, OnwardStep
<1>1. CASE DropJob(t)
  <2>1. PICK j : Become(t, [req[t] EXCEPT !.job = j, !.pc = "forget"])
    BY <1>1 DEF DropJob, WriteFails, Fault, Dependable
  <2> DEFINE r == [req[t] EXCEPT !.job = j, !.pc = "forget"]
  <2>2. Become(t, r) /\ UNCHANGED <<progress, rounds>>
    BY <1>1, <2>1 DEF DropJob, memory
  <2>3. /\ r.pc = "forget" /\ r.now = req[t].now
        /\ r.users = req[t].users /\ r.todo = req[t].todo /\ r.snap = req[t].snap
    BY <1>a DEF Requests
  <2> HIDE DEF r
  <2> QED BY <1>b, <2>2, <2>3
<1>2. CASE ForgetJob(t)
  <2> DEFINE rest == req[t].purge \ {req[t].job}
             r == [req[t] EXCEPT !.purge = rest, !.pc = IF rest = {} THEN "return" ELSE "drop"]
  <2>1. Become(t, r) /\ rounds' = rounds /\ progress' = Pop(progress, req[t].job)
    BY <1>2 DEF ForgetJob, ForgetEntries
  <2>2. \A j \in DOMAIN progress' : j \in DOMAIN progress /\ progress'[j] = progress[j]
    BY <2>1 DEF Pop
  <2>3. /\ r.pc \in {"return", "drop"} /\ r.now = req[t].now
        /\ r.users = req[t].users /\ r.todo = req[t].todo /\ r.snap = req[t].snap
    BY <1>a DEF Requests
  <2> HIDE DEF r
  <2> QED BY <1>b, <2>1, <2>2, <2>3
<1>3. CASE QueueAnswers(t) \/ HistoryAnswers(t)
  <2>1. Idle.pc = "idle" /\ \A j : ~Listed(Idle, j)
    BY IdleSound DEF Listed
  <2>2. Become(t, Idle) /\ UNCHANGED <<progress, rounds>>
    BY <1>3 DEF QueueAnswers, HistoryAnswers, Answers, Leave, memory
  <2> QED BY <1>a, <2>1, <2>2, OnwardStep
<1> QED BY <1>1, <1>2, <1>3

\* Nothing outside the bridge takes bytes back.
LEMMA MeteredEnvironment ==
  ASSUME Steered, Environment
  PROVE  Metered'
<1>a. /\ slskd \in [Files -> Transfer] /\ slskd' \in [Files -> Transfer] /\ IsDict(progress, Jobs, Marks)
      /\ clock \in Nat /\ MaxBusy \in Nat /\ req \in [Threads -> Requests]
      /\ \A f \in Files : slskd[f].moved <= clock
      /\ \A j \in Jobs : Watched(j) => Marked(slskd, j, progress[j])
      /\ \A t \in Threads : Observed(req[t]) /\ Judged(req[t]) /\ Timed(req[t])
      /\ \A t, u \in Threads : t # u => Compared(req[t], req[u])
  BY SettingsAssumption DEF Steered, Based, TypeInv, TypeOK, Metered
<1>1. CASE Restart
  <2>1. UNCHANGED <<clock, slskd>> /\ DOMAIN progress' = {} /\ \A t \in Threads : req'[t] = Idle
    BY <1>1 DEF Restart, EmptyDict
  <2>2. \A t \in Threads : Observed(req[t])' /\ Judged(req[t])' /\ Timed(req[t])'
    BY <2>1, IdleSound DEF Observed, Listed, Judged, Timed
  <2>3. \A t, u \in Threads : t # u => Compared(req[t], req[u])'
    BY <2>1, IdleSound DEF Compared, Listed
  <2> QED BY <1>a, <2>1, <2>2, <2>3 DEF Metered, Watched
<1>2. CASE ~Restart
  <2>1. UNCHANGED <<req, progress, rounds>> /\ \A f \in Files : ~LateEnqueue(f)
    BY <1>2 DEF Environment, PeerSends, TransferSucceeds, TransferFails, LateEnqueue, ReleaseWrite,
       ReleaseWriteFails, Tick, memory, Steered, Prompt
  <2> DEFINE onward ==
          /\ \A f \in Files : slskd[f].bytes <= slskd'[f].bytes /\ slskd[f].moved <= slskd'[f].moved
          /\ \A f \in Files : slskd[f].bytes = slskd'[f].bytes => slskd[f].moved = slskd'[f].moved
          /\ \A f \in Files : slskd'[f].moved <= clock'
          /\ \A t \in Threads : req[t].pc # "idle" => clock' <= req[t].now + MaxBusy
  <2>2. onward
    <3>0. \A t \in Threads : req[t].now \in Nat /\ (req[t].pc # "idle" => clock <= req[t].now + MaxBusy)
      BY <1>a DEF Timed, Requests
    <3>1. CASE Tick \/ ReleaseWrite \/ ReleaseWriteFails
      BY <1>a, <3>0, <3>1 DEF Tick, ReleaseWrite, ReleaseWriteFails, Transfer, world
    <3>2. ASSUME NEW f \in Files, PeerSends(f)
          PROVE  /\ slskd'[f].bytes = slskd[f].bytes + 1 /\ slskd'[f].moved = clock /\ clock' = clock
                 /\ \A g \in Files \ {f} : slskd'[g] = slskd[g]
      BY <1>a, <3>2 DEF PeerSends, Transfer, world
    <3>3. ASSUME NEW f \in Files, TransferSucceeds(f) \/ TransferFails(f)
          PROVE  /\ slskd'[f].bytes = slskd[f].bytes /\ slskd'[f].moved = slskd[f].moved /\ clock' = clock
                 /\ \A g \in Files \ {f} : slskd'[g] = slskd[g]
      BY <1>a, <3>3 DEF TransferSucceeds, TransferFails, Transfer, world
    <3>4. \A f \in Files : slskd[f].bytes \in Nat /\ slskd[f].moved \in Nat
      BY <1>a, SettingsAssumption DEF Transfer
    <3>5. ASSUME NEW f \in Files, PeerSends(f) PROVE onward
      BY <1>a, <3>0, <3>2, <3>4, <3>5
    <3>6. ASSUME NEW f \in Files, TransferSucceeds(f) \/ TransferFails(f) PROVE onward
      BY <1>a, <3>0, <3>3, <3>4, <3>6
    <3> QED BY <1>2, <2>1, <3>1, <3>5, <3>6 DEF Environment
  <2>3. \A j \in Jobs : Grown(slskd, slskd', j)
    BY <2>2, PayloadFacts DEF Grown
  <2>4. \A j \in Jobs : Watched(j)' <=> Watched(j)
    BY <2>1 DEF Watched, Removing
  <2>5. ASSUME NEW t \in Threads PROVE Observed(req[t])' /\ Judged(req[t])' /\ Timed(req[t])'
    <3>1. Observed(req[t])'
      <4> SUFFICES ASSUME NEW j \in Jobs, Listed(req[t], j), rounds[j] = 0 PROVE Grown(req[t].snap, slskd', j)
        BY <1>a, <2>1 DEF Observed, Listed
      <4>1. Grown(req[t].snap, slskd, j) /\ req[t].snap \in [Files -> Transfer]
        BY <1>a DEF Observed, Requests
      <4> QED BY <1>a, <2>3, <4>1, GrownOn
    <3> QED BY <1>a, <2>1, <2>2, <3>1 DEF Judged, Timed
  <2>6. ASSUME NEW j \in Jobs, Watched(j)' PROVE Marked(slskd, j, progress[j])'
    <3>1. Watched(j) /\ progress[j] \in Marks
      BY <1>a, <2>4, <2>6 DEF Watched, IsDict
    <3> QED BY <1>a, <2>1, <2>3, <3>1, MarkedGrows
  <2>7. \A t, u \in Threads : t # u => Compared(req[t], req[u])'
    BY <1>a, <2>1 DEF Compared, Listed
  <2> QED BY <2>2, <2>5, <2>6, <2>7 DEF Metered
<1> QED BY <1>1, <1>2

\* A job whose transfers were never re-enqueued is reported stalled only if no
\* byte has arrived for StallTimeout (download_service.py:234-249), however
\* polls overlap each other and everything else, as long as no job is removed
\* while a poll judges it, no two grabs share a file, the table takes every
\* write and no lost batch turns up later.
THEOREM StallsAreReal == ASSUME Disjoint, Dependable PROVE ApartSpec => []StallMeansNoProgress
<1>1. ApartSpec => Spec
  <2>1. [Next /\ RemovalsApart']_vars => [Next]_vars
    OBVIOUS
  <2> QED BY <2>1, PTL DEF ApartSpec, Spec
<1>2. Init => Prompt /\ RemovalsApart /\ Tidy(Entries, req, Settled) /\ Metered
  <2> SUFFICES ASSUME Init PROVE Prompt /\ RemovalsApart /\ Metered
    BY TidyInit
  <2>1. \A t \in Threads : req[t] = Idle
    BY DEF Init
  <2>2. \A t \in Threads : Observed(req[t]) /\ Judged(req[t]) /\ Timed(req[t])
    BY <2>1, IdleSound DEF Observed, Listed, Judged, Timed
  <2>3. \A t, u \in Threads : t # u => Compared(req[t], req[u])
    BY <2>1, IdleSound DEF Compared, Listed
  <2>4. \A f \in Files : slskd[f].moved <= clock
    BY DEF Init, NoTransfer
  <2>5. \A j \in Jobs : ~Watched(j)
    BY DEF Init, Watched, EmptyDict
  <2> QED BY <2>1, <2>2, <2>3, <2>4, <2>5, IdleSound DEF Init, Prompt, RemovalsApart, Removing, Metered
<1>3. RemovalsApart /\ [Next /\ RemovalsApart']_vars => RemovalsApart'
  BY DEF vars, RemovalsApart, Judges, Removing
<1>4. Based /\ Based' /\ Tidy(Entries, req, Settled) /\ [Next /\ RemovalsApart']_vars => Tidy(Entries, req, Settled)'
  BY SettledStep
<1>5. ASSUME Based, Based', Prompt, RemovalsApart, Tidy(Entries, req, Settled), Metered, [Next /\ RemovalsApart']_vars
      PROVE  Metered'
  <2>a. Steered
    BY <1>5 DEF Steered
  <2>1. CASE UNCHANGED vars
    <3>1. UNCHANGED <<clock, slskd, progress, rounds, req>>
      BY <2>1 DEF vars, world, memory
    <3> QED BY <1>5, <3>1 DEF Metered, Observed, Listed, Judged, Timed, Compared, Watched, Removing
  <2>2. CASE Environment
    BY <2>a, <2>2, MeteredEnvironment
  <2>3. ASSUME NEW t \in Threads, Begin(t) PROVE Metered'
    BY <1>5, <2>a, <2>3, MeteredBegin
  <2>4. ASSUME NEW t \in Threads, Work(t) PROVE Metered'
    <3>1. CASE req[t].op # "poll"
      BY <1>5, <2>a, <2>4, <3>1, MeteredAloof
    <3>2. CASE req[t].op = "poll"
      <4>1. Consistent(req[t]) /\ Sound(req[t])
        BY <2>a, SteeredFacts
      <4>2. ~StartEnqueue(t) /\ ~StartAdd(t) /\ ~StartRaise(t) /\ ~CancelLocate(t) /\ ~CancelOne(t) /\ ~RemoveReturns(t)
        BY <3>2, <4>1 DEF StartEnqueue, StartAdd, StartRaise, CancelLocate, CancelOne, RemoveReturns, Consistent
      <4> QED BY <1>5, <2>a, <2>4, <3>2, <4>2, MeteredRows, MeteredList, MeteredVisit, MeteredCheck, MeteredEnd DEF Work
    <3> QED BY <3>1, <3>2
  <2> QED BY <1>5, <2>1, <2>2, <2>3, <2>4 DEF Next
<1>6. Metered => StallMeansNoProgress
  BY DEF Metered, Judged, StallMeansNoProgress, StallIsReal
<1>7. Prompt /\ [Next /\ RemovalsApart']_vars => Prompt'
  BY PromptStep
<1> QED BY <1>1, <1>2, <1>3, <1>4, <1>5, <1>6, <1>7, BasedInvariant, PTL DEF ApartSpec

=============================================================================
