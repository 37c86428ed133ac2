------------------------- MODULE DownloadProperties -------------------------
(* What the download service promises, stated over DownloadService.        *)
EXTENDS DownloadService

IsDict(d, K, V) == DOMAIN d \subseteq K /\ \A k \in DOMAIN d : d[k] \in V

States == {"nothing", "downloading", "completed", "failed"}

Marks == [bytes : Nat, at : Nat]

Requests ==
  [op : {"none", "start", "remove", "poll"},
   pc : {"idle", "enqueue", "add", "locate", "cancel", "raise", "rows", "list", "visit",
         "retry", "stall", "conclude", "drop", "forget", "return"},
   now : Nat, users : SUBSET Users, todo : SUBSET Jobs, snap : [Files -> Transfer],
   job : Jobs \cup {NoJob}, discs : SUBSET Nat, files : SUBSET Files,
   cancels : SUBSET (Files \X Nat), verdict : Verdicts,
   views : [Jobs -> States], purge : SUBSET Jobs]

\* Every variable, the locals of every request included, keeps its type.
TypeOK ==
  /\ clock \in Nat /\ faults \in Nat /\ restarts \in Nat
  /\ slskd \in [Files -> Transfer]
  /\ late \subseteq Files
  /\ jobs \subseteq Jobs /\ stored \subseteq Jobs /\ grabbed \subseteq Jobs
  /\ astray \subseteq Jobs /\ purged \subseteq Jobs /\ assured \subseteq Jobs
  /\ dirKnown \in BOOLEAN
  /\ IsDict(retries, Jobs, Nat)
  /\ IsDict(progress, Jobs, Marks)
  /\ IsDict(terminalSince, Jobs, Nat)
  /\ rounds \in [Jobs -> Nat]
  /\ told \in [Jobs -> States]
  /\ req \in [Threads -> Requests]

\* However many threads poll at once, and whatever removals race them or fail,
\* one process never grants a job it still tracks, or that a rollback may bring
\* back, more than MaxRetries retry rounds: the check-and-increment is one
\* section, and the counter is popped only when the row is gone for good
\* (download_service.py:181-190, 294-300).
RetryBudget == \A j \in Kept : rounds[j] <= MaxRetries

Entries == DOMAIN retries \cup DOMAIN progress \cup DOMAIN terminalSince

\* While no poll and no removal is under way, what the bridge remembers of a job
\* without a row is of one that went astray: another request was judging it when
\* its row was taken out, or the write that took it out was not the one its own
\* request had made (a DELETE that raised, and that a later commit took along).
\* No other path that ends a job leaves an entry of the three dictionaries
\* behind (download_service.py:296-300, 311-316).
NoStaleBookkeeping ==
  (\A t \in Threads : req[t].op \notin {"poll", "remove"}) => Entries \subseteq Kept \cup astray

\* Requests that account for a running transfer: a grab that has not ended, and
\* a removal that has not reached it yet.
Handling(f) ==
  \E t \in Threads : req[t].op \in {"start", "remove"} /\ req[t].pc # "return" /\ f \in req[t].files

\* While slskd answers and the table takes every write, no transfer keeps running
\* for a grab that failed or a job that was removed, although a batch may be
\* refused after slskd took part of it (start's docstring,
\* download_service.py:65-69, 121-146, 304-310).  The purge alone drops a job
\* without cancelling.  A removal of a job that a poll is judging breaks it.
NoOrphan ==
  \A f \in Files :
    slskd[f].state = "active" => Handling(f) \/ \E j \in jobs \cup purged : f \in FilesOf(j)

\* In the listing the thread decides on, no file of the job has received a byte
\* for StallTimeout, but for the length of one poll.
StallIsReal(t) ==
  \A f \in FilesOf(req[t].job) : req[t].snap[f].moved <= req[t].now - StallTimeout + MaxBusy

\* A job whose transfers were never re-enqueued is reported stalled only if no
\* byte has arrived for StallTimeout, however polls and bytes interleave
\* (download_service.py:234-249).  Three things break it: a removal of a job that
\* a poll is judging, one that fails once it has cancelled, and files of a lost
\* batch that slskd takes after a restart of the bridge.
StallMeansNoProgress ==
  \A t \in Threads :
    req[t].pc = "conclude" /\ req[t].verdict = "stalled" /\ rounds[req[t].job] = 0
      => StallIsReal(t)

Purging(t) == req[t].op = "poll" /\ req[t].pc = "drop"

\* Once Lidarr has been told of a job that it completed, and it has, and no other
\* request was in the middle of judging it or taking it out, no poll purges it,
\* however old it is, however many polls overlap and whatever it was before
\* ("completed jobs are never auto-purged", download_service.py:263-264;
\* docs/plans/2026-07-01-audit-hardening.md:132).  A poll that listed the job
\* earlier and is still at it may purge it yet.
CompletedNotPurged == \A t \in Threads : Purging(t) => req[t].purge \cap assured = {}

\* Every job taken on is sooner or later reported completed or failed, or
\* is gone: retries, refused retries and dead peers included, Lidarr never
\* waits for ever (the stall detector is the backstop, download_service.py:211-214).
EveryJobConcludes ==
  \A j \in Jobs : j \in jobs ~> j \notin jobs \/ told[j] \in {"completed", "failed"}

Opening(j) == \E t \in Threads : req[t].op = "start" /\ req[t].job = j

\* Where the ledger of JobLedger sees a grab.
Stage(j) == IF j \notin grabbed THEN "new"
            ELSE IF j \in stored THEN "tracked"
            ELSE IF j \in jobs THEN "unsure"
            ELSE IF Opening(j) THEN "opening" ELSE "gone"

Ledger == INSTANCE JobLedger WITH
  Grabs <- Jobs, Budget <- MaxRetries,
  stage <- [j \in Jobs |-> Stage(j)],
  spent <- [j \in Jobs |-> IF j \in Kept THEN rounds[j] ELSE 0]

\* The service implements the ledger: an accepted job leaves it once and for
\* all, no retry of a tracked job exceeds the budget, and neither a request that
\* races a removal nor a write that fails changes what Lidarr relies on.
KeepsLedger == Ledger!Spec

-----------------------------------------------------------------------------
(* Which requests must not overlap for NoOrphan and StallMeansNoProgress.      *)

Removing(j) == \E t \in Threads : req[t].op = "remove" /\ j \in req[t].purge

\* No job is removed while a poll is judging it.
RemovalsApart == \A t \in Threads, j \in Jobs : Judges(t, j) => ~Removing(j)

ApartSpec == Init /\ [][Next /\ RemovalsApart']_vars

-----------------------------------------------------------------------------
(* Why the budget and the ledger hold: the inductive invariant behind both.  *)

\* Grabs whose request has ended, with a row or with an error.
Settled == {j \in grabbed : ~Opening(j)}

\* Only a grab's own request touches it before it is settled.
Consistent(r) ==
  /\ r.pc \in {"enqueue", "add", "raise"} => r.op = "start"
  /\ r.pc \in {"idle", "rows", "list", "visit", "retry", "stall", "conclude", "drop", "forget", "return"}
       => r.op # "start"
  /\ r.pc \in {"locate", "cancel"} => r.op \in {"start", "remove"}
  /\ IF r.op = "start"
     THEN r.job \in grabbed /\ r.todo = {} /\ r.purge = {}
     ELSE r.job \in Settled \cup {NoJob} /\ r.todo \subseteq Settled /\ r.purge \subseteq Settled

\* Each grab is one request's, and settled once.
Served ==
  /\ Kept \subseteq Settled
  /\ \A t \in Threads : Consistent(req[t])
  /\ \A t, u \in Threads :
       req[t].op = "start" /\ req[u].op = "start" /\ req[t].job = req[u].job => t = u

\* A row is gone for good before its dictionary entries are popped, the counter
\* of a tracked job counts its rounds, and a job not yet settled has none.
Counted ==
  /\ \A t \in Threads : req[t].pc = "forget" => req[t].job \notin Kept
  /\ \A j \in Jobs \ Settled : rounds[j] = 0 /\ j \notin DOMAIN retries
  /\ \A j \in Kept : rounds[j] = Used(j) /\ rounds[j] <= MaxRetries

LedgerInv == Served /\ Counted

-----------------------------------------------------------------------------
(* Claims of the documentation the code does not keep.                       *)

\* README.md:113, BRIDGE_MAX_RETRIES: "Times a failed transfer is re-enqueued
\* before it is reported failed to Lidarr".  (One job, so the id counts the
\* enqueues of its files.)
FailedTransferWasRetried ==
  \A t \in Threads :
    req[t].pc = "conclude" /\ req[t].verdict = "failed"
      => \A f \in InState(req[t].snap, req[t].job, "failed") : req[t].snap[f].id > MaxRetries

\* README.md:112, BRIDGE_STALL_TIMEOUT: "Report a download failed after this
\* many seconds with no progress".
StalledReportIsReal ==
  \A t \in Threads :
    req[t].pc = "conclude" /\ req[t].verdict = "stalled" => StallIsReal(t)

\* Bytes of the job have come since it was first found failed.
Recovered(j) ==
  j \in DOMAIN progress \cap DOMAIN terminalSince /\ progress[j].at > terminalSince[j]

\* docs/plans/2026-07-01-audit-hardening.md:133: "`downloading` jobs are never
\* purged"; download_service.py:263, "after a grace period".  So no job that
\* recovered is dropped before Lidarr hears of it in any state but downloading.
DownloadingNotPurged ==
  \A t \in Threads :
    Purging(t) => \A j \in req[t].purge : ~(Recovered(j) /\ told[j] = "downloading")
=============================================================================
