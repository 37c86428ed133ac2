# Formal models of slskd-lidarr-bridge

The bridge lets Lidarr use a [slskd](https://github.com/slskd/slskd) instance as
if it were a Newznab indexer and a SABnzbd download client. This directory holds
TLA+ models of its two services, of its store and start-up, and of the way from a
peer's answer to the files on disk, the TLC configurations that check them on
small instances, and TLAPS proofs of what matters most for every instance. Paths below
are relative to the repository; line numbers refer to
`src/slskd_lidarr_bridge/` unless said otherwise.

## The system

| Part | Code | State it keeps | Operations |
|---|---|---|---|
| Download service | `domain/download_service.py` | `_retries`, `_progress`, `_terminal_since` under `_lock` | `start`, `statuses`, `remove`, `completed_dir` |
| Search service | `domain/search_service.py` | none between requests | `search` |
| Store | `adapters/outbound/sqlite_store.py` | tables `releases` and `jobs`, one connection, one write lock | `put`, `get`, `purge_older_than`; `add`, `get`, `list`, `remove`; migration |
| slskd gateway | `adapters/outbound/slskd_gateway.py` | the cached downloads directory | one HTTP call each, retries on 429 |
| Newznab surface | `adapters/inbound/newznab.py` | none | `caps`, `search`/`music`, `nzb` |
| SABnzbd surface | `adapters/inbound/sabnzbd.py` | none | `addfile`, `queue`, `history`, delete, constants |
| Application | `adapters/inbound/app.py`, `main.py`, `config.py` | configuration | wiring, error envelope, start-up |
| Pure helpers | `domain/albums.py`, `paths.py`, `query_candidates.py`, `quality.py`, `titles.py`, `inbound/nzb.py`, `xml.py` | none | grouping, naming, encoding |

waitress serves each request on a thread of its own. A **search** request of
Lidarr makes `SearchService` run up to four query texts through slskd within a
wall-clock budget; each release found gets a row of `releases`, whose id Lidarr
uses to fetch the NZB (`/indexer/nzb/<id>`), a self-describing payload it hands
back in **addfile**. `DownloadService.start` then posts one slskd batch per disc
and adds a row to `jobs`. From then on Lidarr polls **queue** and **history**, both
of which run `statuses()`: it lists slskd's transfers of every peer, derives each
job's state, and, as side effects of being polled, re-enqueues failed files,
detects stalls and purges old failures. Lidarr ends a job by **delete**.

What is hard here: polls, removals and grabs of several threads interleave
between any two accesses to the table, to slskd and to the lock, and slskd's
answers are stale by the time they are used; every call of slskd may fail, and a
batch may fail after part of it was taken; the process may die anywhere, losing
the dictionaries but not the tables; three clocks (stall, purge, search budget)
race late answers.

### What makes each part correct

* Download service: bounded retries whatever the interleaving; no transfer
  outlives a failed grab or a removal; a job is called stalled only if it is; a
  completed job is never purged; what is remembered of a job goes with it; a
  removed job never comes back; every job reaches a conclusion Lidarr hears of.
* Search service: a search ends in time; it reports "no results" only when
  nothing failed; what it named can be grabbed for the release's time to live.
* Store and start-up: what a call returned of a row stands, in every later read
  and after every restart; a process that serves has the tables of its build,
  whatever crashes came before; no wipe by a start that is refused, nor by a
  restart of the same build.
* From an answer to the disk: an accepted grab misses no file and a failed one
  leaves none; no batch is posted twice; every file lands in the folder reported
  to Lidarr, and no two files of an album, nor of two peers, in one place.

## Modules

| Module | Contents |
|---|---|
| `DownloadService` | the download service, its threads, the job table, slskd's transfers and the clock |
| `DownloadProperties` | its type invariant, safety and liveness properties, the refinement mapping, which requests must not overlap for two of them, the inductive invariant, and the documented claims the code does not keep |
| `JobLedger` | abstract specification: the life of a grab and its retry budget |
| `MCDownloadService`, `MCDownloadLiveness` | instances for TLC |
| `DownloadServiceProofs` | TLAPS: types, the retry budget, the refinement of `JobLedger` |
| `OverlapProofs` | TLAPS: bookkeeping, orphans, the purge and the stall detector, for requests that overlap |
| `SearchService` | the search service, its threads, the release table and the clock |
| `SearchProperties` | its type invariant, safety properties and one documented claim the code does not keep |
| `MCSearchService` | instances for TLC |
| `SearchServiceProofs` | TLAPS: types, the duration of a search, its outcome, the life of a release |
| `Store` | the two tables in service: threads that write on one connection, statement and commit apart |
| `Startup` | extends `Store`: the start of a process, its checks, migration, service and kills; its safety properties |
| `MCStartup` | instances for TLC |
| `StoreProofs`, `StartupProofs` | TLAPS: what each half of a write keeps; the three safety properties |
| `Albums` | pure: `domain/albums.py` and `domain/paths.py` as operators on names |
| `Delivery` | extends `Albums`: the release made of an album, the attempts of each batch of a grab, its compensation, slskd's transfers and their folders; its safety properties |
| `MCDelivery` | an instance for TLC |
| `AlbumsProofs`, `DeliveryProofs`, `FolderProofs` | TLAPS: lemmas on names; what a grab promises; where files land |

### DownloadService

A thread's locals are the record `req[t]`; `pc` names the next access to shared
state, and each action is one such access: one call of slskd, one read or write of
the table or one `with self._lock` section. Code between two accesses touches
locals only and belongs to the step before.

| Code | Actions |
|---|---|
| `start` (62-119) | `StartBegin`, `StartEnqueue` per disc, then `StartAdd`; or after a failure `CancelLocate`, `CancelOne`, `StartRaise` |
| `_cancel_files` (121-146) | `CancelLocate`, `CancelOne` |
| `statuses` (148-302) | `PollBegin` (the clock), `PollRows` (`jobs.list`), `PollList` per peer, `VisitCompleted` / `VisitFailed` (the reservation's section) / `VisitRunning` per job, `RetryEnqueue` per disc, `StallCheck`, `Conclude`, `PollLoopEnds`, `DropJob`, `ForgetJob` |
| `remove` (304-317) | `RemoveBegin`, `CancelLocate`, `CancelOne`, `DropJob`, `ForgetJob`, `RemoveReturns` |
| queue, history (`sabnzbd.py:111-167`) | `QueueAnswers`, `HistoryAnswers`: what of the poll Lidarr is told |
| slskd, peers, time | `PeerSends`, `TransferSucceeds`, `TransferFails`, `LateEnqueue`, `Tick`; `Restart` is the bridge's own |
| searches, on the same connection | `ReleaseWrite`, `ReleaseWriteFails`: what their commits and rollbacks do to a job left open |

Abstractions. A file is one (peer, name) pair, `DiscsOf` a job's discs. A
transfer counts bytes from 0 to `FileSize`; `moved` (when its last byte came) and
`id` (which enqueue made it) serve properties and cancellation. Percentages,
messages, categories and paths are dropped. The loop over jobs takes them in any
order; nothing depends on it. `rounds`, `astray`, `purged`, `told` and `assured` are
history: no guard reads them.

The table is two sets of jobs: `jobs`, what the connection sees, and `stored`, what is
committed. A write is one step with every outcome that `Store`, which has statement
and commit apart, gives it: it is done, with whatever an earlier failure left open
(`Writes`); or it raises (`WriteFails`), and the transaction stays open without it, stays
open with it, or is rolled back. So a failed `add` may leave a row that `list` shows
and a later commit makes durable, and a failed `remove` a row that goes when
something else is committed, while the three dictionaries keep its entries: neither
`statuses` (296-300) nor `remove` (311-316) gets to popping them. `astray` notes the rows
that go in such a way, and those that go while another request is judging their job.

Assumed of slskd (outside the repository): at most one transfer per remote file;
a batch supersedes a finished transfer under a new id and leaves a running one;
DELETE with `remove=true` forgets it. A POST that raises (`PostRaises`) may have been
accepted in any part, which covers answers 200 and 207 (`slskd_gateway.py:202-221`)
and a refusal; if its answer was lost, slskd may take the rest of it at any later time
(`late`, `LateEnqueue`), after the compensation has looked.

### SearchService

`SearchBegin`, `Purge`, then per candidate `NextCandidate` (the loop's head,
75-88), `StartSearch`, `PollComplete` or `PollPending` with `Wake`,
`FetchResponses`, and per offer `Stamp` (182) and `StoreRelease` (184-194);
`CandidateFails` for any call that raises; `Answer` or `Raise`. Each step may take
up to `MaxCall`: `due` is the instant it ends at the latest, and `Tick` waits for no
one to be overdue. An offer stands for the (peer, album path) pair that a
release's id is derived from; what slskd finds is arbitrary, and a whitespace
query may have no candidate at all. `named` is history: the `created_at` that
Lidarr was told of each offer.

### Store and Startup

`Steps` lists what a start does, in the order of the code: `Config.from_env`, the
version check of slskd (`main.py:33-97`), then the statements of
`SqliteStore.__init__` and `_migrate` (`sqlite_store.py:132-166`), each of which
commits by itself. `at` is the step the process is at (0: no process, 9: it
serves). The two checks may refuse; `Exit` kills the process anywhere; `Launch`
starts another, of any build. A build stands for its schema version and a table's
layout for the build that created it; rows are keys. Build 0 stands for the images of
before `user_version`, of which `docs/backlog.md:38-43` records that they take newer tables
for theirs and fail at the first INSERT: such an image creates the tables it misses,
neither reads nor writes the version and drops nothing, and its INSERTs need its
own layout (`Serve`).

While the process serves, `Serve` takes a step of `Store`. A write (`put`,
`purge_older_than`, `add`, `remove`) is `Execute` under `_write_lock`, then `Commit`
or `CommitFails`; a statement that raises is `StatementFails`. `rows` is what is
committed, `view` what the connection sees and so what `get` and `list` read,
without the lock. The code neither rolls back nor closes after an error, so
SQLite may have rolled the open transaction back or left it for the next commit
to take along: a choice over both. `promised` is what callers know of each key
from calls that returned; a call that raised leaves it open.

`torn`, `promised`, `owner` and `accepted` are history: no guard reads them. `torn` names
the build whose migration began and was not finished since: by its stamp, or by that of
another start that migrated. The other builds that mind the version are assumed to
start as this one does, under their own. The values of columns are in the two
services' modules.

### Albums and Delivery

A name is a sequence of tokens, the classes of characters that the code tells
apart (`Albums` lists them), a directory the sequence of its names, a file a name in
a directory. `Albums` translates `is_disc_folder`, `_album_root`, `_subpath` and
`group_files_by_album`, `sanitize_segment`, `build_album_destination`,
`batch_destination` and `compute_storage_path`, under their names; the order of
groups, discs and files is left out.

| Code | Actions of `Delivery` |
|---|---|
| `_collect` (`search_service.py:156-185`), the payload | `Release`, `Releases`: what a grab may be of |
| `start` (`download_service.py:62-119`) | `Grab`, `Proceed` from disc to disc, `Compensate` |
| `enqueue`, `_post_batch` (`slskd_gateway.py:189-240`) | `Answered` per attempt: repeat, go on, or raise; `AnswerLost` |
| slskd | `Taken`, `Taking`, `Late` |

`DownloadService` has the rest of a grab's life and one step per batch; here
`start` goes attempt by attempt, and no transfer ends. slskd is outside the
repository; what is assumed of it is what `docs/specs/2026-07-21-multi-disc-albums-design.md`
records and the code relies on: 201 means all files taken, 207 a part, 200
none, 429 none because its limiter is busy, another error any part; it leaves
alone the transfer it has of a remote file; it sanitizes each name of a
destination by its host's rules (`DiskName`) and refuses traversing ones
(`Traverses`). A POST whose answer is lost may be served at any later time
(`Late`). Listing and cancelling may fail for any part of the files.

`ReportedFolderHolds` relates the folder of each transfer, after what slskd on
either host makes of it, to the storage path reported, whether slskd writes its
downloads directory with a slash at the end or without. `FilesKeptApart` says when
two equally named files cannot meet: not in one album, nor in two peers' albums
of one name, as long as no character of the names that tell them apart had to be
replaced. It is silent about two same-named album folders of one peer, which
share a destination (`docs/backlog.md:44-51`), and compares folders as slskd is told
them: on a host that does not tell upper from lower case, the discs `CD1` and `cd1`, or
the peers `Bob` and `bob`, meet.

## Runs

| Run | Instance | Shows |
|---|---|---|
| `download_threads` | 2 threads, 1 single-file job, 2 failures (late transfers and failed writes among them), 1 restart | `TypeOK`, `RetryBudget`, `NoStaleBookkeeping`, `KeepsLedger` in every interleaving |
| `download_polls` | 2 threads, 1 disc of 2 files, 1 failure, `ApartSpec` | `NoOrphan`, `StallMeansNoProgress` |
| `download_completed` | 2 threads, 1 single-file job, 1 failure | `CompletedNotPurged` in every interleaving |
| `download_liveness` | 1 thread, 1 job, 2 failures of any kind, fairness | `EveryJobConcludes` |
| `retry_in_flight` | 2 threads, 1 file | `FailedTransferWasRetried` is violated |
| `stall_after_retry` | 1 thread, 1 file of 2 units | `StalledReportIsReal` is violated |
| `purge_at_once` | 1 thread, no failure at all | `DownloadingNotPurged` is violated, by a job that stalls, recovers and stalls again |
| `search_serial` | 1 thread, 2 offers, up to 4 candidates, 1 failure | `SearchTypeOK`, `SearchInTime`, `HonestOutcome` |
| `search_threads` | 2 threads, 1 offer | `OfferStays` |
| `startup` | 4 images, 2 rows, 2 threads, any number of starts, kills and failed writes | `ServesOwnLayout`, `KeepsRows`, `ReadsStand` |
| `startup_torn` | 2 images, 1 row, going back to a torn database's version | `MismatchRecreates` is violated |
| `delivery` | 2 threads, 3 peers, 6 directories, up to 2 discs, 1 repetition | `AcceptedIsComplete`, `PostedOnce`, `NothingLeft`, `ReportedFolderHolds`, `FilesKeptApart` |

Run one with `tlc -config DownloadThreads.cfg MCDownloadService`. The largest
(`download_polls`) has about six million states.

Threads are not told apart by the model, nor are the two files of one disc, nor rows;
the runs reduce by that symmetry. None of the properties so checked names one of
them: the invariants quantify over all, and a step of `KeepsLedger` concerns jobs, of
which there is one. No liveness property is checked under a symmetry.

### Which requests may overlap

waitress serves requests in parallel and Lidarr polls the queue and the history
concurrently (`docs/plans/2026-07-01-audit-hardening.md:101-102`). `Spec` lets all of
them interleave, and `TypeOK`, `RetryBudget`, `KeepsLedger`, `NoStaleBookkeeping` and
`CompletedNotPurged` are checked and proved of it. The last two say themselves what an
overlap can spoil: an entry may be left of a job that went `astray`, and a completed job is
safe once it is `assured`, that is, once Lidarr was told, the job had indeed completed, and
no other request was still judging it or taking it out (`Certain`).

`NoOrphan` and `StallMeansNoProgress` are broken by one kind of overlap, which the code
neither prevents nor expects: a removal of a job that a poll has listed and not yet judged.
The poll re-enqueues what the removal has cancelled, or counts too few bytes because the
removal took some of the files. `ApartSpec` is `Spec` without that and no more: grabs overlap
anything, polls overlap polls, and removals overlap the polls of other jobs. With `Spec`
instead, TLC finds both invariants of `download_polls` violated. Two more things break them,
and the run leaves them out of its failures: a write of the table that fails (a grab whose
row is not there has transfers; a removal that fails has cancelled some of a job that
stays, and counts less), and files of a lost batch that come later.

Bounds, all of them constants: `MaxClock`, `MaxFaults`, `MaxRestarts`, `MaxBusy`
(how long a request may take while others run), `LastGrab` (no grab after it, so
that jobs have time to conclude), `PollGap`, and `LastFault` (no failure after it, so that
a job it delays has the time too). Settings are scaled to one or two
clock units. They are enough because the hazards need few actors: two threads
are the smallest number that race, two files of a disc the fewest of which a batch can
take a part and two polls see a different one move, one retry round the smallest budget
that can be exceeded, and the clock runs far enough for stall, conclusion and purge in
a row (in `download_completed`, for stall, recovery, completion and the end of the
grace period). An album of two discs, of which the first was taken and the second is
refused, is in `delivery`. `MaxBusy = 0` in the liveness
run makes a request instantaneous on the stall timeout's scale (30 minutes against
seconds); in the runs of two threads time passes inside requests too.
The clock of `download_threads` has one unit, enough for a failure, its report, a
restart and the purge.
`Startup` needs no bound but its sets: one build writes the database, another tears
it, a third finds it torn, and one that does not mind the version comes up in between;
two threads are enough for one's failed write to
meet the other's open one. `Delivery` needs none either: a grab ends. Its names are
chosen so that each rule of `Albums` decides something: names that differ, that
differ only in replaced characters, that are stripped to nothing, disc folders
with and without a bracket, one that only looks like one, and one under a share
root. Deadlock is not checked there, since each thread serves one grab.

Fairness (`download_liveness` only): a request begun goes on to its end
(`WF(Work)`: each call of slskd times out); Lidarr keeps polling
(`WF(PollBegin)`), the history as well as the queue (`SF(HistoryAnswers)`: it
refreshes both, and the model decides which one a poll was when it answers);
time passes (`SF(Tick)`). Nothing is assumed of peers and slskd: they may never
send a byte. In `MCDownloadLiveness` Lidarr lets at most `PollGap` pass between
two polls, since the model's clock stops.

### Where code and documentation part

1. The retry budget is counted per job (`download_service.py:184-190`), not per
   transfer as `README.md:113` says: once a round is spent, a file that fails later
   is never retried. No run has this of its own; with two files in one job
   `FailedTransferWasRetried` is violated by a single thread.
2. Two concurrent polls: the section that reserves a retry is atomic, but its
   decision rests on an older listing, and the second poll reports failed what
   the first is retrying.
3. A retry keeps the byte count of the failed transfer as the watermark
   (line 190); the new one starts from zero, so real progress can be reported as
   a stall, against `README.md:112`.
4. `_terminal_since` is never reset when a stalled job resumes, so its next stall
   is purged without a grace period and without being reported. In the trace of
   `purge_at_once` the job stalls at 1, a byte comes, the poll at 3 finds it
   downloading, and the poll at 4 finds it stalled and drops it.
5. A search's deadline counts from the answer of its POST (`search_service.py:120`),
   so a slow POST is added to the "total wall-clock" budget of `README.md:111`. No run has this of its own;
   `SearchInTime` allows for it.
6. `user_version` is written last (`sqlite_store.py:139`). If a new image is killed
   after its CREATE statements and the user goes back to the old image, the version
   still names the old build, nothing is dropped, and it serves on tables it cannot
   write, against `sqlite_store.py:34-37` (`MismatchRecreates`). `ServesOwnLayout` is the same
   claim without this case: unless a migration was cut short and no start has migrated
   to the end since. That an image of before `user_version` cannot write newer tables is
   no divergence: `docs/backlog.md:38-43` records it.
7. `build_album_destination` "so that two peers offering identically named album
   folders cannot write into the same directory" (`paths.py:56-57`): true of peers
   whose names differ in more than replaced characters, which is what
   `FilesKeptApart` states; `a?` and `a*` share a folder.
8. "Completed jobs are never auto-purged" (`download_service.py:263-264`): of two polls,
   one lists a job at the end of its second stall; its last transfer succeeds, the other
   poll tells Lidarr so, and the first one, finding the grace period over since the
   first stall (item 4), drops the row. `CompletedNotPurged` holds of jobs told
   completed when no such poll was left (`Certain`).
9. `remove()` is to "cancel in-progress transfers" (`download_service.py:305`). A poll
   reserves a retry under the lock and posts it outside (185, 208); a removal that
   comes in between finds nothing running and drops the row, and the retry then
   starts a transfer that no later request can find (`DownloadPolls.cfg` with `Spec`).

## Proofs

TLAPS proves these for every set of threads, jobs, files and offers, every
payload and every setting allowed by the modules' assumptions
(`PayloadAssumption`, `SettingsAssumption`, `SearchAssumption`, `StoreAssumption`,
`StartupAssumption`, `DeliveryAssumption`), every
interleaving, every failure and every restart.

* `TypeCorrect`. `TypeOK` alone is not inductive: the step that concludes a job
  needs `req[t].job` to be one. `Controlled` says where in its request a thread
  has a job and discs.
* `LedgerInvariant`, and from it `RetryBudgetHolds` and `ServiceKeepsLedger` (each
  step of the service is a step or a stutter of `JobLedger`). `RetryBudget` is not
  inductive: the guard reads `_retries`, which removals pop. `LedgerInv` adds that
  every grab is served by one request and settled once (`Served`), so no thread
  but its own touches a job not yet in the table; and that a row goes before its
  dictionary entries do, so the counter of a tracked job counts its rounds
  (`Counted`). A poll that still visits a removed job may re-create its counter,
  which therefore says nothing of jobs that are gone, and ids never return.
* `SearchEndsInTime`. `Paced` bounds, for each point of `search()`, the instant its
  step ends, counted from the start: a candidate's deadline plus what was spent
  before never exceeds the budget, because `NextCandidate` takes no time.
* `OffersStay`. The table's rows go back in time when two searches store an offer in
  the opposite order of their stamps. `Kept` says by how much: a row is at most
  `MaxCall` older than any sighting still owed one, because a stamp is stored
  within `MaxCall`; the purge, whose cutoff is never in the future, spares it.
* `RowsKept` and `ReadsTrue`. `StoreInv` is what holds of the store in service: only
  the holder of the lock has a write executed and not committed (`Locked`), its keys
  are promised to nobody meanwhile (`Executed`), so a rollback of the open
  transaction takes back nothing a call returned, and neither does a commit of what
  another call left open. `StoreProofs` has one lemma for each half of a write.
  `RowsInv` adds that until another build passes the checks the version is that of
  the build that left the rows, so its restarts never migrate.
* `OwnLayout`, for any images. `LayoutInv`: the version vouches for the tables there are,
  and for both of them once it is stamped, unless a migration has torn them; a start that
  migrates has none but its own from its second DROP on; and an image that does not
  mind the version, which can only add tables, finds all of them wherever the version
  vouches for any.

* `NoBatchTwice`: `Sound` counts the attempts of the batch under way that got past
  the limiter; it is 0 whenever an attempt is made, as only a 429 leads back.
* `FailureLeavesNothing`: `Held`, that every transfer was posted by a call that has
  not failed since, unless something was lost, is inductive only with `LateHeld`, the
  same of what slskd may yet make.
* `NothingMissing`: `DoneWith` says of which discs the files are there: all of the
  release but those left and the one under way. That they stay is `SafeGrows`: a
  compensation takes away only what its own grab names.
* `FoldersHold` and `NoneOverwritten`: `Placed`, every transfer is in the folder
  `Albums` makes of its file's directory and peer, and then lemmas on names:
  `SanitizedStays` (no host changes a sanitized name), `StorageIs` (nor has
  `compute_storage_path` a slash to strip from one), `PeersApart` (one destination,
  one peer name up to replaced characters), `DiscsApart` (one album and one subpath,
  one directory). That a name's end is well defined (`LastKeptIs`) takes a minimum
  over the naturals, from the well-foundedness of `<`.

* `OutcomeIsHonest`: `Honest`, that a search notes a failure only as it ends, and ends
  so only with nothing found or a row refused, is inductive once the types are known.

`OverlapProofs` proves four more, any number of threads included.

* `NothingStale`, for `Spec`, without any condition. `NoStaleBookkeeping` speaks of moments
  with no poll and no removal under way, and is not inductive. `Tidy` is: an entry
  without a row is of a job that went astray, or of one whose entries some request is
  about to pop.
* `NoTransferOrphaned`, for `ApartSpec`, when listing, cancelling and the table answer, no
  answer of a batch is lost and the bridge is not restarted (`Answering`; slskd may refuse
  batches and peers may fail at will). Jobs may
  share files, so that one request cancels what another one enqueued. `Clean`: whatever
  runs is of a job tracked or purged that no removal is taking away (`Held`), or some
  request owes its cancellation (`Owes`): the file is in its list, and once it has
  looked, so is the id the transfer has.
* `CompletedStays`, for `Spec`, when no two grabs share a file (`Disjoint`: cancelling
  goes by names, so the removal of another job could take a completed one's place
  back). `Assured`: an assured job has every file succeeded and none on its way late, no
  request enqueues or cancels its files, and no poll finds it in any state but completed
  (`Safe`); whoever listed it before would have been seen by `Certain`. Restarts and every
  failure are included.
* `StallsAreReal`, for `ApartSpec`, under `Disjoint` and when the table takes every write and
  no batch is taken late (`Dependable`). Two polls write one watermark
  from listings of two instants, so a watermark may count more than the listing it
  is compared with. `Metered` says what still holds, as long as no retry has reset the
  counts: of two polls' listings of a job one is the later, file by file (`Compared`);
  whatever came after a watermark is one more than it counts, so equal counts mean
  that nothing came (`Marked`); and of a listing that counts no more than the watermark,
  were it the older one, nothing had come since the watermark's instant (`Dated`).

`ApartSpec` restricts behaviours, not states: it forbids the steps into an overlap, and
every theorem about `Spec` carries over to it.

Only model-checked: liveness (`EveryJobConcludes`), as fairness and `ENABLED` are out of
the prover's reach.

## Not modelled

* `query_candidates.py`: regular expressions and Unicode folding of a text; the
  search's control depends only on how many candidates come out.
* `quality.py`, `titles.py`: the label and the title Lidarr displays and parses.
* `nzb.py`, `xml.py` and the JSON of both surfaces: stateless encodings; a payload is
  taken for what it carries.
* Authentication, the category filter, logging and wording.
* Two processes of the bridge on one database file at once, which no deployment
  in the repository has.

## Plan

1. *Whole path*: search, grab and download composed over one store, to relate a
   release named by a search to the job its grab makes.
2. *Delivery below DownloadService*: the attempts of a batch as a refinement of
   `DownloadService`'s one step per batch.
