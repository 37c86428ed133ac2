------------------------------ MODULE Delivery ------------------------------
(***************************************************************************)
(* From a peer's answer to its files on slskd's disk: the release that     *)
(* SearchService._collect makes of an album, the batches DownloadService   *)
(* posts for it, and within each the attempts of SlskdGateway.enqueue,     *)
(* which repeats a POST that slskd throttles.                              *)
(*                                                                         *)
(* DownloadService has the rest of a grab's life and makes one step of a   *)
(* batch; here each attempt is a step, an answer may be lost while slskd   *)
(* goes on, and the compensation of a failed grab is one step, of which    *)
(* any part may fail.  No transfer ends here.                              *)
(***************************************************************************)
EXTENDS Albums, FiniteSets

CONSTANTS
  Threads,  \* worker threads, each of which serves one grab
  Answers,  \* what peers may answer
  Retries   \* enqueue_retry_delays: how many times an attempt is repeated

\* Of a file, the code here looks at its name and its directory.
File == [dir : Seq(Name), name : STRING]

ASSUME DeliveryAssumption ==
  /\ Retries \in Nat
  /\ Answers \subseteq [user : Name, files : SUBSET File]

VARIABLES
  call,       \* thread -> the locals of its start() and enqueue()
  transfers,  \* slskd's transfers: [user, file, folder]
  late        \* transfers of a batch whose answer was lost that slskd may yet make

vars == <<call, transfers, late>>

\* _collect: what is stored of an album, and handed back in the payload.
Release(user, group) ==
  [user |-> user,
   destination |-> build_album_destination(AlbumName(group.album_path), user),
   discs |-> group.discs]

Releases == UNION {{Release(a.user, g) : g \in group_files_by_album(a.files)} : a \in Answers}

\* tried: the files of every batch posted; passed: how many attempts of the batch
\* under way got past slskd's limiter; lost: the answer to a batch was lost, or a
\* part of the compensation failed.
NoDisc == [subpath |-> <<>>, files |-> {}]
Idle == [pc |-> "idle", release |-> [user |-> <<>>, destination |-> <<>>, discs |-> {}],
         left |-> {}, disc |-> NoDisc, tries |-> 0, tried |-> {}, passed |-> 0, lost |-> FALSE]

Init ==
  /\ call = [t \in Threads |-> Idle]
  /\ transfers = {} /\ late = {}

\* The transfers a batch asks for.
Batch(t) ==
  LET c == call[t] IN
  {[user |-> c.release.user, file |-> f, folder |-> batch_destination(c.release.destination, c.disc.subpath)]
     : f \in c.disc.files}

\* slskd leaves the transfer it has of a remote file alone.
Has(ts, x) == \E y \in ts : y.user = x.user /\ y.file = x.file
Taking(batch) == transfers \cup {x \in batch : ~Has(transfers, x)}

Become(t, c) == call' = [call EXCEPT ![t] = c]

\* start() on a release's payload: the next disc, or none is left.
Proceed(t, c) ==
  \/ /\ c.left = {}
     /\ Become(t, [c EXCEPT !.pc = "accepted"])
  \/ \E d \in c.left :
       Become(t, [c EXCEPT !.pc = "post", !.disc = d, !.left = @ \ {d}, !.tries = 0,
                           !.passed = 0, !.tried = @ \cup d.files])

Grab(t) ==
  /\ call[t].pc = "idle"
  /\ \E r \in Releases : Proceed(t, [Idle EXCEPT !.release = r, !.left = r.discs])
  /\ UNCHANGED <<transfers, late>>

Statuses == {"201", "207", "200", "429", "error"}

\* What slskd may have taken of a batch under each answer: all of it; a part;
\* nothing; nothing, because its limiter was busy; or any part, unsaid.
Taken(status, batch) ==
  CASE status = "201" -> {batch}
    [] status = "207" -> SUBSET batch \ {{}, batch}
    [] status \in {"200", "429"} -> {{}}
    [] status = "error" -> SUBSET batch

RepeatsAny(status) == status # "201"
\* _post_batch repeats while slskd throttles.
Repeats(status) == status = "429"

SucceedsAny(status) == status \in {"201", "200", "207"}
\* enqueue raises EnqueueError for 200 and 207, and raise_for_status for the rest.
Succeeds(status) == status = "201"

\* One attempt is answered: repeat it, go on to the next disc, or raise.
Answered(t) ==
  \E status \in Statuses : \E taken \in Taken(status, Batch(t)) :
    LET c == [call[t] EXCEPT !.passed = IF status = "429" THEN @ ELSE @ + 1] IN
    /\ call[t].pc = "post"
    /\ transfers' = Taking(taken)
    /\ IF Repeats(status) /\ c.tries < Retries
       THEN Become(t, [c EXCEPT !.tries = @ + 1])
       ELSE IF Succeeds(status) THEN Proceed(t, c) ELSE Become(t, [c EXCEPT !.pc = "raise"])
    /\ UNCHANGED late

\* No answer comes in time; slskd has taken a part and may take the rest.
AnswerLost(t) ==
  \E taken \in SUBSET Batch(t) :
    /\ call[t].pc = "post"
    /\ transfers' = Taking(taken)
    /\ late' = late \cup (Batch(t) \ taken)
    /\ Become(t, [call[t] EXCEPT !.pc = "raise", !.lost = TRUE, !.passed = @ + 1])

Late ==
  \E x \in late :
    /\ late' = late \ {x}
    /\ transfers' = Taking({x})
    /\ UNCHANGED call

CancelledPosted(t) == call[t].tried \ call[t].disc.files
\* _cancel_files(username, attempted): the files of every batch posted.
Cancelled(t) == call[t].tried

\* Of the peer's transfers, those of the grab's files are cancelled, by name: all,
\* or as many as the listing and the cancellations that fail let it.
Compensate(t) ==
  \E cancelled \in SUBSET Cancelled(t) :
    /\ call[t].pc = "raise"
    /\ transfers' = {x \in transfers : x.user # call[t].release.user \/ x.file \notin cancelled}
    /\ Become(t, [call[t] EXCEPT !.pc = "failed", !.lost = @ \/ cancelled # Cancelled(t)])
    /\ UNCHANGED late

Next == Late \/ \E t \in Threads : Grab(t) \/ Answered(t) \/ AnswerLost(t) \/ Compensate(t)

Spec == Init /\ [][Next]_vars

-----------------------------------------------------------------------------
(* What a grab promises.                                                     *)

Accepted(t) == call[t].pc = "accepted"
Failed(t) == call[t].pc = "failed"

FilesOf(release) == UNION {d.files : d \in release.discs}

\* Thread t's grab names this transfer's file.
Names(t, x) == x.user = call[t].release.user /\ x.file \in FilesOf(call[t].release)

Wanted(t) ==
  {[user |-> call[t].release.user, file |-> f] : f \in FilesOf(call[t].release)}

\* A grab that was accepted has every one of its files in slskd, unless another
\* grab that names the file as well was compensated: whatever was throttled,
\* refused in part, or answered 200 for a batch that failed whole
\* (slskd_gateway.py:202-240, download_service.py:86-103, 121-146).
AcceptedIsComplete ==
  \A t \in Threads : Accepted(t) =>
    \A x \in Wanted(t) : Has(transfers, x) \/ \E u \in Threads : Failed(u) /\ Names(u, x)

\* No batch gets past slskd's limiter twice in one call: what slskd may have taken
\* of it is never posted again (slskd_gateway.py:225-240).
PostedOnce == \A t \in Threads : call[t].passed <= 1

\* A grab that failed leaves no transfer behind, of none of its discs: every
\* transfer is named by a grab that has not failed, by one whose answer was lost,
\* for slskd may go on taking files after the compensation has listed them, or by
\* one whose compensation itself failed (download_service.py:65-69, 95-103, 121-146).
NothingLeft ==
  \A x \in transfers : \E t \in Threads : Names(t, x) /\ (call[t].lost \/ ~Failed(t))

\* What slskd makes of one name of a batch's destination, under the system it
\* runs on: its own replacements, and the end of a name that Windows drops.
DiskName(host, s) ==
  IF host = "windows" THEN Stripped(Without(s, InvalidWindows)) ELSE Without(s, InvalidUnix)

\* slskd's downloads directory, without and with a slash at its end.
Downloads == << <<"x">> >>
DownloadsSlash == << <<"x">>, <<>> >>

\* slskd refuses a destination with one of these in it.
Traverses(s) == s \in {<<>>, <<".">>, <<".", ".">>}

\* Every file is where Lidarr is told to look: slskd, on whichever system, takes
\* the folder of every batch and changes nothing of it, and the storage path
\* reported holds it, however its downloads directory is written
\* (paths.py:8-66; slskd_gateway.py:195-210).
ReportedFolderHolds ==
  \A x \in transfers :
    /\ \A i \in DOMAIN x.folder, host \in {"unix", "windows"} :
         ~Traverses(x.folder[i]) /\ DiskName(host, x.folder[i]) = x.folder[i]
    /\ \A t \in Threads : Accepted(t) /\ Names(t, x) =>
         \A d \in {Downloads, DownloadsSlash} :
           SubSeq(Downloads \o x.folder, 1, 2) = compute_storage_path(d, call[t].release.destination)

\* A name nothing has to be replaced in, nor stripped from.
Plain(s) == sanitize_segment(s) = s

SameAlbum(x, y) == x.user = y.user /\ album_root(x.file.dir) = album_root(y.file.dir)

\* Two files of one album never land on each other, whatever their discs, and
\* neither do those of two peers whose album folders have one name, as long as no
\* character has to be replaced to tell the discs, or the peers, apart
\* (paths.py:38-66, albums.py:83-131; the docstring of build_album_destination
\* says so of every peer name).
FilesKeptApart ==
  \A x, y \in transfers :
    x # y /\ x.folder = y.folder /\ x.file.name = y.file.name =>
      /\ SameAlbum(x, y) => ~(\A z \in {x, y} : \A i \in DOMAIN z.file.dir : Plain(z.file.dir[i]))
      /\ x.user # y.user /\ AlbumName(album_root(x.file.dir)) = AlbumName(album_root(y.file.dir))
           => ~(Plain(x.user) /\ Plain(y.user))
=============================================================================
