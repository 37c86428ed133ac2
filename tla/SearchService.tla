---------------------------- MODULE SearchService ----------------------------
(***************************************************************************)
(* The search half of the bridge: domain/search_service.py run by worker   *)
(* threads over slskd and over the table of releases, whose rows Lidarr    *)
(* fetches back by id when it grabs one (GET /indexer/nzb/<id>).           *)
(*                                                                         *)
(* A step of a thread is one call of slskd, one statement on the table,    *)
(* one sleep, or one reading of the clock a decision is taken on.  An      *)
(* offer stands for a (peer, album path) pair: the release made from it    *)
(* and the id derived from it.  What a search finds is slskd's choice; the *)
(* grouping and naming of files are not modelled here.                     *)
(***************************************************************************)
EXTENDS Integers, FiniteSets

CONSTANTS
  Threads,        \* worker threads of the WSGI server
  Offers,         \* what peers offer
  MaxCandidates,  \* most query texts generate_candidates() makes of a query
  Budget,         \* search_budget, the wall clock of one search
  MinWindow,      \* _MIN_SEARCH_WINDOW
  PollInterval,   \* poll_interval
  Enough,         \* enough_results
  TTL,            \* release_ttl_days
  MaxCall,        \* longest call of slskd, and longest collection of an answer
  FaultKinds,     \* which outside failures may happen
  \* Bounds, of the model only:
  MaxClock, MaxFaults

ASSUME SearchAssumption ==
  /\ {MaxCandidates, MinWindow, PollInterval} \subseteq Nat \ {0}
  /\ {Budget, Enough, TTL, MaxCall, MaxClock, MaxFaults} \subseteq Nat
  /\ FaultKinds \subseteq {"slskd", "store"}
  /\ IsFiniteSet(Offers)

VARIABLES
  clock,     \* the time Clock.now() returns
  faults,    \* outside failures so far
  releases,  \* the releases table: offer -> created_at
  named,     \* history: offer -> latest created_at an answer carried to Lidarr
  req        \* what each thread is doing

vars == <<clock, faults, releases, named, req>>

Put(d, k, v) == [x \in DOMAIN d \cup {k} |-> IF x = k THEN v ELSE d[x]]
EmptyDict == [x \in {} |-> 0]

Larger(m, n) == IF m >= n THEN m ELSE n

\* due: the instant the step under way ends at the latest (a sleep: exactly).
Idle == [pc |-> "idle", due |-> 0, start |-> 0, left |-> 0, first |-> TRUE,
         deadline |-> 0, since |-> 0, found |-> {}, at |-> 0,
         seen |-> {}, stamps |-> [o \in Offers |-> 0], fault |-> "none"]

Init ==
  /\ clock = 0 /\ faults = 0
  /\ releases = EmptyDict /\ named = EmptyDict
  /\ req = [t \in Threads |-> Idle]

Fault(kind) == kind \in FaultKinds /\ faults < MaxFaults /\ faults' = faults + 1

\* Thread t's locals become r, and its next step takes at most dt.
Become(t, r, dt) == req' = [req EXCEPT ![t] = [r EXCEPT !.due = clock + dt]]
Leave(t) == req' = [req EXCEPT ![t] = Idle]

\* Time passes unless a step under way has to end.
Tick ==
  /\ clock < MaxClock
  /\ \A t \in Threads : req[t].pc # "idle" => clock < req[t].due
  /\ clock' = clock + 1
  /\ UNCHANGED <<faults, releases, named, req>>

-----------------------------------------------------------------------------
(* search(query): purge, then one candidate text after the other.            *)

\* The cutoff of the purge is read before the table's lock is taken.
SearchBegin(t) ==
  /\ req[t].pc = "idle"
  /\ \E n \in 0..MaxCandidates :
       Become(t, [Idle EXCEPT !.pc = "purge", !.at = clock, !.left = n], MaxCall)
  /\ UNCHANGED <<clock, faults, releases, named>>

\* purge_older_than: rows strictly older than the cutoff go.
Purge(t) ==
  /\ req[t].pc = "purge"
  /\ \/ LET kept == {o \in DOMAIN releases : releases[o] >= req[t].at - TTL} IN
        /\ releases' = [o \in kept |-> releases[o]]
        /\ Become(t, [req[t] EXCEPT !.pc = "plan", !.start = clock], 0)
        /\ UNCHANGED faults
     \/ /\ Fault("store")
        /\ Become(t, [req[t] EXCEPT !.pc = "raise", !.fault = "store"], 0)
        /\ UNCHANGED releases
  /\ UNCHANGED <<clock, named>>

Remaining(t) == Budget - (clock - req[t].start)

StartAnotherAlways(remaining, found) == found < Enough
\* A fallback candidate runs only for want of results and with time to complete.
StartAnother(remaining, found) == found < Enough /\ remaining >= MinWindow

DeadlineWhole(first, remaining) == IF first THEN Larger(remaining, MinWindow) ELSE Budget
\* The primary always runs; the others get what is left.
Deadline(first, remaining) == IF first THEN Larger(remaining, MinWindow) ELSE remaining

\* The head of the loop over the candidates.
NextCandidate(t) ==
  LET left == Remaining(t)
      found == Cardinality(req[t].seen)
      runs == req[t].left > 0 /\ (req[t].first \/ StartAnother(left, found))
  IN
  /\ req[t].pc = "plan"
  /\ IF runs
     THEN Become(t, [req[t] EXCEPT !.pc = "post", !.left = @ - 1, !.first = FALSE,
                                   !.deadline = Deadline(req[t].first, left)], MaxCall)
     ELSE Become(t, [req[t] EXCEPT !.pc = "answer"], 0)
  /\ UNCHANGED <<clock, faults, releases, named>>

\* start_search; the deadline counts from its answer.
StartSearch(t) ==
  /\ req[t].pc = "post"
  /\ Become(t, [req[t] EXCEPT !.pc = "poll", !.since = clock], MaxCall)
  /\ UNCHANGED <<clock, faults, releases, named>>

\* search_is_complete: slskd may say so at any time, or never.
PollComplete(t) ==
  /\ req[t].pc = "poll"
  /\ Become(t, [req[t] EXCEPT !.pc = "fetch"], MaxCall)
  /\ UNCHANGED <<clock, faults, releases, named>>

\* Not complete: sleep, or abandon the search with nothing once it is overdue.
\* (The model's clock has to reach the end of the sleep.)
PollPending(t) ==
  /\ req[t].pc = "poll"
  /\ IF clock - req[t].since >= req[t].deadline
     THEN Become(t, [req[t] EXCEPT !.pc = "plan"], 0)
     ELSE /\ clock + PollInterval <= MaxClock
          /\ Become(t, [req[t] EXCEPT !.pc = "sleep"], PollInterval)
  /\ UNCHANGED <<clock, faults, releases, named>>

Wake(t) ==
  /\ req[t].pc = "sleep" /\ clock = req[t].due
  /\ Become(t, [req[t] EXCEPT !.pc = "poll"], MaxCall)
  /\ UNCHANGED <<clock, faults, releases, named>>

\* search_responses, less the offers this search has seen already.
FetchResponses(t) ==
  /\ req[t].pc = "fetch"
  /\ \E some \in SUBSET (Offers \ req[t].seen) :
       Become(t, [req[t] EXCEPT !.found = some, !.pc = IF some = {} THEN "plan" ELSE "stamp"],
              IF some = {} THEN 0 ELSE MaxCall)
  /\ UNCHANGED <<clock, faults, releases, named>>

SurfacesNever(seen) == FALSE
\* A failed candidate is an error only if nothing has been collected.
Surfaces(seen) == seen = {}

\* Any of a candidate's calls raises.
CandidateFails(t) ==
  /\ req[t].pc \in {"post", "poll", "fetch"}
  /\ Fault("slskd")
  /\ Become(t, [req[t] EXCEPT !.fault = "slskd",
                              !.pc = IF Surfaces(req[t].seen) THEN "raise" ELSE "answer"], 0)
  /\ UNCHANGED <<clock, releases, named>>

-----------------------------------------------------------------------------
(* _collect(responses): each offer is stamped, then stored.                  *)

\* The clock is read into the release before the table's lock is taken.
Stamp(t) ==
  /\ req[t].pc = "stamp"
  /\ req' = [req EXCEPT ![t].pc = "put", ![t].at = clock]
  /\ UNCHANGED <<clock, faults, releases, named>>

PutOrIgnore(o, at) == IF o \in DOMAIN releases THEN releases ELSE Put(releases, o, at)
\* INSERT OR REPLACE.
PutRelease(o, at) == Put(releases, o, at)

\* put(release).  Its failure leaves search() whatever has been collected.
StoreRelease(t) ==
  /\ req[t].pc = "put"
  /\ \/ \E o \in req[t].found :
          LET rest == req[t].found \ {o}
              next == [req[t] EXCEPT !.found = rest, !.seen = @ \cup {o},
                                          !.stamps[o] = req[t].at]
          IN
          /\ releases' = PutRelease(o, req[t].at)
          /\ IF rest = {} THEN Become(t, [next EXCEPT !.pc = "plan"], 0)
                          ELSE req' = [req EXCEPT ![t] = [next EXCEPT !.pc = "stamp"]]
          /\ UNCHANGED faults
     \/ /\ Fault("store")
        /\ Become(t, [req[t] EXCEPT !.pc = "raise", !.fault = "store"], 0)
        /\ UNCHANGED releases
  /\ UNCHANGED <<clock, named>>

\* The releases found go to Lidarr, each with its created_at.
Answer(t) ==
  LET seen == req[t].seen
      before(o) == IF o \in DOMAIN named THEN named[o] ELSE 0
  IN
  /\ req[t].pc = "answer"
  /\ named' = [o \in DOMAIN named \cup seen |->
                 IF o \in seen THEN Larger(before(o), req[t].stamps[o]) ELSE named[o]]
  /\ Leave(t)
  /\ UNCHANGED <<clock, faults, releases>>

\* The exception leaves search(): Lidarr gets an error envelope.
Raise(t) ==
  /\ req[t].pc = "raise"
  /\ Leave(t)
  /\ UNCHANGED <<clock, faults, releases, named>>

-----------------------------------------------------------------------------
Work(t) ==
  \/ Purge(t) \/ NextCandidate(t) \/ StartSearch(t) \/ PollComplete(t) \/ PollPending(t)
  \/ Wake(t) \/ FetchResponses(t) \/ CandidateFails(t) \/ Stamp(t) \/ StoreRelease(t)
  \/ Answer(t) \/ Raise(t)

Next == Tick \/ \E t \in Threads : SearchBegin(t) \/ Work(t)

Spec == Init /\ [][Next]_vars
=============================================================================
