------------------------- MODULE SearchServiceProofs -------------------------
(* That a search ends in time, and that what it told Lidarr of stays in the  *)
(* table, for every number of threads, offers and candidates, every budget   *)
(* and every failure.                                                        *)
EXTENDS SearchProperties, TLAPS

\* The settings as numbers.
LEMMA Settings ==
  /\ MaxCandidates \in Nat /\ Budget \in Nat /\ TTL \in Nat /\ MaxCall \in Nat /\ Enough \in Nat
  /\ MinWindow \in Nat /\ MinWindow > 0 /\ PollInterval \in Nat /\ PollInterval > 0
BY SearchAssumption

\* The latest instant each point of search() ends at, counted from its start.
Paced(r) ==
  /\ r.pc = "plan" /\ r.first => r.due = r.start
  /\ r.pc \in {"post", "poll", "sleep", "fetch", "stamp", "put"} => ~r.first
  /\ r.pc = "post" => r.due - r.start + r.deadline <= Patience + MaxCall
  /\ r.pc \in {"poll", "sleep"} => r.since - r.start + r.deadline <= Patience + MaxCall
  /\ r.pc = "sleep" => r.due < r.since + r.deadline + PollInterval
  /\ r.pc = "poll" => r.due < r.since + r.deadline + PollInterval + MaxCall
  /\ r.pc = "fetch" => r.due < r.start + Patience + PollInterval + 3 * MaxCall
  /\ r.pc \in {"plan", "stamp", "put", "answer"}
       => r.due < r.start + Patience + PollInterval + 4 * MaxCall

\* No step is overdue, a decision takes no time, and a stamp is stored soon.
OnTime(r) ==
  /\ r.pc # "idle" => clock <= r.due /\ r.at <= clock
  /\ r.pc \in {"plan", "answer"} => r.due <= clock
  /\ r.pc = "stamp" => r.due <= clock + MaxCall
  /\ r.pc = "put" => r.due <= r.at + MaxCall

\* Offer o, sighted at some instant, has a row at most MaxCall older than the
\* sighting for as long as OfferStays asks for one.
Kept(o, sighting) ==
  /\ sighting <= clock
  /\ clock <= sighting + TTL - MaxCall
       => o \in DOMAIN releases /\ releases[o] >= sighting - MaxCall

Sighted(r) == \A o \in r.seen : Kept(o, r.stamps[o])

Remembered == \A o \in DOMAIN named : Kept(o, named[o])

SearchInv ==
  /\ SearchTypeOK
  /\ \A t \in Threads : Paced(req[t]) /\ OnTime(req[t]) /\ Sighted(req[t])
  /\ Remembered

\* The patience of a search is a natural number, no less than the budget.
LEMMA PatienceType == Patience \in Nat /\ Budget <= Patience
BY Settings DEF Patience, Larger

\* A free thread is well-typed and owes nothing.
LEMMA IdleGood == Idle \in Requests /\ Paced(Idle) /\ OnTime(Idle) /\ Sighted(Idle)
BY Settings DEF Idle, Requests, Paced, OnTime, Sighted

\* No search has begun.
LEMMA SearchInit == Init => SearchInv
BY IdleGood DEF Init, SearchInv, SearchTypeOK, IsDict, EmptyDict, Remembered

\* A step that changes the locals of one thread only.
LEMMA ThreadStep ==
  ASSUME SearchInv, NEW t \in Threads, NEW r \in Requests, req' = [req EXCEPT ![t] = r],
         faults' \in Nat, UNCHANGED <<clock, releases, named>>,
         Paced(r), OnTime(r), Sighted(r)
  PROVE  SearchInv'
<1>1. SearchTypeOK'
  BY DEF SearchInv, SearchTypeOK, IsDict
<1>2. \A u \in Threads : req'[u] = IF u = t THEN r ELSE req[u]
  BY DEF SearchInv, SearchTypeOK
<1>3. ASSUME NEW u \in Threads
      PROVE  (Paced(req[u]) /\ OnTime(req[u]) /\ Sighted(req[u]))'
  <2>1. Paced(req'[u]) /\ OnTime(req'[u]) /\ Sighted(req'[u])
    BY <1>2 DEF SearchInv
  <2> QED BY <2>1 DEF Paced, OnTime, Sighted, Kept
<1>4. Remembered'
  BY DEF SearchInv, Remembered, Kept
<1> QED BY <1>1, <1>3, <1>4 DEF SearchInv

\* A step counts one more failure or none.
LEMMA FaultType ==
  ASSUME SearchInv, NEW kind, Fault(kind) \/ UNCHANGED faults
  PROVE  faults' \in Nat
BY DEF Fault, SearchInv, SearchTypeOK

\* What the invariant says of one thread and of the clock.
LEMMA ThreadFacts ==
  ASSUME SearchInv, NEW t \in Threads
  PROVE  /\ req[t] \in Requests /\ Paced(req[t]) /\ OnTime(req[t]) /\ Sighted(req[t])
         /\ clock \in Nat
         /\ \A r, dt : Become(t, r, dt) => req' = [req EXCEPT ![t] = [r EXCEPT !.due = clock + dt]]
BY DEF SearchInv, SearchTypeOK, Become

\* Setting the instant a step is due by changes nothing else.
LEMMA DueFacts ==
  ASSUME NEW r \in Requests, NEW d \in Nat
  PROVE  LET q == [r EXCEPT !.due = d] IN
         /\ q \in Requests
         /\ q.due = d /\ q.pc = r.pc /\ q.start = r.start /\ q.first = r.first
         /\ q.deadline = r.deadline /\ q.since = r.since /\ q.at = r.at
         /\ q.seen = r.seen /\ q.stamps = r.stamps
BY DEF Requests

\* A thread that leaves is free.
LEMMA LeaveStep ==
  ASSUME SearchInv, NEW t \in Threads, Leave(t), UNCHANGED <<clock, faults, releases, named>>
  PROVE  SearchInv'
BY ThreadStep, IdleGood, FaultType DEF Leave, SearchInv, SearchTypeOK

\* A step that sets when the next one is due, and the locals of its thread.
LEMMA BecomeStep ==
  ASSUME SearchInv, NEW t \in Threads, NEW r \in Requests, NEW dt \in Nat, Become(t, r, dt),
         faults' \in Nat, UNCHANGED <<clock, releases, named>>,
         LET q == [r EXCEPT !.due = clock + dt] IN Paced(q) /\ OnTime(q) /\ Sighted(q)
  PROVE  SearchInv'
<1>1. clock + dt \in Nat
  BY ThreadFacts
<1>2. [r EXCEPT !.due = clock + dt] \in Requests
  BY <1>1, DueFacts
<1> QED BY <1>2, ThreadStep DEF Become

\* Time passes only while no step is overdue; old sightings only get older.
LEMMA TickStep == ASSUME SearchInv, Tick PROVE SearchInv'
<1>1. clock \in Nat /\ clock' = clock + 1 /\ UNCHANGED <<faults, releases, named, req>>
  BY DEF Tick, SearchInv, SearchTypeOK
<1>2. SearchTypeOK'
  BY <1>1 DEF SearchInv, SearchTypeOK, IsDict
<1>3. ASSUME NEW o, NEW s \in Nat, Kept(o, s)
      PROVE  Kept(o, s)'
  BY <1>1, <1>3, Settings DEF Kept
<1>4. ASSUME NEW t \in Threads
      PROVE  (Paced(req[t]) /\ OnTime(req[t]) /\ Sighted(req[t]))'
  <2>1. req[t] \in Requests /\ req'[t] = req[t] /\ Paced(req[t]) /\ OnTime(req[t]) /\ Sighted(req[t])
    BY <1>1, ThreadFacts
  <2>2. req[t].pc # "idle" => clock < req[t].due
    BY DEF Tick
  <2>3. (Paced(req[t]) /\ OnTime(req[t]))'
    BY <1>1, <2>1, <2>2, Settings DEF Paced, OnTime, Requests
  <2>4. \A o \in req[t].seen : req[t].stamps[o] \in Nat
    BY <2>1 DEF Requests
  <2>5. Sighted(req[t])'
    BY <1>1, <1>3, <2>1, <2>4 DEF Sighted
  <2> QED BY <2>3, <2>5
<1>5. Remembered'
  BY <1>1, <1>3 DEF SearchInv, SearchTypeOK, IsDict, Remembered
<1> QED BY <1>2, <1>4, <1>5 DEF SearchInv

\* A search begins by reading the cutoff.
LEMMA BeginStep == ASSUME SearchInv, NEW t \in Threads, SearchBegin(t) PROVE SearchInv'
<1>1. PICK n \in 0..MaxCandidates :
        Become(t, [Idle EXCEPT !.pc = "purge", !.at = clock, !.left = n], MaxCall)
  BY DEF SearchBegin
<1> DEFINE r == [Idle EXCEPT !.pc = "purge", !.at = clock, !.left = n]
<1>2. r \in Requests /\ r.pc = "purge" /\ r.at = clock /\ r.seen = {}
  BY ThreadFacts, Settings DEF Idle, Requests
<1> HIDE DEF r
<1> DEFINE q == [r EXCEPT !.due = clock + MaxCall]
<1>3. q.pc = "purge" /\ q.at = clock /\ q.due = clock + MaxCall /\ q.seen = {}
  BY <1>2, ThreadFacts, Settings, DueFacts
<1>4. Paced(q) /\ OnTime(q) /\ Sighted(q)
  BY <1>3, ThreadFacts, Settings DEF Paced, OnTime, Sighted
<1>5. faults' \in Nat /\ UNCHANGED <<clock, releases, named>>
  BY FaultType DEF SearchBegin
<1> QED BY <1>1, <1>2, <1>4, <1>5, BecomeStep, Settings DEF r

\* Any exception leaves the thread with nothing to do but raise.
LEMMA RaiseStep ==
  ASSUME SearchInv, NEW t \in Threads, NEW kind \in {"slskd", "store"}, Fault(kind), req[t].pc # "idle",
         Become(t, [req[t] EXCEPT !.pc = "raise", !.fault = kind], 0),
         UNCHANGED <<clock, releases, named>>
  PROVE  SearchInv'
<1> DEFINE r == [req[t] EXCEPT !.pc = "raise", !.fault = kind]
<1>1. /\ r \in Requests /\ r.pc = "raise" /\ r.at = req[t].at
      /\ r.seen = req[t].seen /\ r.stamps = req[t].stamps
  BY ThreadFacts DEF Requests
<1> HIDE DEF r
<1> DEFINE q == [r EXCEPT !.due = clock + 0]
<1>2. q.pc = "raise" /\ q.at = r.at /\ q.due = clock /\ q.seen = r.seen /\ q.stamps = r.stamps
  BY <1>1, ThreadFacts, DueFacts
<1>3. Paced(q) /\ OnTime(q) /\ Sighted(q)
  BY <1>1, <1>2, ThreadFacts DEF Paced, OnTime, Sighted
<1> QED BY <1>1, <1>3, BecomeStep, FaultType DEF r

\* A step that changes the table, too, but no row still owed to Lidarr.
LEMMA TableStep ==
  ASSUME SearchInv, NEW t \in Threads, NEW r \in Requests, req' = [req EXCEPT ![t] = r],
         UNCHANGED <<clock, faults, named>>, IsDict(releases', Offers, Nat),
         \A o, s : s \in Nat /\ Kept(o, s) => Kept(o, s)',
         Paced(r), OnTime(r), \A o \in r.seen : Kept(o, r.stamps[o])'
  PROVE  SearchInv'
<1>1. SearchTypeOK'
  BY DEF SearchInv, SearchTypeOK, IsDict
<1>2. ASSUME NEW u \in Threads
      PROVE  (Paced(req[u]) /\ OnTime(req[u]) /\ Sighted(req[u]))'
  <2>1. req'[u] = IF u = t THEN r ELSE req[u]
    BY DEF SearchInv, SearchTypeOK
  <2>2. Paced(req'[u]) /\ OnTime(req'[u])
    BY <2>1, ThreadFacts
  <2>3. (Paced(req[u]) /\ OnTime(req[u]))'
    BY <2>2 DEF Paced, OnTime
  <2>4. ASSUME u # t, NEW o \in req[u].seen
        PROVE  Kept(o, req[u].stamps[o])'
    <3>1. req[u].stamps[o] \in Nat /\ Kept(o, req[u].stamps[o]) /\ req'[u] = req[u]
      BY <2>1, <2>4, ThreadFacts DEF Requests, Sighted
    <3>2. \A s : s = req[u].stamps[o] => s \in Nat /\ Kept(o, s)
      BY <3>1
    <3>3. PICK s \in Nat : s = req[u].stamps[o] /\ Kept(o, s)'
      BY <3>1, <3>2
    <3> QED BY <3>1, <3>3 DEF Kept
  <2>5. Sighted(req[u])'
    BY <2>1, <2>4 DEF Sighted, Kept
  <2> QED BY <2>3, <2>5
<1>3. Remembered'
  <2>1. \A o \in DOMAIN named : named[o] \in Nat /\ Kept(o, named[o])
    BY DEF SearchInv, SearchTypeOK, IsDict, Remembered
  <2> QED BY <2>1 DEF Remembered, Kept
<1> QED BY <1>1, <1>2, <1>3 DEF SearchInv

\* The purge drops only rows older than any sighting still owed a row.
LEMMA PurgeStep == ASSUME SearchInv, NEW t \in Threads, Purge(t) PROVE SearchInv'
<1> DEFINE kept == {o \in DOMAIN releases : releases[o] >= req[t].at - TTL}
<1>1. CASE /\ Fault("store") /\ UNCHANGED releases
           /\ Become(t, [req[t] EXCEPT !.pc = "raise", !.fault = "store"], 0)
  <2>1. req[t].pc # "idle" /\ UNCHANGED <<clock, named>>
    BY DEF Purge
  <2> QED BY <1>1, <2>1, RaiseStep
<1>2. CASE /\ releases' = [o \in kept |-> releases[o]]
           /\ Become(t, [req[t] EXCEPT !.pc = "plan", !.start = clock], 0)
           /\ UNCHANGED faults
  <2> DEFINE r == [req[t] EXCEPT !.pc = "plan", !.start = clock]
  <2>1. /\ r \in Requests /\ r.pc = "plan" /\ r.start = clock /\ r.at = req[t].at
        /\ r.seen = req[t].seen /\ r.stamps = req[t].stamps
    BY ThreadFacts DEF Requests
  <2> HIDE DEF r
  <2> DEFINE q == [r EXCEPT !.due = clock + 0]
  <2>2. /\ q \in Requests /\ q.pc = "plan" /\ q.due = clock /\ q.start = clock /\ q.at = req[t].at
        /\ q.seen = req[t].seen /\ q.stamps = req[t].stamps
    BY <2>1, ThreadFacts, DueFacts
  <2>3. req[t].pc = "purge" /\ req[t].at <= clock /\ req[t].at \in Nat /\ UNCHANGED <<clock, named>>
    BY ThreadFacts DEF Purge, OnTime, Requests
  <2>4. PICK w \in Requests : w = q
    BY <2>2
  <2>5. Paced(w) /\ OnTime(w)
    BY <2>2, <2>3, <2>4, ThreadFacts, PatienceType, Settings DEF Paced, OnTime
  <2>6. IsDict(releases, Offers, Nat)
    BY DEF SearchInv, SearchTypeOK
  <2>7. ASSUME NEW o, NEW s \in Nat, Kept(o, s)
        PROVE  Kept(o, s)'
    BY <1>2, <2>3, <2>6, <2>7, ThreadFacts, Settings DEF Kept, IsDict
  <2>8. \A o \in w.seen : w.stamps[o] \in Nat /\ Kept(o, w.stamps[o])
    BY <2>2, <2>4, ThreadFacts DEF Sighted, Requests
  <2>9. \A o \in w.seen : Kept(o, w.stamps[o])'
    BY <2>7, <2>8
  <2>10. req' = [req EXCEPT ![t] = w] /\ IsDict(releases', Offers, Nat)
    <3>1. req' = [req EXCEPT ![t] = q]
      BY <1>2 DEF Become, r
    <3>2. IsDict(releases', Offers, Nat)
      BY <1>2, <2>6 DEF IsDict
    <3> QED BY <2>4, <3>1, <3>2
  <2> QED BY <1>2, <2>3, <2>5, <2>7, <2>9, <2>10, TableStep
<1> QED BY <1>1, <1>2 DEF Purge

\* The deadline counts from the answer of the POST: since is at most its due.
LEMMA StartStep == ASSUME SearchInv, NEW t \in Threads, StartSearch(t) PROVE SearchInv'
<1> DEFINE r == [req[t] EXCEPT !.pc = "poll", !.since = clock]
<1>1. /\ Become(t, r, MaxCall) /\ faults' \in Nat /\ UNCHANGED <<clock, releases, named>>
      /\ req[t].pc = "post"
  BY FaultType DEF StartSearch
<1>2. /\ r \in Requests /\ r.start = req[t].start /\ r.at = req[t].at /\ r.first = req[t].first
      /\ r.seen = req[t].seen /\ r.stamps = req[t].stamps
      /\ r.pc = "poll" /\ r.since = clock /\ r.deadline = req[t].deadline
  BY <1>1, ThreadFacts DEF Requests
<1> HIDE DEF r
<1> DEFINE q == [r EXCEPT !.due = clock + MaxCall]
<1>3. /\ q.pc = r.pc /\ q.due = clock + MaxCall /\ q.start = r.start /\ q.deadline = r.deadline
      /\ q.since = r.since /\ q.first = r.first /\ q.at = r.at /\ q.seen = r.seen /\ q.stamps = r.stamps
  BY <1>2, ThreadFacts, DueFacts, Settings
<1>4. Paced(q) /\ OnTime(q) /\ Sighted(q)
  BY <1>1, <1>2, <1>3, ThreadFacts, PatienceType, Settings DEF Paced, OnTime, Sighted, Requests
<1> QED BY <1>1, <1>2, <1>4, BecomeStep, Settings

\* A search found complete is fetched.
LEMMA CompleteStep == ASSUME SearchInv, NEW t \in Threads, PollComplete(t) PROVE SearchInv'
<1> DEFINE r == [req[t] EXCEPT !.pc = "fetch"]
<1>1. /\ Become(t, r, MaxCall) /\ faults' \in Nat /\ UNCHANGED <<clock, releases, named>>
      /\ req[t].pc = "poll"
  BY FaultType DEF PollComplete
<1>2. /\ r \in Requests /\ r.start = req[t].start /\ r.at = req[t].at /\ r.first = req[t].first
      /\ r.seen = req[t].seen /\ r.stamps = req[t].stamps
      /\ r.pc = "fetch"
  BY <1>1, ThreadFacts DEF Requests
<1> HIDE DEF r
<1> DEFINE q == [r EXCEPT !.due = clock + MaxCall]
<1>3. /\ q.pc = r.pc /\ q.due = clock + MaxCall /\ q.start = r.start /\ q.deadline = r.deadline
      /\ q.since = r.since /\ q.first = r.first /\ q.at = r.at /\ q.seen = r.seen /\ q.stamps = r.stamps
  BY <1>2, ThreadFacts, DueFacts, Settings
<1>4. Paced(q) /\ OnTime(q) /\ Sighted(q)
  BY <1>1, <1>2, <1>3, ThreadFacts, PatienceType, Settings DEF Paced, OnTime, Sighted, Requests
<1> QED BY <1>1, <1>2, <1>4, BecomeStep, Settings

\* The sleep is over.
LEMMA WakeStep == ASSUME SearchInv, NEW t \in Threads, Wake(t) PROVE SearchInv'
<1> DEFINE r == [req[t] EXCEPT !.pc = "poll"]
<1>1. /\ Become(t, r, MaxCall) /\ faults' \in Nat /\ UNCHANGED <<clock, releases, named>>
      /\ req[t].pc = "sleep"
  BY FaultType DEF Wake
<1>2. /\ r \in Requests /\ r.start = req[t].start /\ r.at = req[t].at /\ r.first = req[t].first
      /\ r.seen = req[t].seen /\ r.stamps = req[t].stamps
      /\ r.pc = "poll" /\ r.since = req[t].since /\ r.deadline = req[t].deadline
  BY <1>1, ThreadFacts DEF Requests
<1> HIDE DEF r
<1> DEFINE q == [r EXCEPT !.due = clock + MaxCall]
<1>3. /\ q.pc = r.pc /\ q.due = clock + MaxCall /\ q.start = r.start /\ q.deadline = r.deadline
      /\ q.since = r.since /\ q.first = r.first /\ q.at = r.at /\ q.seen = r.seen /\ q.stamps = r.stamps
  BY <1>2, ThreadFacts, DueFacts, Settings
<1>4. Paced(q) /\ OnTime(q) /\ Sighted(q)
  BY <1>1, <1>2, <1>3, ThreadFacts, PatienceType, Settings DEF Paced, OnTime, Sighted, Requests
<1> QED BY <1>1, <1>2, <1>4, BecomeStep, Settings

\* An overdue search is abandoned within the budget, the others sleep within it.
LEMMA PendingStep == ASSUME SearchInv, NEW t \in Threads, PollPending(t) PROVE SearchInv'
<1>1. req[t].pc = "poll" /\ faults' \in Nat /\ UNCHANGED <<clock, releases, named>>
  BY FaultType DEF PollPending
<1>2. CASE Become(t, [req[t] EXCEPT !.pc = "plan"], 0)
  <2> DEFINE r == [req[t] EXCEPT !.pc = "plan"]
  <2>1. /\ r \in Requests /\ r.start = req[t].start /\ r.at = req[t].at /\ r.first = req[t].first
        /\ r.seen = req[t].seen /\ r.stamps = req[t].stamps
        /\ r.pc = "plan"
    BY <1>1, <1>2, ThreadFacts DEF Requests
  <2> HIDE DEF r
  <2> DEFINE q == [r EXCEPT !.due = clock + 0]
  <2>2. /\ q.pc = r.pc /\ q.due = clock + 0 /\ q.start = r.start /\ q.deadline = r.deadline
        /\ q.since = r.since /\ q.first = r.first /\ q.at = r.at /\ q.seen = r.seen /\ q.stamps = r.stamps
    BY <2>1, ThreadFacts, DueFacts, Settings
  <2>3. Paced(q) /\ OnTime(q) /\ Sighted(q)
    BY <1>1, <1>2, <2>1, <2>2, ThreadFacts, PatienceType, Settings DEF Paced, OnTime, Sighted, Requests
  <2> QED BY <1>1, <1>2, <2>1, <2>3, BecomeStep, Settings DEF r
<1>3. CASE clock - req[t].since < req[t].deadline /\ Become(t, [req[t] EXCEPT !.pc = "sleep"], PollInterval)
  <2> DEFINE r == [req[t] EXCEPT !.pc = "sleep"]
  <2>1. /\ r \in Requests /\ r.start = req[t].start /\ r.at = req[t].at /\ r.first = req[t].first
        /\ r.seen = req[t].seen /\ r.stamps = req[t].stamps
        /\ r.pc = "sleep" /\ r.since = req[t].since /\ r.deadline = req[t].deadline
    BY <1>1, <1>3, ThreadFacts DEF Requests
  <2> HIDE DEF r
  <2> DEFINE q == [r EXCEPT !.due = clock + PollInterval]
  <2>2. /\ q.pc = r.pc /\ q.due = clock + PollInterval /\ q.start = r.start /\ q.deadline = r.deadline
        /\ q.since = r.since /\ q.first = r.first /\ q.at = r.at /\ q.seen = r.seen /\ q.stamps = r.stamps
    BY <2>1, ThreadFacts, DueFacts, Settings
  <2>3. Paced(q) /\ OnTime(q) /\ Sighted(q)
    BY <1>1, <1>3, <2>1, <2>2, ThreadFacts, PatienceType, Settings DEF Paced, OnTime, Sighted, Requests
  <2> QED BY <1>1, <1>3, <2>1, <2>3, BecomeStep, Settings DEF r
<1>4. req[t].since \in Nat /\ req[t].deadline \in Nat /\ clock \in Nat
  BY ThreadFacts DEF Requests
<1> QED BY <1>2, <1>3, <1>4 DEF PollPending

\* A failed candidate's search raises, or answers at once with what it has.
LEMMA FailStep == ASSUME SearchInv, NEW t \in Threads, CandidateFails(t) PROVE SearchInv'
<1>1. /\ req[t].pc \in {"post", "poll", "fetch"} /\ Fault("slskd") /\ faults' \in Nat
      /\ UNCHANGED <<clock, releases, named>>
  BY FaultType DEF CandidateFails
<1>2. CASE Become(t, [req[t] EXCEPT !.fault = "slskd", !.pc = "answer"], 0)
  <2> DEFINE r == [req[t] EXCEPT !.fault = "slskd", !.pc = "answer"]
  <2>1. /\ r \in Requests /\ r.start = req[t].start /\ r.at = req[t].at /\ r.first = req[t].first
        /\ r.seen = req[t].seen /\ r.stamps = req[t].stamps
        /\ r.pc = "answer"
    BY <1>1, <1>2, ThreadFacts DEF Requests
  <2> HIDE DEF r
  <2> DEFINE q == [r EXCEPT !.due = clock + 0]
  <2>2. /\ q.pc = r.pc /\ q.due = clock + 0 /\ q.start = r.start /\ q.deadline = r.deadline
        /\ q.since = r.since /\ q.first = r.first /\ q.at = r.at /\ q.seen = r.seen /\ q.stamps = r.stamps
    BY <2>1, ThreadFacts, DueFacts, Settings
  <2>3. Paced(q) /\ OnTime(q) /\ Sighted(q)
    BY <1>1, <1>2, <2>1, <2>2, ThreadFacts, PatienceType, Settings DEF Paced, OnTime, Sighted, Requests
  <2> QED BY <1>1, <1>2, <2>1, <2>3, BecomeStep, Settings DEF r
<1>3. CASE Become(t, [req[t] EXCEPT !.fault = "slskd", !.pc = "raise"], 0)
  <2> DEFINE r == [req[t] EXCEPT !.fault = "slskd", !.pc = "raise"]
  <2>1. /\ r \in Requests /\ r.start = req[t].start /\ r.at = req[t].at /\ r.first = req[t].first
        /\ r.seen = req[t].seen /\ r.stamps = req[t].stamps
        /\ r.pc = "raise"
    BY <1>1, <1>3, ThreadFacts DEF Requests
  <2> HIDE DEF r
  <2> DEFINE q == [r EXCEPT !.due = clock + 0]
  <2>2. /\ q.pc = r.pc /\ q.due = clock + 0 /\ q.start = r.start /\ q.deadline = r.deadline
        /\ q.since = r.since /\ q.first = r.first /\ q.at = r.at /\ q.seen = r.seen /\ q.stamps = r.stamps
    BY <2>1, ThreadFacts, DueFacts, Settings
  <2>3. Paced(q) /\ OnTime(q) /\ Sighted(q)
    BY <1>1, <1>3, <2>1, <2>2, ThreadFacts, PatienceType, Settings DEF Paced, OnTime, Sighted, Requests
  <2> QED BY <1>1, <1>3, <2>1, <2>3, BecomeStep, Settings DEF r
<1> QED BY <1>2, <1>3 DEF CandidateFails

\* A candidate gets the budget that is left, the primary at least its floor.
LEMMA CandidateStep == ASSUME SearchInv, NEW t \in Threads, NextCandidate(t) PROVE SearchInv'
<1>1. /\ req[t].pc = "plan" /\ faults' \in Nat /\ UNCHANGED <<clock, releases, named>>
      /\ clock = req[t].due
  BY FaultType, ThreadFacts DEF NextCandidate, OnTime, Requests
<1> DEFINE left == Remaining(t)
           deadline == Deadline(req[t].first, left)
<1>2. CASE /\ req[t].left > 0
           /\ req[t].first \/ StartAnother(left, Cardinality(req[t].seen))
           /\ Become(t, [req[t] EXCEPT !.pc = "post", !.left = @ - 1, !.first = FALSE, !.deadline = deadline], MaxCall)
  <2>0. /\ req[t].left - 1 \in 0..MaxCandidates
        /\ deadline \in Nat /\ clock - req[t].start + deadline <= Patience
    BY <1>1, <1>2, ThreadFacts, PatienceType, Settings
    DEF Remaining, Deadline, StartAnother, Larger, Patience, Paced, Requests
  <2> HIDE DEF deadline, left
  <2> DEFINE r == [req[t] EXCEPT !.pc = "post", !.left = @ - 1, !.first = FALSE, !.deadline = deadline]
  <2>1. /\ r \in Requests /\ r.start = req[t].start /\ r.at = req[t].at
        /\ r.seen = req[t].seen /\ r.stamps = req[t].stamps
        /\ r.pc = "post" /\ r.deadline = deadline /\ r.first = FALSE
    BY <1>1, <1>2, <2>0, ThreadFacts DEF Requests
  <2> HIDE DEF r
  <2> DEFINE q == [r EXCEPT !.due = clock + MaxCall]
  <2>2. /\ q.pc = r.pc /\ q.due = clock + MaxCall /\ q.start = r.start /\ q.deadline = r.deadline
        /\ q.since = r.since /\ q.first = r.first /\ q.at = r.at /\ q.seen = r.seen /\ q.stamps = r.stamps
    BY <2>1, ThreadFacts, DueFacts, Settings
  <2>3. Paced(q) /\ OnTime(q) /\ Sighted(q)
    BY <1>1, <1>2, <2>0, <2>1, <2>2, ThreadFacts, PatienceType, Settings DEF Paced, OnTime, Sighted, Requests
  <2> QED BY <1>1, <1>2, <2>0, <2>1, <2>3, BecomeStep, Settings DEF r
<1>3. CASE Become(t, [req[t] EXCEPT !.pc = "answer"], 0)
  <2> DEFINE r == [req[t] EXCEPT !.pc = "answer"]
  <2>1. /\ r \in Requests /\ r.start = req[t].start /\ r.at = req[t].at /\ r.first = req[t].first
        /\ r.seen = req[t].seen /\ r.stamps = req[t].stamps
        /\ r.pc = "answer"
    BY <1>1, <1>3, ThreadFacts DEF Requests
  <2> HIDE DEF r
  <2> DEFINE q == [r EXCEPT !.due = clock + 0]
  <2>2. /\ q.pc = r.pc /\ q.due = clock + 0 /\ q.start = r.start /\ q.deadline = r.deadline
        /\ q.since = r.since /\ q.first = r.first /\ q.at = r.at /\ q.seen = r.seen /\ q.stamps = r.stamps
    BY <2>1, ThreadFacts, DueFacts, Settings
  <2>3. Paced(q) /\ OnTime(q) /\ Sighted(q)
    BY <1>1, <1>3, <2>1, <2>2, ThreadFacts, PatienceType, Settings DEF Paced, OnTime, Sighted, Requests
  <2> QED BY <1>1, <1>3, <2>1, <2>3, BecomeStep, Settings DEF r
<1> QED BY <1>2, <1>3 DEF NextCandidate

\* The answer of slskd is collected, unless there is nothing new in it.
LEMMA FetchStep == ASSUME SearchInv, NEW t \in Threads, FetchResponses(t) PROVE SearchInv'
<1>1. req[t].pc = "fetch" /\ faults' \in Nat /\ UNCHANGED <<clock, releases, named>>
  BY FaultType DEF FetchResponses
<1>2. PICK some \in SUBSET (Offers \ req[t].seen) :
        Become(t, [req[t] EXCEPT !.found = some, !.pc = IF some = {} THEN "plan" ELSE "stamp"],
               IF some = {} THEN 0 ELSE MaxCall)
  BY DEF FetchResponses
<1>3. CASE some = {} /\ Become(t, [req[t] EXCEPT !.found = some, !.pc = "plan"], 0)
  <2> DEFINE r == [req[t] EXCEPT !.found = some, !.pc = "plan"]
  <2>1. /\ r \in Requests /\ r.start = req[t].start /\ r.at = req[t].at /\ r.first = req[t].first
        /\ r.seen = req[t].seen /\ r.stamps = req[t].stamps
        /\ r.pc = "plan"
    BY <1>1, <1>3, ThreadFacts DEF Requests
  <2> HIDE DEF r
  <2> DEFINE q == [r EXCEPT !.due = clock + 0]
  <2>2. /\ q.pc = r.pc /\ q.due = clock + 0 /\ q.start = r.start /\ q.deadline = r.deadline
        /\ q.since = r.since /\ q.first = r.first /\ q.at = r.at /\ q.seen = r.seen /\ q.stamps = r.stamps
    BY <2>1, ThreadFacts, DueFacts, Settings
  <2>3. Paced(q) /\ OnTime(q) /\ Sighted(q)
    BY <1>1, <1>3, <2>1, <2>2, ThreadFacts, PatienceType, Settings DEF Paced, OnTime, Sighted, Requests
  <2> QED BY <1>1, <1>3, <2>1, <2>3, BecomeStep, Settings DEF r
<1>4. CASE Become(t, [req[t] EXCEPT !.found = some, !.pc = "stamp"], MaxCall)
  <2> DEFINE r == [req[t] EXCEPT !.found = some, !.pc = "stamp"]
  <2>1. /\ r \in Requests /\ r.start = req[t].start /\ r.at = req[t].at /\ r.first = req[t].first
        /\ r.seen = req[t].seen /\ r.stamps = req[t].stamps
        /\ r.pc = "stamp"
    BY <1>1, <1>4, ThreadFacts DEF Requests
  <2> HIDE DEF r
  <2> DEFINE q == [r EXCEPT !.due = clock + MaxCall]
  <2>2. /\ q.pc = r.pc /\ q.due = clock + MaxCall /\ q.start = r.start /\ q.deadline = r.deadline
        /\ q.since = r.since /\ q.first = r.first /\ q.at = r.at /\ q.seen = r.seen /\ q.stamps = r.stamps
    BY <2>1, ThreadFacts, DueFacts, Settings
  <2>3. Paced(q) /\ OnTime(q) /\ Sighted(q)
    BY <1>1, <1>4, <2>1, <2>2, ThreadFacts, PatienceType, Settings DEF Paced, OnTime, Sighted, Requests
  <2> QED BY <1>1, <1>4, <2>1, <2>3, BecomeStep, Settings DEF r
<1> QED BY <1>2, <1>3, <1>4

\* The stamp is read within MaxCall of the store.
LEMMA StampStep == ASSUME SearchInv, NEW t \in Threads, Stamp(t) PROVE SearchInv'
<1> DEFINE r == [req[t] EXCEPT !.pc = "put", !.at = clock]
<1>1. req[t].pc = "stamp" /\ req' = [req EXCEPT ![t] = r] /\ faults' \in Nat /\ UNCHANGED <<clock, releases, named>>
  BY FaultType DEF Stamp, SearchInv, SearchTypeOK
<1>2. /\ r \in Requests /\ r.pc = "put" /\ r.at = clock /\ r.due = req[t].due /\ r.start = req[t].start
      /\ r.first = req[t].first /\ r.seen = req[t].seen /\ r.stamps = req[t].stamps
  BY ThreadFacts DEF Requests
<1>3. Paced(r) /\ OnTime(r) /\ Sighted(r)
  BY <1>1, <1>2, ThreadFacts, Settings DEF Paced, OnTime, Sighted, Requests
<1> QED BY <1>1, <1>2, <1>3, ThreadStep

\* The row stored is no older than MaxCall, hence than any sighting by more.
LEMMA StoreStep == ASSUME SearchInv, NEW t \in Threads, StoreRelease(t) PROVE SearchInv'
<1>0. req[t].pc = "put" /\ UNCHANGED <<clock, named>>
  BY DEF StoreRelease
<1>1. /\ req[t].pc = "put" /\ UNCHANGED <<clock, named>>
      /\ clock \in Nat /\ req[t].at \in Nat /\ req[t].due \in Nat
      /\ req[t].at <= clock /\ clock <= req[t].at + MaxCall
  BY <1>0, ThreadFacts, Settings DEF OnTime, Requests
<1>2. CASE /\ Fault("store") /\ UNCHANGED releases
           /\ Become(t, [req[t] EXCEPT !.pc = "raise", !.fault = "store"], 0)
  BY <1>1, <1>2, RaiseStep
<1>3. ASSUME NEW o \in req[t].found, NEW q \in Requests,
             req' = [req EXCEPT ![t] = q], releases' = Put(releases, o, req[t].at), UNCHANGED faults,
             Paced(q), OnTime(q), q.seen = req[t].seen \cup {o},
             q.stamps = [req[t].stamps EXCEPT ![o] = req[t].at]
      PROVE  SearchInv'
  <2>1. o \in Offers /\ IsDict(releases, Offers, Nat)
    BY ThreadFacts DEF SearchInv, SearchTypeOK, Requests
  <2>2. IsDict(releases', Offers, Nat) /\ releases'[o] = req[t].at /\ o \in DOMAIN releases'
    BY <1>1, <1>3, <2>1 DEF IsDict, Put
  <2>3. ASSUME NEW x, NEW s \in Nat, Kept(x, s)
        PROVE  Kept(x, s)'
    BY <1>1, <1>3, <2>1, <2>2, <2>3, Settings DEF Kept, IsDict, Put
  <2>4. ASSUME NEW x \in q.seen
        PROVE  Kept(x, q.stamps[x])'
    <3>1. req[t].stamps \in [Offers -> Nat] /\ req[t].seen \subseteq Offers
      BY ThreadFacts DEF Requests
    <3>2. CASE x = o
      <4>1. q.stamps[x] = req[t].at
        BY <1>3, <2>1, <3>1, <3>2
      <4> QED BY <1>1, <2>2, <3>2, <4>1, Settings DEF Kept
    <3>3. CASE x # o
      <4>1. q.stamps[x] \in Nat /\ Kept(x, q.stamps[x])
        BY <1>3, <3>1, <3>3, ThreadFacts DEF Sighted
      <4> QED BY <2>3, <4>1
    <3> QED BY <3>2, <3>3
  <2> QED BY <1>1, <1>3, <2>2, <2>3, <2>4, TableStep
<1>4. ASSUME NEW o \in req[t].found, releases' = PutRelease(o, req[t].at), UNCHANGED faults,
             LET rest == req[t].found \ {o}
                 next == [req[t] EXCEPT !.found = rest, !.seen = @ \cup {o}, !.stamps[o] = req[t].at]
             IN  \/ Become(t, [next EXCEPT !.pc = "plan"], 0)
                 \/ req' = [req EXCEPT ![t] = [next EXCEPT !.pc = "stamp"]]
      PROVE  SearchInv'
  <2> DEFINE rest == req[t].found \ {o}
             next == [req[t] EXCEPT !.found = rest, !.seen = @ \cup {o}, !.stamps[o] = req[t].at]
  <2>1. o \in Offers /\ rest \in SUBSET Offers /\ releases' = Put(releases, o, req[t].at)
    BY <1>4, ThreadFacts DEF Requests, PutRelease
  <2>2. /\ next \in Requests /\ next.pc = "put" /\ next.start = req[t].start /\ next.first = req[t].first
        /\ next.due = req[t].due /\ next.at = req[t].at /\ next.seen = req[t].seen \cup {o}
        /\ next.stamps = [req[t].stamps EXCEPT ![o] = req[t].at]
    BY <1>1, <2>1, ThreadFacts DEF Requests
  <2> HIDE DEF next, rest
  <2> DEFINE again == [next EXCEPT !.pc = "stamp"]
             ended == [next EXCEPT !.pc = "plan"]
  <2>3. CASE req' = [req EXCEPT ![t] = again]
    <3>1. /\ again \in Requests /\ again.pc = "stamp" /\ again.start = next.start /\ again.first = next.first
          /\ again.due = next.due /\ again.at = next.at /\ again.seen = next.seen /\ again.stamps = next.stamps
      BY <2>2 DEF Requests
    <3>2. Paced(again) /\ OnTime(again)
      BY <1>1, <2>2, <3>1, ThreadFacts, Settings DEF Paced, OnTime, Requests
    <3> QED BY <1>3, <1>4, <2>1, <2>2, <2>3, <3>1, <3>2
  <2>4. CASE Become(t, ended, 0)
    <3>1. /\ ended \in Requests /\ ended.pc = "plan" /\ ended.start = next.start /\ ended.first = next.first
          /\ ended.at = next.at /\ ended.seen = next.seen /\ ended.stamps = next.stamps
      BY <2>2 DEF Requests
    <3> HIDE DEF ended
    <3> DEFINE q == [ended EXCEPT !.due = clock + 0]
    <3>2. /\ q \in Requests /\ q.pc = "plan" /\ q.start = req[t].start /\ q.first = req[t].first /\ q.due = clock
          /\ q.at = req[t].at /\ q.seen = next.seen /\ q.stamps = next.stamps
      BY <2>2, <3>1, ThreadFacts, DueFacts
    <3>3. req' = [req EXCEPT ![t] = q]
      BY <2>4 DEF Become
    <3> HIDE DEF q
    <3>4. /\ ~req[t].first /\ req[t].start \in Nat
          /\ clock < req[t].start + Patience + PollInterval + 4 * MaxCall
      BY <1>1, ThreadFacts, PatienceType, Settings DEF Paced, OnTime, Requests
    <3>5. Paced(q) /\ OnTime(q)
      BY <1>1, <3>2, <3>4 DEF Paced, OnTime
    <3> QED BY <1>3, <1>4, <2>1, <2>2, <3>2, <3>3, <3>5
  <2> QED BY <1>4, <2>3, <2>4 DEF next, rest
<1> QED BY <1>2, <1>4 DEF StoreRelease

\* The answer names what the search itself has sighted.
LEMMA AnswerStep == ASSUME SearchInv, NEW t \in Threads, Answer(t) PROVE SearchInv'
<1> DEFINE seen == req[t].seen
           before(o) == IF o \in DOMAIN named THEN named[o] ELSE 0
<1>1. /\ named' = [o \in DOMAIN named \cup seen |->
                     IF o \in seen THEN Larger(before(o), req[t].stamps[o]) ELSE named[o]]
      /\ req' = [req EXCEPT ![t] = Idle] /\ UNCHANGED <<clock, faults, releases>>
  BY DEF Answer, Leave
<1>2. /\ IsDict(named, Offers, Nat) /\ seen \subseteq Offers /\ req[t].stamps \in [Offers -> Nat]
      /\ \A o \in seen : Kept(o, req[t].stamps[o])
      /\ \A o \in DOMAIN named : Kept(o, named[o])
  BY ThreadFacts DEF SearchInv, SearchTypeOK, Requests, Sighted, Remembered
<1>3. \A o \in DOMAIN named' : o \in Offers /\ named'[o] \in Nat /\ Kept(o, named'[o])
  BY <1>1, <1>2, ThreadFacts DEF IsDict, Larger, Kept
<1>4. Remembered'
  BY <1>1, <1>3 DEF Remembered, Kept
<1>5. SearchTypeOK'
  BY <1>1, <1>3, IdleGood DEF SearchInv, SearchTypeOK, IsDict
<1>6. ASSUME NEW u \in Threads
      PROVE  (Paced(req[u]) /\ OnTime(req[u]) /\ Sighted(req[u]))'
  <2>1. Paced(req'[u]) /\ OnTime(req'[u]) /\ Sighted(req'[u])
    BY <1>1, IdleGood DEF SearchInv, SearchTypeOK
  <2> QED BY <1>1, <2>1 DEF Paced, OnTime, Sighted, Kept
<1> QED BY <1>4, <1>5, <1>6 DEF SearchInv

\* Every step of the specification keeps the invariant.
LEMMA SearchStep == SearchInv /\ [Next]_vars => SearchInv'
<1> SUFFICES ASSUME SearchInv, [Next]_vars PROVE SearchInv'
  OBVIOUS
<1>1. CASE Tick
  BY <1>1, TickStep
<1>2. ASSUME NEW t \in Threads, SearchBegin(t) \/ Work(t) PROVE SearchInv'
  <2>1. CASE Raise(t)
    BY <2>1, LeaveStep DEF Raise
  <2> QED BY <1>2, <2>1, BeginStep, PurgeStep, CandidateStep, StartStep, CompleteStep, PendingStep,
             WakeStep, FetchStep, FailStep, StampStep, StoreStep, AnswerStep DEF Work
<1>3. CASE UNCHANGED vars
  BY <1>3 DEF vars, SearchInv, SearchTypeOK, IsDict, Paced, OnTime, Sighted, Remembered, Kept
<1> QED BY <1>1, <1>2, <1>3 DEF Next

\* The pace of every search, and the rows its sightings are owed, are invariant.
THEOREM SearchInvariant == Spec => []SearchInv
BY SearchInit, SearchStep, PTL DEF Spec

\* Every variable keeps its type: no candidate gets a negative deadline.
THEOREM SearchTypeCorrect == Spec => []SearchTypeOK
<1>1. SearchInv => SearchTypeOK
  BY DEF SearchInv
<1> QED BY <1>1, SearchInvariant, PTL

\* Whatever slskd answers, refuses or never completes, and however many
\* candidates a query has, a search ends within the budget and the overrun of
\* its last candidate.
THEOREM SearchEndsInTime == Spec => []SearchInTime
<1>1. SearchInv => SearchInTime
  <2> SUFFICES ASSUME SearchInv, NEW t \in Threads, req[t].pc \notin {"idle", "purge", "raise"}
               PROVE  clock - req[t].start < Patience + PollInterval + 4 * MaxCall
    BY DEF SearchInTime
  <2> QED BY ThreadFacts, PatienceType, Settings DEF Paced, OnTime, Requests
<1> QED BY <1>1, SearchInvariant, PTL

\* Whatever other searches purge and store, in any interleaving, a release that
\* Lidarr was told of can be grabbed for its time to live.
THEOREM OffersStay == Spec => []OfferStays
<1>1. SearchInv => OfferStays
  BY DEF SearchInv, Remembered, Kept, OfferStays
<1> QED BY <1>1, SearchInvariant, PTL

-----------------------------------------------------------------------------
(* What Lidarr is told of.                                                   *)

\* A failure ends the loop over the candidates, and why it ends is kept.
Honest(r) ==
  /\ r.pc \notin {"answer", "raise"} => r.fault = "none"
  /\ r.pc = "answer" /\ r.seen = {} => r.fault = "none"
  /\ r.pc = "raise" => r.seen = {} \/ r.fault = "store"

HonestInv == SearchTypeOK /\ \A t \in Threads : Honest(req[t])

\* The locals of a thread after a step that says when the next one is due.
LEMMA BecomeHonest ==
  ASSUME HonestInv, NEW t \in Threads, NEW r \in Requests, NEW dt, Become(t, r, dt), Honest(r)
  PROVE  \A u \in Threads : Honest(req'[u])
<1>1. Honest([r EXCEPT !.due = clock + dt])
  BY DEF Honest, Requests
<1> QED BY <1>1 DEF HonestInv, SearchTypeOK, Become

\* Every step of a request keeps its outcome honest.
LEMMA HonestWork ==
  ASSUME HonestInv, NEW t \in Threads, SearchBegin(t) \/ Work(t)
  PROVE  \A u \in Threads : Honest(req'[u])
<1>a. req[t] \in Requests /\ Honest(req[t]) /\ clock \in Nat
  BY DEF HonestInv, SearchTypeOK
<1>b. Idle \in Requests /\ Honest(Idle)
  BY IdleGood DEF Idle, Honest
<1>1. CASE SearchBegin(t)
  <2>1. PICK n \in 0 .. MaxCandidates :
          Become(t, [Idle EXCEPT !.pc = "purge", !.at = clock, !.left = n], MaxCall)
    BY <1>1 DEF SearchBegin
  <2>2. [Idle EXCEPT !.pc = "purge", !.at = clock, !.left = n] \in Requests
    BY <1>a, <1>b, <2>1 DEF Requests
  <2>3. Honest([Idle EXCEPT !.pc = "purge", !.at = clock, !.left = n])
    BY DEF Idle, Honest
  <2> QED BY <2>1, <2>2, <2>3, BecomeHonest
<1>2. CASE Purge(t)
  <2> DEFINE going == [req[t] EXCEPT !.pc = "plan", !.start = clock]
             failed == [req[t] EXCEPT !.pc = "raise", !.fault = "store"]
  <2>1. going \in Requests /\ failed \in Requests
    BY <1>a DEF Requests
  <2>2. Honest(going) /\ Honest(failed)
    BY <1>a, <1>2 DEF Honest, Purge, Requests
  <2>3. Become(t, going, 0) \/ Become(t, failed, 0)
    BY <1>2 DEF Purge
  <2> QED BY <2>1, <2>2, <2>3, BecomeHonest
<1>3. CASE CandidateFails(t)
  <2> DEFINE r == [req[t] EXCEPT !.fault = "slskd",
                                 !.pc = IF Surfaces(req[t].seen) THEN "raise" ELSE "answer"]
  <2>1. r \in Requests
    BY <1>a DEF Requests
  <2>2. Honest(r)
    BY <1>a DEF Honest, Surfaces, Requests
  <2> QED BY <1>3, <2>1, <2>2, BecomeHonest DEF CandidateFails
<1>4. CASE StoreRelease(t)
  <2>1. CASE Become(t, [req[t] EXCEPT !.pc = "raise", !.fault = "store"], 0)
    <3>1. [req[t] EXCEPT !.pc = "raise", !.fault = "store"] \in Requests
      BY <1>a DEF Requests
    <3>2. Honest([req[t] EXCEPT !.pc = "raise", !.fault = "store"])
      BY <1>a DEF Honest, Requests
    <3> QED BY <2>1, <3>1, <3>2, BecomeHonest
  <2>2. CASE \E o \in req[t].found :
               LET next == [req[t] EXCEPT !.found = req[t].found \ {o}, !.seen = @ \cup {o},
                                          !.stamps[o] = req[t].at] IN
               \/ Become(t, [next EXCEPT !.pc = "plan"], 0)
               \/ req' = [req EXCEPT ![t] = [next EXCEPT !.pc = "stamp"]]
    <3>1. PICK o \in req[t].found :
            LET next == [req[t] EXCEPT !.found = req[t].found \ {o}, !.seen = @ \cup {o},
                                       !.stamps[o] = req[t].at] IN
            \/ Become(t, [next EXCEPT !.pc = "plan"], 0)
            \/ req' = [req EXCEPT ![t] = [next EXCEPT !.pc = "stamp"]]
      BY <2>2
    <3> DEFINE next == [req[t] EXCEPT !.found = req[t].found \ {o}, !.seen = @ \cup {o},
                                      !.stamps[o] = req[t].at]
    <3>2. next \in Requests /\ next.fault = "none"
      BY <1>a, <1>4 DEF Requests, Honest, StoreRelease
    <3> HIDE DEF next
    <3>3. [next EXCEPT !.pc = "plan"] \in Requests
      BY <3>2 DEF Requests
    <3>4. Honest([next EXCEPT !.pc = "plan"]) /\ Honest([next EXCEPT !.pc = "stamp"])
      BY <3>2 DEF Honest, Requests
    <3>5. CASE Become(t, [next EXCEPT !.pc = "plan"], 0)
      BY <3>3, <3>4, <3>5, BecomeHonest
    <3>6. CASE req' = [req EXCEPT ![t] = [next EXCEPT !.pc = "stamp"]]
      BY <3>4, <3>6 DEF HonestInv, SearchTypeOK
    <3> QED BY <3>1, <3>5, <3>6 DEF next
  <2> QED BY <1>4, <2>1, <2>2 DEF StoreRelease
<1>5. CASE Stamp(t)
  <2>1. Honest([req[t] EXCEPT !.pc = "put", !.at = clock])
    BY <1>a, <1>5 DEF Honest, Stamp, Requests
  <2>2. req' = [req EXCEPT ![t] = [req[t] EXCEPT !.pc = "put", !.at = clock]]
    BY <1>5 DEF Stamp
  <2> QED BY <2>1, <2>2 DEF HonestInv, SearchTypeOK
<1>6. CASE Answer(t) \/ Raise(t)
  BY <1>6, <1>b DEF Answer, Raise, Leave, HonestInv, SearchTypeOK
<1>7. CASE \/ NextCandidate(t) \/ StartSearch(t) \/ PollComplete(t) \/ PollPending(t)
            \/ Wake(t) \/ FetchResponses(t)
  <2>1. req[t].fault = "none"
    BY <1>a, <1>7 DEF Honest, NextCandidate, StartSearch, PollComplete, PollPending, Wake, FetchResponses
  <2>2. CASE NextCandidate(t)
    <3>1. PICK r : r.fault = req[t].fault /\ r.pc # "raise" /\ req' = [req EXCEPT ![t] = r]
      BY <1>a, <2>2 DEF NextCandidate, Become, Requests
    <3> QED BY <2>1, <3>1 DEF Honest, HonestInv, SearchTypeOK
  <2>3. CASE \/ StartSearch(t) \/ PollComplete(t) \/ PollPending(t) \/ Wake(t) \/ FetchResponses(t)
    <3>1. PICK r : r.fault = req[t].fault /\ r.pc # "raise" /\ req' = [req EXCEPT ![t] = r]
      BY <1>a, <2>3 DEF StartSearch, PollComplete, PollPending, Wake, FetchResponses, Become, Requests
    <3> QED BY <2>1, <3>1 DEF Honest, HonestInv, SearchTypeOK
  <2> QED BY <1>7, <2>2, <2>3
<1> QED BY <1>1, <1>2, <1>3, <1>4, <1>5, <1>6, <1>7 DEF Work

\* "No results" is the answer of a search none of whose calls failed, and an
\* error that of one that found nothing or could not store a row, whatever its
\* candidates do and whatever other searches do to the table.
THEOREM OutcomeIsHonest == Spec => []HonestOutcome
<1>1. Init => \A t \in Threads : Honest(req[t])
  BY DEF Init, Idle, Honest
<1>2. SearchTypeOK /\ (\A t \in Threads : Honest(req[t])) /\ [Next]_vars
        => (\A t \in Threads : Honest(req[t]))'
  <2> SUFFICES ASSUME HonestInv, [Next]_vars PROVE \A t \in Threads : Honest(req'[t])
    BY DEF HonestInv, Honest
  <2>1. CASE Tick \/ UNCHANGED vars
    BY <2>1 DEF HonestInv, Tick, vars
  <2>2. ASSUME NEW t \in Threads, SearchBegin(t) \/ Work(t)
        PROVE  \A u \in Threads : Honest(req'[u])
    BY <2>2, HonestWork
  <2> QED BY <2>1, <2>2 DEF Next
<1>3. (\A t \in Threads : Honest(req[t])) => HonestOutcome
  BY DEF Honest, HonestOutcome
<1> QED BY <1>1, <1>2, <1>3, SearchTypeCorrect, PTL DEF Spec
=============================================================================
