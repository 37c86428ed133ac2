-------------------------- MODULE SearchProperties --------------------------
(* What the search service promises, stated over SearchService.            *)
EXTENDS SearchService

IsDict(d, K, V) == DOMAIN d \subseteq K /\ \A k \in DOMAIN d : d[k] \in V

Requests ==
  [pc : {"idle", "purge", "plan", "post", "poll", "sleep", "fetch", "stamp", "put", "answer", "raise"},
   due : Nat, start : Nat, left : 0..MaxCandidates, first : BOOLEAN, deadline : Nat,
   since : Nat, found : SUBSET Offers, at : Nat,
   seen : SUBSET Offers, stamps : [Offers -> Nat], fault : {"none", "slskd", "store"}]

\* Every variable keeps its type; no candidate is ever given a negative deadline.
SearchTypeOK ==
  /\ clock \in Nat /\ faults \in Nat
  /\ IsDict(releases, Offers, Nat) /\ IsDict(named, Offers, Nat)
  /\ req \in [Threads -> Requests]

\* The budget, or the primary's floor when the budget is smaller.
Patience == Larger(Budget, MinWindow)

\* However its candidates fail, hang or trickle, a search ends less than one
\* poll interval and the four calls of its last candidate after its budget,
\* as what one candidate overruns is taken from the next
\* (search_service.py:75-88, 119-135).
SearchInTime ==
  \A t \in Threads :
    req[t].pc \notin {"idle", "purge", "raise"}
      => clock - req[t].start < Patience + PollInterval + 4 * MaxCall

\* A release that an answer named stays in the table, so that Lidarr can grab
\* it, for release_ttl_days after the sighting it was told of, whatever other
\* searches purge or store meanwhile; a search that stamped it earlier and
\* stored it later costs at most the time between the two
\* (search_service.py:65-67, 182-184; sqlite_store.py:196-239, 262-269).
OfferStays ==
  \A o \in DOMAIN named : clock <= named[o] + TTL - MaxCall => o \in DOMAIN releases

\* Lidarr is told "no results" only by a search none of whose calls failed, and
\* is told of an error only when nothing was found or the table refused a row
\* (search_service.py:92-106).
HonestOutcome ==
  \A t \in Threads :
    /\ req[t].pc = "answer" /\ req[t].seen = {} => req[t].fault = "none"
    /\ req[t].pc = "raise" => req[t].seen = {} \/ req[t].fault = "store"

=============================================================================
