------------------------- MODULE MCDownloadLiveness -------------------------
(* DownloadService under fairness.  The model's clock stops at MaxClock, so  *)
(* Lidarr has to poll before it does: lastPoll bounds the time between two   *)
(* polls (Lidarr refreshes its queue every minute, the stall timeout is half *)
(* an hour); and the last failure has to leave a job the time to conclude.   *)
EXTENDS MCDownloadService

CONSTANTS
  PollGap,   \* bound: clock units Lidarr may let pass between two polls
  LastFault  \* bound: no outside failure after it
VARIABLE lastPoll

LiveInit == Init /\ lastPoll = 0

LiveNext ==
  /\ Next
  /\ clock' - lastPoll <= PollGap
  /\ faults' # faults => clock <= LastFault
  /\ lastPoll' = IF \E t \in Threads : req[t].op # "poll" /\ req'[t].op = "poll" THEN clock ELSE lastPoll

LiveSpec == LiveInit /\ [][LiveNext]_<<vars, lastPoll>> /\ Fairness
=============================================================================
