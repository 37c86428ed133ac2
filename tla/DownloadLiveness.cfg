\* One thread, one album, fair scheduling: every kind of failure may happen
\* twice, and the clock stops well after the last possible conclusion.
CONSTANTS
  t1 = t1 t2 = t2 j1 = j1 j2 = j2 u1 = u1 a = a b = b
  NoJob = NoJob
  Threads = {t1}
  Jobs = {j1}
  Users = {u1}
  Files = {a}
  FileUser <- OnePeer
  JobUser <- JobsOfPeer
  DiscsOf <- OneFile
  FileSize = 2
  StallTimeout = 1
  MaxRetries = 1
  PurgeAfter = 2
  FaultKinds = {"peer", "list", "enqueue", "late", "cancel", "directory", "store"}
  MaxClock = 8
  MaxFaults = 2
  MaxRestarts = 0
  MaxBusy = 0
  LastGrab = 0
  PollGap = 1
  LastFault = 2
SPECIFICATION LiveSpec
PROPERTY EveryJobConcludes
