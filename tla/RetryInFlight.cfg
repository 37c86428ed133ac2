\* README.md:113 against two polls at once and a single file.
CONSTANTS
  t1 = t1 t2 = t2 j1 = j1 j2 = j2 u1 = u1 a = a b = b
  NoJob = NoJob
  Threads = {t1, t2}
  Jobs = {j1}
  Users = {u1}
  Files = {a}
  FileUser <- OnePeer
  JobUser <- JobsOfPeer
  DiscsOf <- OneFile
  FileSize = 1
  StallTimeout = 1
  MaxRetries = 1
  PurgeAfter = 1
  FaultKinds = {"peer"}
  MaxClock = 2
  MaxFaults = 2
  MaxRestarts = 0
  MaxBusy = 0
  LastGrab = 0
SPECIFICATION Spec
INVARIANTS FailedTransferWasRetried
