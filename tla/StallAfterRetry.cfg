\* README.md:112 against one thread and one retry of a single file.
CONSTANTS
  t1 = t1 t2 = t2 j1 = j1 j2 = j2 u1 = u1 a = a b = b
  NoJob = NoJob
  Threads = {t1}
  Jobs = {j1}
  Users = {u1}
  Files = {a}
  FileUser <- OnePeer
  JobUser <- JobsOfPeer
  DiscsOf <- OneFile
  FileSize = 2
  StallTimeout = 1
  MaxRetries = 1
  PurgeAfter = 1
  FaultKinds = {"peer"}
  MaxClock = 3
  MaxFaults = 1
  MaxRestarts = 0
  MaxBusy = 0
  LastGrab = 0
SPECIFICATION Spec
INVARIANTS StalledReportIsReal
