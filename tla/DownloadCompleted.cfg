\* Two requests at a time and a single-file album that may stall, recover, fail
\* and be retried: polls overlap polls and removals in every way.
CONSTANTS
  t1 = t1 t2 = t2 j1 = j1 j2 = j2 u1 = u1 a = a b = b
  NoJob = NoJob
  Threads = {t1, t2}
  Jobs = {j1}
  Users = {u1}
  Files = {a}
  FileUser <- OnePeer
  JobUser <- JobsOfPeer
  DiscsOf <- OneFile
  FileSize = 1
  StallTimeout = 1
  MaxRetries = 1
  PurgeAfter = 1
  FaultKinds = {"peer", "enqueue"}
  MaxClock = 4
  MaxFaults = 1
  MaxRestarts = 0
  MaxBusy = 1
  LastGrab = 0
SPECIFICATION Spec
SYMMETRY WorkerSymmetry
INVARIANTS CompletedNotPurged
