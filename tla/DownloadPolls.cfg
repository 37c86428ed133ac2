\* Two requests at a time and a disc of two files: polls overlap polls, grabs
\* and removals, but no job is removed while a poll is judging it.
CONSTANTS
  t1 = t1 t2 = t2 j1 = j1 j2 = j2 u1 = u1 a = a b = b
  NoJob = NoJob
  Threads = {t1, t2}
  Jobs = {j1}
  Users = {u1}
  Files = {a, b}
  FileUser <- OnePeer
  JobUser <- JobsOfPeer
  DiscsOf <- OneDisc
  FileSize = 1
  StallTimeout = 2
  MaxRetries = 1
  PurgeAfter = 1
  FaultKinds = {"peer", "enqueue"}
  MaxClock = 2
  MaxFaults = 1
  MaxRestarts = 0
  MaxBusy = 1
  LastGrab = 0
SPECIFICATION ApartSpec
SYMMETRY WorkerFileSymmetry
INVARIANTS NoOrphan StallMeansNoProgress
