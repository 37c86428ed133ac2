\* Two worker threads and one single-file album: every interleaving of their
\* lock sections, with peer failures, refused enqueues, lost answers, failing
\* writes of the table and a restart.
CONSTANTS
  t1 = t1 t2 = t2 j1 = j1 j2 = j2 u1 = u1 a = a b = b
  NoJob = NoJob
  Threads = {t1, t2}
  Jobs = {j1}
  Users = {u1}
  Files = {a}
  FileUser <- OnePeer
  JobUser <- JobsOfPeer
  DiscsOf <- OneFile
  FileSize = 1
  StallTimeout = 1
  MaxRetries = 1
  PurgeAfter = 1
  FaultKinds = {"peer", "enqueue", "late", "store"}
  MaxClock = 1
  MaxFaults = 2
  MaxRestarts = 1
  MaxBusy = 1
  LastGrab = 0
SPECIFICATION Spec
SYMMETRY WorkerSymmetry
INVARIANTS TypeOK RetryBudget NoStaleBookkeeping
PROPERTY KeepsLedger
