\* docs/plans/2026-07-01-audit-hardening.md:133 against one thread and a job
\* that stalls, resumes, and stalls again.
CONSTANTS
  t1 = t1 t2 = t2 j1 = j1 j2 = j2 u1 = u1 a = a b = b
  NoJob = NoJob
  Threads = {t1}
  Jobs = {j1}
  Users = {u1}
  Files = {a}
  FileUser <- OnePeer
  JobUser <- JobsOfPeer
  DiscsOf <- OneFile
  FileSize = 1
  StallTimeout = 1
  MaxRetries = 1
  PurgeAfter = 3
  FaultKinds = {"peer"}
  MaxClock = 4
  MaxFaults = 0
  MaxRestarts = 0
  MaxBusy = 0
  LastGrab = 0
SPECIFICATION Spec
INVARIANTS DownloadingNotPurged
