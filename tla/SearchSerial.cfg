\* One search at a time, up to four candidates, any of whose calls may hang or
\* fail.
CONSTANTS
  t1 = t1 t2 = t2 a = a b = b
  Threads = {t1}
  Offers = {a, b}
  MaxCandidates = 4
  Budget = 3
  MinWindow = 1
  PollInterval = 1
  Enough = 2
  TTL = 2
  MaxCall = 1
  FaultKinds = {"slskd", "store"}
  MaxClock = 9
  MaxFaults = 1
SPECIFICATION Spec
SYMMETRY Symmetry
INVARIANTS SearchTypeOK SearchInTime HonestOutcome
