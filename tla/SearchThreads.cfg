\* Two searches at once over one offer: stamps, stores and purges interleave.
CONSTANTS
  t1 = t1 t2 = t2 a = a b = b
  Threads = {t1, t2}
  Offers = {a}
  MaxCandidates = 1
  Budget = 1
  MinWindow = 1
  PollInterval = 1
  Enough = 1
  TTL = 2
  MaxCall = 1
  FaultKinds = {}
  MaxClock = 5
  MaxFaults = 0
SPECIFICATION Spec
SYMMETRY Symmetry
INVARIANTS OfferStays
