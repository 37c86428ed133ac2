\* Two images; the start of the new one is killed halfway and the user goes
\* back to the old one.
CONSTANTS
  t1 = t1 t2 = t2 r1 = r1 r2 = r2
  Nobody = Nobody
  Threads = {t1, t2}
  Rows = {r1}
  Builds = {1, 2}
SPECIFICATION Spec
SYMMETRY Symmetry
INVARIANTS MismatchRecreates
