\* Three images that mind the version of the database and one that does not, in
\* any order, and kills anywhere.
CONSTANTS
  t1 = t1 t2 = t2 r1 = r1 r2 = r2
  Nobody = Nobody
  Threads = {t1, t2}
  Rows = {r1, r2}
  Builds = {0, 1, 2, 3}
SPECIFICATION Spec
SYMMETRY Symmetry
INVARIANTS ServesOwnLayout KeepsRows ReadsStand
