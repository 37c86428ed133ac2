\* Two grabs at once of what peers with all kinds of names offer.
CONSTANTS
  t1 = t1 t2 = t2
  Threads = {t1, t2}
  Answers <- MCAnswers
  Retries = 1
SPECIFICATION Spec
SYMMETRY Symmetry
INVARIANTS AcceptedIsComplete PostedOnce NothingLeft ReportedFolderHolds FilesKeptApart
\* A thread serves one grab.
CHECK_DEADLOCK FALSE
