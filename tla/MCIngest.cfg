\* Two uploads, two processes.
CONSTANTS
  u1 = u1
  u2 = u2
  p1 = p1
  p2 = p2
  long = long
  exact = exact
  blank = blank
  huge = huge
  Nothing = Nothing
  Uploads = {u1, u2}
  Processes = {p1, p2}
  Bodies = {long, exact, blank, huge}
  Oversize = {huge}
  WordsIn <- MCWordsIn
  Filenames <- MCFilenames
  CallerRoles <- MCCallerRoles
  TopK = {1, 5}
  AnswerFirst = TRUE
  ChunkSize = 4
  ChunkOverlap = 1
SPECIFICATION Spec
SYMMETRY Symmetry
INVARIANTS
  TypeOK
  ObjectKept
  DocumentWhole
  PhrasesSurvive
  IndexedWhileServing
  GhostsExplained
PROPERTIES
  NothingFoundMeansNone
CHECK_DEADLOCK FALSE
