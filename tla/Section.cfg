SPECIFICATION Spec
CONSTANTS
  listen = listen
  annotate = annotate
  s1 = s1
  s2 = s2
  s3 = s3
  Ids = {s1, s2, s3}
  Sessions = {listen, annotate}
  Listens = {listen}
  MaxMs = 2
  Step = 1
  ExplicitEnds = {1}
  MaxOrder = 3
SYMMETRY IdSymmetry
INVARIANTS
  TypeOK
  ChainIsTimeOrder
  RecordsMatchGraph
PROPERTIES
  UndoRestores
  ImplementsTimeline
CHECK_DEADLOCK FALSE
