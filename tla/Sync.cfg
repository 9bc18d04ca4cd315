SPECIFICATION Spec
CONSTANTS
  discoveries = discoveries
  queue = queue
  first = first
  second = second
  a = a
  b = b
  c = c
  u = u
  NoGenerator = NoGenerator
  NoId = NoId
  LocalFile = LocalFile
  Targets <- MCTargets
  Generators = {discoveries, queue}
  Ordered = {discoveries}
  Ids = {p1, p2}
  Syncs = {first, second}
  GeneratorsOf <- MCApart
  Tracks = {a, b, c, u}
  Unplayable = {u}
  MaxItems = 3
  MaxFaults = 1
  MaxStarts = 3
  MaxIdsPerCall = 2
  SnapshotsKept = 2
INVARIANTS
  TypeOK
  OneManagedPerGenerator
PROPERTIES
  SyncRealizesTarget
  SnapshotIsCurrent
SYMMETRY IdSymmetry
CHECK_DEADLOCK FALSE
