SPECIFICATION Spec
CONSTANTS
  A = A
  B = B
  C = C
  I = I
  J = J
  K = K
  Tracks = {1, 2, 3, 4}
  NoTrack = NoTrack
  Absent = Absent
  Isrcs = {I, J, K}
  NoIsrc = NoIsrc
  Artists = {A, B, C}
  NoArtist = NoArtist
  Scrub <- MCScrub
  foo = foo
  bar = bar
  Names = {foo, bar}
  NoName = NoName
  Titles <- MCTitles
  Tolerance = 1
  Libraries <- MCLibraries
  Payloads <- MCPayloads
  OverrideFiles <- MCOverrideFiles
  BatchSize = 2
  MaxRuns = 2
  MaxChanges = 1
INVARIANTS
  TypeOK
  OneSongPerTrack
  IdsDistinct
  MasteredByEvidence
  RemixesRepointed
  RemixesApart
CHECK_DEADLOCK FALSE
