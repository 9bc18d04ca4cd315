SPECIFICATION Spec
CONSTANTS
  Alice = Alice
  Bob = Bob
  t1 = t1
  t2 = t2
  Users = {Alice, Bob}
  Tracks = {t1, t2}
  Owner = Alice
  Legacy = Legacy
  ManagedOwners = {Alice, Bob}
  MaxDate = 3
  MaxPages = 2
SYMMETRY TrackSymmetry
INVARIANTS
  TypeOK
  NoGhostOwnership
PROPERTIES
  LikesNeverGoBack
CHECK_DEADLOCK FALSE
