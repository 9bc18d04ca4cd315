SPECIFICATION Spec
CONSTANTS
  t1 = t1
  t2 = t2
  t3 = t3
  t4 = t4
  t5 = t5
  t6 = t6
  t7 = t7
  own = own
  collab = collab
  deluxe = deluxe
  pulled = pulled
  star = star
  peer = peer
  guest = guest
  ghost = ghost
  host = host
  Tracks = {t1, t2, t3, t4, t5, t6, t7}
  Albums = {own, collab, deluxe, pulled}
  Artists = {star, peer, guest, ghost, host}
  Unknown = {ghost, pulled}
  LikedPages <- MCLikedPages
  AlbumOf <- MCAlbumOf
  Credits <- MCCredits
  Creators <- MCCreators
  AlbumPages <- MCAlbumPages
  Discography <- MCDiscography
  BatchIdLimits <- MCBatchIdLimits
  Configurations <- MCConfigurations
  AffinityMin = 2
  SeedDepth = 2
  MaxSeedRuns = 2
  MaxLost = 1
  BatchSize = 2
  MaxErrors = 2
  MaxBackfills = 1
  MaxUnderWay = 1
INVARIANTS
  TypeOK
  DrainedGraphIsClosure
  FrontierUncrawled
PROPERTIES
  TasteSeeded
CHECK_DEADLOCK FALSE
