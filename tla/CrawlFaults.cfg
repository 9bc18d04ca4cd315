SPECIFICATION Spec
CONSTANTS
  Alice = Alice
  Bob = Bob
  me1 = me1
  me2 = me2
  artist = artist
  album = album
  tail = tail
  Users = {Alice, Bob}
  Legacy = Legacy
  Primary = Legacy
  Urls = {me1, me2, album, tail}
  NoUrl = NoUrl
  MeUrls = {me1, me2}
  NextPage <- MCNextPage
  Continuations <- MCContinuations
  Links <- MCLinks
  Seeds <- MCSeeds
  SeedDepth <- MCSeedDepth
  MaxDepth = 1
  Max500 = 2
  Max429 = 1
  Enabled = {"follow_links"}
  ResetCrawl = FALSE
  ResetCatalog = FALSE
  Faults = {"publish", "redis", "exception", "handler", "crash", "restart", "forget", "http"}
  MaxFaults = 1
  MaxSeedRuns = 1
SYMMETRY UserSymmetry
INVARIANTS
  TypeOK
  NoDuplicateInFlight
  InFlightIsFresh
  MarksAccounted
  PaginationContinues
  LinksFollowed
PROPERTIES
  KeysLiveOnce
CHECK_DEADLOCK FALSE
