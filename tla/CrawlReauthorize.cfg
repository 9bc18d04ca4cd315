SPECIFICATION Spec
CONSTANTS
  Alice = Alice
  Bob = Bob
  me1 = me1
  me2 = me2
  artist = artist
  album = album
  tail = tail
  Users = {}
  Legacy = Legacy
  Primary = Legacy
  Urls = {me1, me2, artist, album}
  NoUrl = NoUrl
  MeUrls = {me1, me2}
  NextPage <- MCNextPage
  Continuations <- MCContinuations
  Links <- MCLinks
  Seeds <- MCSeeds
  SeedDepth <- MCSeedDepth
  MaxDepth = 1
  Max500 = 2
  Max429 = 2
  Enabled = {"follow_links"}
  ResetCrawl = FALSE
  ResetCatalog = FALSE
  Faults = {"revoke"}
  MaxFaults = 1
  MaxSeedRuns = 2
INVARIANTS
  RetriedAfterReauthorization
CHECK_DEADLOCK FALSE
