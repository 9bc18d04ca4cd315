SPECIFICATION FairSpec
CONSTANTS
  Alice = Alice
  Bob = Bob
  me1 = me1
  me2 = me2
  artist = artist
  album = album
  tail = tail
  Users = {Alice}
  Legacy = Legacy
  Primary = Alice
  Urls = {me1, me2, artist}
  NoUrl = NoUrl
  MeUrls = {me1, me2}
  NextPage <- MCNextPage
  Continuations <- MCContinuations
  Links <- MCLinksOfLastPage
  Seeds <- MCSeeds
  SeedDepth <- MCSeedDepth
  MaxDepth = 1
  Max500 = 2
  Max429 = 1
  Enabled = {"follow_links", "write_to_neo4j"}
  ResetCrawl = TRUE
  ResetCatalog = TRUE
  Faults = {"expire", "refresh", "revoke", "http", "handler"}
  MaxFaults = 1
  MaxSeedRuns = 2
INVARIANTS
  RetriedAfterReauthorization
PROPERTIES
  CrawlDrains
CHECK_DEADLOCK FALSE
