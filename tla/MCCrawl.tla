------------------------------- MODULE MCCrawl -------------------------------
(***************************************************************************)
(* Small webs for CrawlPipeline: two pages of liked songs that share an    *)
(* album and an artist, as far as Urls has them, the tail of the album's   *)
(* track list being a nested continuation; or two pages and an artist      *)
(* linked from the second only.                                            *)
(***************************************************************************)
EXTENDS CrawlLifecycle, TLC

CONSTANTS Alice, Bob, me1, me2, artist, album, tail

MCNextPage == [u \in Urls |-> IF u = me1 THEN me2 ELSE NoUrl]
MCContinuations ==
  [u \in Urls |-> IF u = album /\ tail \in Urls THEN <<tail>> ELSE <<>>]
MCLinks ==
  [u \in Urls |-> IF u \in MeUrls
                    THEN SelectSeq(<<album, artist>>, LAMBDA v : v \in Urls)
                    ELSE <<>>]
MCLinksOfLastPage == [u \in Urls |-> IF u = me2 THEN <<artist>> ELSE <<>>]
MCSeeds == <<me1>>
MCSeedDepth == [u \in Urls |-> 1]

UserSymmetry == Permutations({Alice, Bob})
=============================================================================
