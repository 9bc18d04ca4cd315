----------------------------- MODULE MCCatalog -----------------------------
(***************************************************************************)
(* Two pages of liked songs: two songs of an album (own) of an artist      *)
(* (star) liked enough for a discography in two pages, with that album, a  *)
(* long one (deluxe) and one that is no longer there and lists no artists  *)
(* (pulled), on which the second page's song is: its performer (peer) is   *)
(* liked enough by the credits and not by what the graph links, unless the *)
(* song is fetched by itself.  Credits repeat, and an artist is one that   *)
(* Spotify does not resolve.                                               *)
(***************************************************************************)
EXTENDS Catalog, TLC

CONSTANTS t1, t2, t3, t4, t5, t6, t7, own, collab, deluxe, pulled, star, peer, guest, ghost, host

MCLikedPages == << <<t1, t2>>, <<t7>> >>
MCAlbumOf ==
  [t \in Tracks |-> CASE t \in {t1, t2} -> own
                      [] t \in {t3, t4} -> collab
                      [] t = t7         -> pulled
                      [] OTHER          -> deluxe]
MCCredits ==
  [t \in Tracks |-> CASE t = t1 -> <<star>>
                      [] t = t2 -> <<star, peer>>
                      [] t = t7 -> <<ghost, peer>>
                      [] t = t5 -> <<star, peer>>
                      [] OTHER  -> <<guest>>]
MCCreators == [a \in Albums |-> CASE a = collab -> <<peer, host>>
                          [] a = pulled -> <<>>
                          [] OTHER      -> <<star>>]
MCAlbumPages ==
  [a \in Albums |-> CASE a = own    -> << <<t1, t2>> >>
                      [] a = collab -> << <<t3, t4>> >>
                      [] a = deluxe -> << <<t5>>, <<t6>> >>
                      [] OTHER      -> << <<>> >>]
MCDiscography ==
  [ar \in Artists |-> IF ar = star THEN << <<own, pulled>>, <<deluxe>> >> ELSE << <<collab>> >>]
MCBatchIdLimits == [e \in Several |-> IF e = "albums?ids" THEN 1 ELSE 2]
MCConfigurations == [batch : BOOLEAN, discographies : BOOLEAN, user : BOOLEAN, depth : 0..2]
=============================================================================
