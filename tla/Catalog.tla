------------------------------ MODULE Catalog ------------------------------
(***************************************************************************)
(* What a crawl leaves in the graph.  The transport and its faults are the *)
(* business of CrawlPipeline; here every queue is reliable and the subject *)
(* is the endpoints: which handler a URL resolves to, what each handler    *)
(* writes to Neo4j, which neighbours it requests, at which depth and in    *)
(* which chunks, and how the three consumers (the engine, the              *)
(* write_to_neo4j worker and the follow_links worker), each serving its    *)
(* own queue at its own pace, meet in the graph and in the crawled set.    *)
(*                                                                         *)
(* One user (or the legacy identity) crawls a small catalogue.  The seeder *)
(* may run again at any time: discography seeds are read from the graph    *)
(* as it is at that moment.                                                *)
(***************************************************************************)
EXTENDS Integers, Sequences, FiniteSets, SequencesExt, FiniteSetsExt

CONSTANTS
  Tracks, Albums, Artists,
  LikedPages,        \* the pages of /v1/me/tracks
  AlbumOf,           \* the album of a track
  Credits,           \* the performing artists of a track, in credit order
  Creators,          \* the artists of an album
  AlbumPages,        \* the tracks of an album, by page; the first is embedded
  Discography,       \* the pages of /v1/artists/{id}/albums
  Unknown,           \* ids Spotify does not resolve (null in a batch, 404 alone)
  BatchIdLimits,     \* the most ids one multi-id call takes, by endpoint
  AffinityMin,       \* ARTIST_AFFINITY_MIN
  SeedDepth,         \* DISCOGRAPHY_SEED_DEPTH
  Configurations,    \* [batch, discographies, user, depth] a deployment may run with
  BatchSize,         \* BATCH_SIZE of the backfills
  MaxErrors,         \* MAX_429_RETRIES and MAX_500_RETRIES
  MaxSeedRuns, MaxLost, MaxBackfills,   \* bounds
  MaxUnderWay        \* bound on the messages queued when a backfill starts

(* A finite catalogue of nodes with three labels, in which every resource   *)
(* has a first page, if an empty one.  The seeds' query matches liked songs *)
(* before it counts them, so its bound is at least one.                     *)
ASSUME CatalogAssumption ==
  /\ IsFiniteSet(Tracks) /\ IsFiniteSet(Artists)
  /\ Tracks \cap Albums = {} /\ Tracks \cap Artists = {} /\ Albums \cap Artists = {}
  /\ AlbumOf \in [Tracks -> Albums]
  /\ Credits \in [Tracks -> Seq(Artists)] /\ Creators \in [Albums -> Seq(Artists)]
  /\ LikedPages \in Seq(Seq(Tracks)) \ {<<>>}
  /\ AlbumPages \in [Albums -> Seq(Seq(Tracks)) \ {<<>>}]
  /\ Discography \in [Artists -> Seq(Seq(Albums)) \ {<<>>}]
  /\ BatchIdLimits \in [{"tracks?ids", "albums?ids", "artists?ids"} -> Nat \ {0}]
  /\ {AffinityMin, BatchSize, MaxErrors} \subseteq Nat \ {0}
  /\ {SeedDepth, MaxSeedRuns} \subseteq Nat
  /\ Configurations \subseteq
       [batch : BOOLEAN, discographies : BOOLEAN, user : BOOLEAN, depth : Nat]

VARIABLES
  config,     \* the environment variables the services were started with
  crawled,    \* the crawled set: <<url, depth>>
  requests,   \* the request queue: [url, depth]
  stores,     \* the queue of the write_to_neo4j worker
  follows,    \* the queue of the follow_links worker
  graph,      \* [nodes, complete, liked, created, contains]
  runs,       \* how often the seeder ran
  lost,       \* history: the store messages whose write was lost, in part or whole
  backfill,   \* the backfill under way: [endpoint, todo, n429, n500]
  backfills,  \* how often one was started
  enriched    \* history: the batches a backfill has written

crawl == <<config, crawled, requests, stores, follows, runs, lost>>
backfilling == <<backfill, backfills, enriched>>
vars == <<crawl, graph, backfilling>>

-----------------------------------------------------------------------------
(* URLs.  The ids of a multi-id endpoint are the chunk it asks for; a page  *)
(* of a paginated resource is its offset.                                   *)
Url(endpoint, ids, page) == [endpoint |-> endpoint, ids |-> ids, page |-> page]
Request(url, depth)      == [url |-> url, depth |-> depth]

Single == {"tracks/{id}", "albums/{id}", "artists/{id}"}
Several == {"tracks?ids", "albums?ids", "artists?ids"}

(* resolve_handler: the followed playlists, like the followed artists, have *)
(* no handler; one of the two stands for both.                              *)
Unmapped == {"me/playlists"}

(* The members of a list at the positions P, in order: what a comprehension *)
(* over the list with a condition keeps.                                    *)
At(list, P) ==
  LET kept[n \in 0..Len(list)] ==
        IF n = 0 THEN <<>>
        ELSE IF n \in P THEN Append(kept[n - 1], list[n]) ELSE kept[n - 1]
  IN kept[Len(list)]

(* The first occurrences of the members of a list that are not in `seen`.   *)
FirstsOutside(list, seen) ==
  At(list, {n \in DOMAIN list : list[n] \notin seen /\ \A m \in 1..(n - 1) : list[m] # list[n]})

(* The ids of a batch that resolved: null entries are dropped.              *)
Items(url) == At(url.ids, {n \in DOMAIN url.ids : url.ids[n] \notin Unknown})

Pages(url) ==
  CASE url.endpoint = "me/tracks"           -> LikedPages
    [] url.endpoint = "artists/{id}/albums" -> Discography[url.ids[1]]
    [] url.endpoint = "albums/{id}/tracks"  -> AlbumPages[url.ids[1]]
    [] OTHER                                -> <<>>

Page(url) == Pages(url)[url.page]

(* The `next` link the engine follows, and the nested one of an album whose *)
(* tracks do not fit the embedded first page.                               *)
HasNext(url) == url.page < Len(Pages(url))
NextPage(url) == [url EXCEPT !.page = @ + 1]
LongAlbums(url) ==
  LET items == Items(url) IN At(items, {n \in DOMAIN items : Len(AlbumPages[items[n]]) > 1})

-----------------------------------------------------------------------------
(* What a handler writes.  An insert MERGEs nodes and edges; `always` are   *)
(* the nodes whose payload lands whether or not the node existed (ON MATCH  *)
(* coalesce), `ifNew` those whose payload is set ON CREATE only.            *)
Insert(nodes, always, ifNew, created, contains, liked) ==
  [nodes |-> nodes, always |-> always, ifNew |-> ifNew,
   created |-> created, contains |-> contains, liked |-> liked]

CreditsOf(tracks) == UNION {ToSet(Credits[t]) : t \in tracks}
CreatorsOf(albums) == UNION {ToSet(Creators[a]) : a \in albums}
CreditEdges(tracks) == UNION {{<<ar, t>> : ar \in ToSet(Credits[t])} : t \in tracks}
CreatorEdges(albums) == UNION {{<<ar, a>> : ar \in ToSet(Creators[a])} : a \in albums}
AlbumArtistEdges(tracks) == UNION {{<<ar, t>> : ar \in ToSet(Creators[AlbumOf[t]])} : t \in tracks}
TracksOn(pages) == ToSet(FlattenSeq(pages))

(* insert_{single,batch_of}_track: the track, its album, the artists of     *)
(* both; a track is CREATED by both.                                        *)
InsertCredited(tracks, credited, liked) ==
  LET albums == {AlbumOf[t] : t \in tracks}
  IN Insert(tracks \cup albums \cup CreditsOf(credited) \cup CreatorsOf(albums),
            tracks, albums,
            CreditEdges(credited) \cup CreatorEdges(albums) \cup AlbumArtistEdges(tracks),
            {<<AlbumOf[t], t>> : t \in tracks}, liked)

InsertTracks(tracks) == InsertCredited(tracks, tracks, {})

(* insert_batch_of_liked_songs unwinds the artists of the album before those *)
(* of the track: the row of a track whose album lists none ends there, and   *)
(* its own artists are not linked.                                           *)
CreditKept(tracks) == {t \in tracks : Creators[AlbumOf[t]] # <<>>}
InsertLikedSongs(tracks, liked) == InsertCredited(tracks, CreditKept(tracks), liked)

(* insert_batch_of_albums upgrades a stub, insert_single_album does not.    *)
InsertAlbums_NoUpgrade(albums) ==
  Insert(albums \cup CreatorsOf(albums), {}, albums, CreatorEdges(albums), {}, {})

InsertAlbums(albums) ==
  Insert(albums \cup CreatorsOf(albums), albums, {}, CreatorEdges(albums), {}, {})

InsertSingleAlbum(a) ==
  Insert({a} \cup ToSet(Creators[a]), {}, {a}, CreatorEdges({a}), {}, {})

(* insert_album_embedded_tracks, insert_tracks_of_album_page: simplified    *)
(* tracks; the page MERGEs the album, a stub when it is new.                *)
InsertAlbumTracks(albums, contains) ==
  LET tracks == {e[2] : e \in contains}
  IN Insert(albums \cup tracks \cup CreditsOf(tracks), {}, {}, CreditEdges(tracks), contains, {})

InsertArtists(artists) == Insert(artists, artists, {}, {}, {}, {})

(* write_to_neo4j of each handler: its transactions, in order.  The page of *)
(* an artist's albums is a harvest of ids and is not written.               *)
LikedSongs_Write(page) == <<InsertLikedSongs(page, IF config.user THEN page ELSE {})>>
SingleTrack_Write(t)   == <<InsertTracks({t})>>
SingleAlbum_Write(a)   == <<InsertSingleAlbum(a)>>
SingleArtist_Write(ar) == <<InsertArtists({ar})>>
Harvest_Write          == <<>>

EmbeddedTracks(albums) == UNION {{<<a, t>> : t \in ToSet(AlbumPages[a][1])} : a \in albums}
SeveralAlbums_Write(albums) ==
  <<InsertAlbums(albums)>> \o
    (IF config.discographies THEN <<InsertAlbumTracks(albums, EmbeddedTracks(albums))>> ELSE <<>>)

TracksOfAlbum_Write(a, page) == <<InsertAlbumTracks({a}, {<<a, t>> : t \in page})>>

Writes(url) ==
  LET items == ToSet(Items(url))
  IN CASE url.endpoint = "me/tracks"           -> LikedSongs_Write(ToSet(Page(url)))
       [] url.endpoint = "tracks/{id}"         -> SingleTrack_Write(url.ids[1])
       [] url.endpoint = "albums/{id}"         -> SingleAlbum_Write(url.ids[1])
       [] url.endpoint = "artists/{id}"        -> SingleArtist_Write(url.ids[1])
       [] url.endpoint = "tracks?ids"          -> <<InsertTracks(items)>>
       [] url.endpoint = "albums?ids"          -> SeveralAlbums_Write(items)
       [] url.endpoint = "artists?ids"         -> <<InsertArtists(items)>>
       [] url.endpoint = "albums/{id}/tracks"  -> TracksOfAlbum_Write(url.ids[1], ToSet(Page(url)))
       [] url.endpoint = "artists/{id}/albums" -> Harvest_Write
       [] OTHER                                -> <<>>

Merge(g, w) ==
  [nodes    |-> g.nodes \cup w.nodes,
   complete |-> g.complete \cup w.always \cup (w.ifNew \ g.nodes),
   liked    |-> g.liked \cup w.liked,
   created  |-> g.created \cup w.created,
   contains |-> g.contains \cup w.contains]

Written(g, writes) ==
  LET after[n \in 0..Len(writes)] == IF n = 0 THEN g ELSE Merge(after[n - 1], writes[n])
  IN after[Len(writes)]

-----------------------------------------------------------------------------
(* request_batch: ids deduplicated in order, in chunks of the cap.          *)
Unique(ids) == FirstsOutside(ids, {})

Chunked(ids, size) ==
  [c \in 1..((Len(ids) + size - 1) \div size) |->
     SubSeq(ids, (c - 1) * size + 1, Min({c * size, Len(ids)}))]

RequestBatch_KeepsDuplicates(endpoint, ids, depth) ==
  LET chunks == Chunked(ids, BatchIdLimits[endpoint])
  IN [c \in DOMAIN chunks |-> Request(Url(endpoint, chunks[c], 1), depth)]

RequestBatch(endpoint, ids, depth) ==
  LET chunks == Chunked(Unique(ids), BatchIdLimits[endpoint])
  IN [c \in DOMAIN chunks |-> Request(Url(endpoint, chunks[c], 1), depth)]

CreditSeq(tracks) == FlattenSeq([i \in DOMAIN tracks |-> Credits[tracks[i]]])
AlbumSeq(tracks)  == [i \in DOMAIN tracks |-> AlbumOf[tracks[i]]]
CreatorSeq(albums) == FlattenSeq([i \in DOMAIN albums |-> Creators[albums[i]]])
Each(endpoint, ids, depth) == [i \in DOMAIN ids |-> Request(Url(endpoint, <<ids[i]>>, 1), depth)]

(* The albums and artists of tracks: in batches from several tracks, as     *)
(* configured from one track and from a page of liked songs.                *)
SeveralTracks_Neighbours(tracks, depth) ==
  RequestBatch("albums?ids", AlbumSeq(tracks), depth)
    \o RequestBatch("artists?ids", CreditSeq(tracks), depth)

SingleTrack_Neighbours(tracks, depth) ==
  IF config.batch THEN SeveralTracks_Neighbours(tracks, depth)
  ELSE FlattenSeq([i \in DOMAIN tracks |->
         Each("albums/{id}", <<AlbumOf[tracks[i]]>>, depth)
           \o Each("artists/{id}", Credits[tracks[i]], depth)])

LikedSongs_Neighbours(tracks, depth) ==
  IF config.batch THEN SeveralTracks_Neighbours(tracks, depth)
  ELSE FlattenSeq([i \in DOMAIN tracks |->
         Each("tracks/{id}", <<tracks[i]>>, depth) \o SingleTrack_Neighbours(<<tracks[i]>>, depth)])

SeveralAlbums_Neighbours(albums, depth) ==
  RequestBatch("artists?ids",
    CreatorSeq(albums) \o
      (IF config.discographies
       THEN CreditSeq(FlattenSeq([i \in DOMAIN albums |-> AlbumPages[albums[i]][1]]))
       ELSE <<>>),
    depth)

SingleAlbum_Neighbours(a, depth) ==
  IF config.batch THEN RequestBatch("artists?ids", Creators[a], depth)
  ELSE Each("artists/{id}", Creators[a], depth)

TracksOfAlbum_Neighbours(page, depth) == RequestBatch("artists?ids", CreditSeq(page), depth)
Harvest_Neighbours(page, depth)       == RequestBatch("albums?ids", page, depth)

(* The nested next links of long albums: at the same depth and ahead of the *)
(* depth gate, in a discography crawl only.                                 *)
SeveralAlbums_NextPages(url, depth) ==
  IF url.endpoint = "albums?ids" /\ config.discographies
  THEN LET long == LongAlbums(url)
       IN [i \in DOMAIN long |-> Request(Url("albums/{id}/tracks", <<long[i]>>, 2), depth)]
  ELSE <<>>

(* follow_links of the handler of a URL, below the depth gate.              *)
Neighbours(url, depth) ==
  CASE url.endpoint = "me/tracks"           -> LikedSongs_Neighbours(Page(url), depth)
    [] url.endpoint = "tracks/{id}"         -> SingleTrack_Neighbours(url.ids, depth)
    [] url.endpoint = "tracks?ids"          -> SeveralTracks_Neighbours(Items(url), depth)
    [] url.endpoint = "albums/{id}"         -> SingleAlbum_Neighbours(url.ids[1], depth)
    [] url.endpoint = "albums?ids"          -> SeveralAlbums_Neighbours(Items(url), depth)
    [] url.endpoint = "albums/{id}/tracks"  -> TracksOfAlbum_Neighbours(Page(url), depth)
    [] url.endpoint = "artists/{id}/albums" -> Harvest_Neighbours(Page(url), depth)
    [] OTHER                                -> <<>>

FollowLinks(msg) ==
  SeveralAlbums_NextPages(msg.url, msg.depth)
    \o (IF msg.depth > 0 THEN Neighbours(msg.url, msg.depth - 1) ELSE <<>>)

-----------------------------------------------------------------------------
(* request_url for each of a sequence: publish and mark what is new.        *)
Fresh(reqs) == FirstsOutside(reqs, crawled)

Publish(queue, reqs) ==
  /\ requests' = queue \o Fresh(reqs)
  /\ crawled' = crawled \cup ToSet(reqs)

(* fetch_discography_seed_artist_ids: CREATED edges to a liked track are of *)
(* its performers and of its album's artists.                               *)
Affinity_AnyTrack(ar) == Cardinality({t \in Tracks : <<ar, t>> \in graph.created})

Affinity(ar) == Cardinality({t \in graph.liked : <<ar, t>> \in graph.created})

Seedable_Strict == {ar \in Artists : Affinity(ar) > AffinityMin}

Seedable == {ar \in Artists : Affinity(ar) >= AffinityMin}

(* The most liked first; of equals, the one with the smaller id, any here.  *)
DiscographySeeds ==
  IF config.discographies
  THEN {Each("artists/{id}/albums", seeds, SeedDepth) :
          seeds \in {s \in SetToSeqs(Seedable) :
                       \A i, j \in DOMAIN s : i < j => Affinity(s[i]) >= Affinity(s[j])}}
  ELSE {<<>>}

NoBackfill == [endpoint |-> "none", todo |-> <<>>, n429 |-> 0, n500 |-> 0]

Init ==
  /\ config \in Configurations
  /\ crawled = {} /\ requests = <<>> /\ stores = <<>> /\ follows = <<>>
  /\ graph = [nodes |-> {}, complete |-> {}, liked |-> {}, created |-> {}, contains |-> {}]
  /\ runs = 0 /\ lost = {}
  /\ backfill = NoBackfill /\ backfills = 0 /\ enriched = {}

(* A run of the seeder: the liked songs, the followed playlists and, when   *)
(* enabled, the artists the graph shows the user likes most.                *)
Seed ==
  /\ runs < MaxSeedRuns
  /\ runs' = runs + 1
  /\ \E seeds \in DiscographySeeds :
       Publish(requests, <<Request(Url("me/tracks", <<>>, 1), config.depth),
                           Request(Url("me/playlists", <<>>, 1), config.depth)>> \o seeds)
  /\ UNCHANGED <<config, stores, follows, graph, lost, backfilling>>

(* The engine: a 404 gives the request up and releases its mark; a 200      *)
(* requests the next page at the same depth and fans the response out.      *)
Engine_Fetch ==
  /\ requests # <<>>
  /\ LET req == Head(requests) IN
       IF req.url.endpoint \in Single /\ req.url.ids[1] \in Unknown
       THEN /\ requests' = Tail(requests)
            /\ crawled' = crawled \ {req}
            /\ UNCHANGED <<stores, follows>>
       ELSE /\ Publish(Tail(requests), IF HasNext(req.url) THEN <<Request(NextPage(req.url), req.depth)>> ELSE <<>>)
            /\ stores' = Append(stores, req)
            /\ follows' = Append(follows, req)
  /\ UNCHANGED <<config, graph, runs, lost, backfilling>>

(* The write_to_neo4j worker.                                               *)
Worker_Store ==
  /\ stores # <<>>
  /\ stores' = Tail(stores)
  /\ graph' = Written(graph, Writes(Head(stores).url))
  /\ UNCHANGED <<config, crawled, requests, follows, runs, lost, backfilling>>

(* A transaction fails: those before it stand, the message is gone.         *)
Worker_StoreFails ==
  /\ stores # <<>> /\ Cardinality(lost) < MaxLost
  /\ stores' = Tail(stores)
  /\ LET writes == Writes(Head(stores).url) IN
       \E i \in DOMAIN writes : graph' = Written(graph, SubSeq(writes, 1, i - 1))
  /\ lost' = lost \cup {Head(stores)}
  /\ UNCHANGED <<config, crawled, requests, follows, runs, backfilling>>

(* The follow_links worker; a URL no handler resolves is skipped.           *)
Worker_FollowLinks ==
  /\ follows # <<>>
  /\ follows' = Tail(follows)
  /\ Publish(requests, FollowLinks(Head(follows)))
  /\ UNCHANGED <<config, stores, graph, runs, lost, backfilling>>

-----------------------------------------------------------------------------
(* The backfills of tracks without an ISRC and of artists without a         *)
(* popularity.  Both read a worklist once and go through it in chunks, the  *)
(* handlers of the multi-id endpoints writing what resolves.                *)
Missing(endpoint) ==
  (IF endpoint = "tracks?ids" THEN Tracks ELSE Artists) \cap (graph.nodes \ graph.complete)

Backfill_Read(endpoint) ==
  /\ backfill = NoBackfill /\ backfills < MaxBackfills
  /\ Len(requests) + Len(stores) + Len(follows) <= MaxUnderWay
  /\ backfills' = backfills + 1
  /\ Missing(endpoint) # {}
  /\ backfill' = [NoBackfill EXCEPT !.endpoint = endpoint, !.todo = Chunked(SetToSeq(Missing(endpoint)), BatchSize)]
  /\ UNCHANGED <<crawl, graph, enriched>>

Backfill_Batch ==
  /\ backfill # NoBackfill
  /\ LET url == Url(backfill.endpoint, Head(backfill.todo), 1) IN
       /\ graph' = Written(graph, Writes(url))
       /\ enriched' = enriched \cup {url}
  /\ backfill' = IF Len(backfill.todo) = 1 THEN NoBackfill
                 ELSE [NoBackfill EXCEPT !.endpoint = backfill.endpoint, !.todo = Tail(backfill.todo)]
  /\ UNCHANGED <<crawl, backfills>>

(* A 429 or a 500, waited out until there were too many for this batch.     *)
Backfill_Retry ==
  /\ backfill # NoBackfill
  /\ \E errors \in {[backfill EXCEPT !.n429 = @ + 1], [backfill EXCEPT !.n500 = @ + 1]} :
       backfill' = IF errors.n429 >= MaxErrors \/ errors.n500 >= MaxErrors THEN NoBackfill ELSE errors
  /\ UNCHANGED <<crawl, graph, backfills, enriched>>

(* Any other error status, or a write that fails: the batches before stand. *)
Backfill_Abort ==
  /\ backfill # NoBackfill
  /\ backfill' = NoBackfill
  /\ UNCHANGED <<crawl, graph, backfills, enriched>>

Backfill ==
  \/ \E endpoint \in {"tracks?ids", "artists?ids"} : Backfill_Read(endpoint)
  \/ Backfill_Batch \/ Backfill_Retry \/ Backfill_Abort

Next == Backfill \/ Seed \/ Engine_Fetch \/ Worker_Store \/ Worker_StoreFails \/ Worker_FollowLinks

Spec == Init /\ [][Next]_vars
-----------------------------------------------------------------------------
(* Every chunk respects the cap of its endpoint and repeats no id, every     *)
(* queue holds requests of the catalogue at depths the chain reaches, and    *)
(* the graph has no edge without its two ends.                               *)
Ids == Tracks \cup Albums \cup Artists
TypeOK ==
  /\ config \in Configurations
  /\ \A r \in crawled \cup ToSet(requests) \cup ToSet(stores) \cup ToSet(follows) \cup lost :
       /\ ToSet(r.url.ids) \subseteq Ids
       /\ IsInjective(r.url.ids)
       /\ r.depth \in 0..Max({config.depth, SeedDepth})
       /\ r.url.endpoint \in Several => Len(r.url.ids) \in 1..BatchIdLimits[r.url.endpoint]
       /\ r.url.endpoint \in Unmapped \/ Pages(r.url) = <<>> \/ r.url.page \in DOMAIN Pages(r.url)
  /\ graph.nodes \subseteq Ids
  /\ graph.complete \subseteq graph.nodes /\ graph.liked \subseteq graph.nodes
  /\ graph.created \subseteq (Artists \X (Tracks \cup Albums)) \cap (graph.nodes \X graph.nodes)
  /\ graph.contains \subseteq (Albums \X Tracks) \cap (graph.nodes \X graph.nodes)
  /\ runs \in 0..MaxSeedRuns
  /\ backfill.n429 \in 0..(MaxErrors - 1) /\ backfill.n500 \in 0..(MaxErrors - 1)
  /\ \A i \in DOMAIN backfill.todo : Len(backfill.todo[i]) \in 1..BatchSize

-----------------------------------------------------------------------------
(* The reference: what the crawl of a catalogue comes to, stated from the   *)
(* catalogue alone, without queues, chunks or the order of anything.        *)
Liked      == TracksOn(LikedPages)
LikedOf(ar) == {t \in Liked : ar \in CreditsOf({t}) \cup CreatorsOf({AlbumOf[t]})}
Taste      == {ar \in Artists : config.user /\ Cardinality(LikedOf(ar)) >= AffinityMin}
Seeded     == {r.url.ids[1] : r \in {q \in crawled : q.url.endpoint = "artists/{id}/albums"}}

LikedAlbums == {AlbumOf[t] : t \in Liked}
DiscographyAlbums == (UNION {TracksOn(Discography[ar]) : ar \in Seeded}) \ Unknown
(* The albums whose track lists are persisted, and those one hop further.   *)
Opened ==
  DiscographyAlbums \cup
    (IF config.discographies /\ config.batch /\ config.depth >= 1 THEN LikedAlbums \ Unknown ELSE {})
OpenedDeep ==
  DiscographyAlbums \cup (IF config.depth >= 2 THEN Opened ELSE {})
Listed(albums) == UNION {{<<a, t>> : t \in TracksOn(AlbumPages[a])} : a \in albums}
TracksIn(contains) == {e[2] : e \in contains}

(* The tracks whose performers are linked: a liked song whose album lists   *)
(* artists or that is fetched by itself as well, and a listed track.        *)
FetchedAlone  == IF config.depth >= 1 /\ ~config.batch THEN Liked \ Unknown ELSE {}
CreditedLikes == CreditKept(Liked) \cup FetchedAlone
Credited      == CreditedLikes \cup TracksIn(Listed(Opened))

(* The artists whose ranking fields are fetched: the credits of the liked   *)
(* songs, one hop further the artists of their albums, and the collab       *)
(* frontier of a discography.                                               *)
Ranked ==
  ((IF config.depth >= 1 THEN CreditsOf(Liked) ELSE {})
     \cup (IF config.depth >= 2 THEN CreatorsOf(LikedAlbums \ Unknown) ELSE {})
     \cup CreatorsOf(DiscographyAlbums)
     \cup CreditsOf(TracksIn(Listed(OpenedDeep)))) \ Unknown

Closure ==
  LET tracks == Liked \cup TracksIn(Listed(Opened))
      albums == LikedAlbums \cup Opened
  IN [nodes    |-> tracks \cup albums \cup CreditsOf(Credited) \cup CreatorsOf(albums) \cup Ranked,
      complete |-> Liked \cup albums \cup Ranked,
      liked    |-> IF config.user THEN Liked ELSE {},
      created  |-> CreditEdges(Credited) \cup CreatorEdges(albums) \cup AlbumArtistEdges(Liked),
      contains |-> {<<AlbumOf[t], t>> : t \in Liked} \cup Listed(Opened)]

Drained == runs > 0 /\ requests = <<>> /\ stores = <<>> /\ follows = <<>>

(* All that the handlers of these URLs write, in some order.                *)
WritesOf(urls) == FlattenSeq([i \in 1..Cardinality(urls) |-> Writes(SetToSeq(urls)[i])])

(* When the queues are empty the graph is the closure of the catalogue: in  *)
(* whatever order the consumers ran, with multi-id endpoints or without, no *)
(* page of a long album, null id, chunk border or depth loses or adds a     *)
(* node, an edge or a payload; and what a lost write leaves out is what its *)
(* message held, so that writing it late completes the graph all the same,  *)
(* the stub album its tracks page created included.                         *)
DrainedGraphIsClosure ==
  Drained => Written(Closure, WritesOf(enriched)) = Written(graph, WritesOf({m.url : m \in lost}))

(* The invariant of albums_of_artist: only the seeder requests an artist's  *)
(* albums, and only of an artist the user likes enough, so the crawl of     *)
(* discographies never spreads over the frontier it discovers, whatever     *)
(* the graph has grown to when the seeder runs again.                       *)
FrontierUncrawled == Seeded \subseteq IF config.discographies THEN Taste ELSE {}

(* The artists that enough liked songs are linked to once the crawl and the *)
(* backfills have written what they write: all of the user's taste, but for *)
(* the performers of liked songs whose albums list no artists.              *)
Linked == Written(Closure, WritesOf(enriched)).created
LinkedTaste ==
  {ar \in Artists : config.user /\ Cardinality({t \in Liked : <<ar, t>> \in Linked}) >= AffinityMin}

(* A run of the seeder over a drained graph that lost nothing seeds every   *)
(* artist that enough liked songs are linked to, in this run or an earlier  *)
(* one, and no other.                                                       *)
TasteSeeded ==
  [][Drained /\ runs' # runs /\ lost = {} /\ config.discographies => Seeded' = LinkedTaste]_vars
=============================================================================
