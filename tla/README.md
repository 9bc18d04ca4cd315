# A verification of spotify-power-browser

TLA+ models of the concurrent and stateful parts of this repository, checked
with TLC on small instances, and theorems proved with TLAPS for instances of
every size: about the crawl and the life cycle it implements, the endpoints and
what they leave in the graph, the section chain, the mastering job, the library
in the graph, the token files, the managed playlists and the clockwork of a
listen session.

Check a model with `tlc -config CrawlFaults.cfg MCCrawl` (the table of runs
below names the module of each configuration) and a proof with
`tlapm CrawlPipeline_proofs.tla`.

## 1. The system

| Component | State it keeps | Operations | Talks to |
|---|---|---|---|
| Seeder and `request_url` (`requests_factory.py`, `cache/redis_client.py`) | the crawled-URL sets in Redis, one for the catalogue and one per user | seed one, all or the primary user; mark, publish, roll back; reset a set; chunk ids for the multi-id endpoints | Redis, RabbitMQ, Neo4j |
| Engine (`api_call_engine.py`) | the message in hand, two retry counters, a cache of access tokens | GET with retries, 401 refresh, next page, fan-out | Spotify, Redis, RabbitMQ, token files |
| Response workers (`response_handlers/`) | nothing between two messages | resolve the handler; write to disk, write to Neo4j, follow links | RabbitMQ, Neo4j, `request_url` |
| Message queue (`message_queue/`) | durable queues, bindings of non-durable exchanges | declare, bind, publish, deliver with auto_ack | all of the above |
| Token store and login (`spotify_authentication/`) | two token files per identity, the marker of the primary user, login states in Redis | refresh, login, save and mirror | Spotify, engine, command line tools, compose's gate |
| Annotations: store (`annotations/model.py`, `queries/annotations/`) | `Section` nodes with a NEXT chain, notes and cues | insert, delete and reopen, nudge | Neo4j |
| Annotations: capture sessions (`listen.py`, `annotate.py`) | an undo stack, cached orders; the last-known playback state, poll timer and back-off | poll, estimate the position, capture, undo, nudge | Spotify's player, the store |
| Playlist sync (`playlists/`) | managed playlists in the graph with their last three targets; the playlists at Spotify | look up, create, record, diff, apply, snapshot | Spotify, Neo4j |
| Entity mastering (`mastering/`, `queries/mastering/`) | Songs, `VERSION_OF` and `REMIX_OF` edges; the owner's overrides file | cluster, override, write in batches | Neo4j, which the crawl and the backfill write meanwhile |
| Backfills (`mastering/backfill.py`, `discovery/backfill_artists.py`) | nothing | read a worklist, fetch batches with bounded retries, write | Spotify, Neo4j |
| Graph writes of the crawl (`queries/*.cypher`, `queries/discovery/`) | tracks, albums, artists and their edges; `LIKED` edges and the legacy flags | idempotent MERGE statements | Neo4j |
| Migrations (`graph_database/migrations/`) | the same | lift the legacy dataset onto its owner; drop it | Neo4j, beside the crawl |
| MCP server, overlap and discovery queries, generators | nothing | read-only queries | Neo4j |
| Mock Spotify, probes, diagrams | test doubles and tools | | |

What is hard in it, and is therefore modelled:

* **Concurrency.** Three callers of `request_url` race for the same URLs, with
  the mark in one server and the publish to another. The workers write the
  graph from which the seeder reads its next seeds and the backfills their
  worklists. Several processes write the same token files without a lock.
  `listen` and `annotate` capture on one track; each query is a transaction, a
  capture is several of them. A migration reads its guard outside its
  transaction while pages of other users are being stored.
* **Failure.** Messages are acknowledged when they are delivered. Marks and
  messages are not one transaction, nor are the two writes of a batch of
  albums, nor requests to Spotify and the record of them in the graph. Bindings
  do not survive a broker restart.
* **Ordering and long sequences.** Boundaries are inserted late, undone in the
  middle and nudged; users are deleted and grants revoked while requests are
  queued; a playlist is edited between two runs; the clusters of tracks change
  between two runs of the mastering job, the second of which has to undo the
  first, dead half-way or not; an album is a stub until its page arrives.
* **Time.** A listen session works with an estimate between two polls, while
  requests take their time, fail or are refused, and a prompt stays open.
* **Termination.** A crawl has no end but that its queues drain.

What makes each component correct, and who checks it, is the table of
properties in section 4; `PROJECT.json` lists the hazards with their lines.

## 2. The modules

| Module | Models | Used by |
|---|---|---|
| `CrawlPipeline` | seeder, `request_url`, engine, workers, queues, tokens as the engine sees them; the web is abstract | `CrawlLifecycle` |
| `KeyLifecycle` | abstract: the life of one entry of a crawled-URL set | `CrawlLifecycle` |
| `CrawlLifecycle` | the refinement mapping from the pipeline to it | `MCCrawl` |
| `MCCrawl` | two webs: liked songs that share an artist; an artist on the last page only | four runs |
| `CrawlPipeline_proofs` | theorems | |
| `Catalog`, `MCCatalog` | the endpoints: what each handler writes and requests, the chunks, the seeds read from the graph, the backfills; transport is reliable | `Catalog` |
| `Catalog_proofs` | theorems | |
| `LibraryGraph`, `MCLibrary` | `LIKED` edges, legacy flags, both migrations | `LibraryGraph` |
| `LibraryGraph_proofs` | theorems | |
| `SectionChain`, `MCSection` | the annotation queries and the captures of the sessions | `Section` |
| `Timeline` | abstract: boundaries on a time line, ends computed from the neighbours | `SectionChain` (`ImplementsTimeline`) |
| `SectionChain_proofs` | theorems | |
| `Playback`, `MCPlayback` | the polling clockwork of a listen session | `Playback` |
| `Playback_proofs` | theorems | |
| `PlaylistSync`, `MCPlaylist` | the sync of managed playlists | `Sync` |
| `PlaylistSync_proofs` | theorems | |
| `TokenStore`, `MCTokens` | token files, refresh, login | `Tokens` |
| `TokenStore_proofs` | theorems | |
| `Mastering`, `MCMastering` | the identity ladder, overrides, song ids, the writes of the mastering job | two runs |
| `Mastering_proofs` | theorems | |

The crawl is cut in three: `CrawlPipeline` has every failure of the transport
over an abstract web, `Catalog` every endpoint over a reliable transport,
`LibraryGraph` the one thing of the graph that several users and a migration
share. The cuts are where the code has its own: the transport handles opaque
URLs, a handler sees a response and never the queue, and only the liked songs
are written per user.

### CrawlPipeline and the code

A message is a record of URL, depth and user. `crawled` is the union of the
Redis sets, each member tagged with its set (`SetKey` is `_set_key`); the
legacy identity (`user_id` None) also names the shared set. What each of the
three callers still has to pass to `request_url` is `todo[p]`, and `marked[p]`
says that the SADD for its head is done and the publish is not: so the two
steps of `request_url` interleave with everything else. `url_is_new` marks and
tests with one SADD, and so does `RequestUrl_Mark`.

The engine goes `idle` - `get` - `respond`, and to `refresh` and back after a
401: `Engine_Take` resolves the user, `Engine_Http500`, `_Http429`, `_Http401`,
`_OtherStatus` and `_Http200` are the branches of `_consume_request`'s loop. A
401 may come whatever the tokens are and as often as Spotify likes; after it
`Engine_Refresh` or `_RefreshFails` follows. After a 200 the next page is
requested (through `todo["engine"]`), and then `Engine_FanOut` passes the
response to one sink after the other. `GiveUp` is the roll back common to
all give-up paths. `Engine_Exception` is what `make_spotify_api_call` swallows.

`lost`, `done` and `released` are history: they record what was lost and why,
what was fetched and fanned out, and which marks were rolled back in which run
of the seeder. `grant` is the state of each identity's tokens. The
interleavings of the files behind it are `TokenStore`'s.

The web is data: `NextPage`, `Continuations` (nested `next` links, followed at
the response's depth by the several-albums and single-album handlers) and
`Links` (neighbours, one hop deeper and only above depth 0). What they are for
each endpoint is `Catalog`'s.

### Catalog and the code

A URL is an endpoint template, the ids it asks for and a page. `Writes(url)` is
`resolve_handler` and the handler's `write_to_neo4j`: a sequence of
transactions, each an `Insert` with the nodes and edges it MERGEs, the nodes
whose payload lands in any case (ON MATCH, coalesce) and those that only get
one when they are new (ON CREATE). `InsertTracks` is what the track queries merge,
in CALL subqueries; `InsertLikedSongs` is the query of the liked songs, whose
chained UNWINDs drop the row of a track whose album lists no artists before its
own are linked (`CreditKept` are the tracks that keep their credits).
`Neighbours(url, depth)` is `follow_links`
below the depth gate, `SeveralAlbums_NextPages` the nested pages ahead of it.
`RequestBatch` is `request_batch`: ids deduplicated in order and cut into
chunks of the endpoint's cap. `Affinity` and `Seedable` are the query for the
user's top artists; the seeder reads them from the graph as it is at that
moment. `At` is a comprehension with a condition, `FirstsOutside` a
`dict.fromkeys`, with or without the marks in the crawled set; of artists liked
equally the query takes the smaller id first, and `DiscographySeeds` either.

Three consumers, the engine, the graph worker and the link worker, each serve
a queue of their own at their own pace. `Backfill_Read`, `_Batch`, `_Retry` and
`_Abort` are `backfill_isrcs` and `backfill_artists`, which share their loop.
`Closure` is the reference: the graph that the catalogue and the configuration
imply, without queues, chunks, depths in messages or the order of anything.

### LibraryGraph and the code

`flagged` and `flag` are `liked_songs` and `date_added_to_liked_songs` on the
track nodes, `liked` the `added_at` of the `LIKED` edges. `Store_Page` is
`insert_batch_of_liked_songs.cypher`: the properties for a page of the legacy
identity, the edge for a page of a user. `Migrate_Guard` is the check
`run.py` makes of migration 0001 ahead of its transaction, `Migrate_Lift` the
transaction, `Migrate_Drop` is 0002. Between any two of these the users like,
unlike and like again, and pages wait in the queue.

### SectionChain and the code

One track: its sections, the NEXT edges, the positions of notes and cues
("pins": they differ in nothing the properties see), and per session the undo
stack, the claimed order and `listen`'s cached next order. Every action is one
Cypher query with the Python around it; `ClaimSectionOrder` and `AddSection`
are two, because the order is read before the section is written.
`insert_section`, `delete_section_and_reopen_previous` and `nudge_annotation`
are translated clause by clause: `LatestBefore` and `EarliestAfter` are the
ORDER BY ... LIMIT 1 subqueries, `Chained` the edges they leave, `Remaining`
and `Bridged` the repair after a deletion, `MayMove` the guards of a nudge.

`Timeline` knows no edges and no derived ends: a set of boundaries, some with
an end of their own. `ImplementsTimeline` says that the queries implement it.

### Playback and the code

The loop in `main` of `listen.py` goes `top` - `fetch` - `select`; from `fetch`
to `refresh` and back after a 401, and to `probe` when the track changed
(`_refresh_graph_membership`); from `select` to `prompt` with a capture key, to
`write` with an undo or a nudge, and to `done`. The rest is `PlaybackTracker`:
`tracker` is the last-known playback state, `sinceReply` the age of
`_polled_at`, `sincePoll` of `last_poll`, `failures` and `backoff` are
`_poll_failures` and `poll_backoff_seconds`, `inGraph` the membership mark of
the status line. `Poll_Answered` and `Poll_Failed` are the two halves of
`poll`, `Fetch_Unauthorized` and `Fetch_Refreshed` the one retry after a 401,
`Position` is `position_ms`. Time passes while a request is under way (up to
its time-out), while `select` waits, and without a limit in the places named
`Waiting`: the token endpoint, the graph, the prompt. Meanwhile the song ends
and another one follows, anybody may touch the device, and the crawl may write
a song.

A key is pressed at any of these times (`Key_Pressed`) and stays in the
terminal until the loop reads it (`Key_Capture`), which may be after the poll
that was under way, with another estimate or on another song. `capture.pressed`
is where the play was when the key was pressed, `capture.truth` where it is when
the key is handled.

`play`, `owed` and `waited` are history. Of the state the session goes by, and
of the answer on its way, `play` says whether the play they show goes on, came
to its end by itself, or was touched; `owed` is what is left of a Retry-After,
less what the refused request had taken; `waited` is the time since the last
poll that went to waiting for keys.

### PlaylistSync and the code

A run of the program is `Start`, `Lookup` (`get_by_generator`),
`CreatePlaylist`, `RecordCreated`, `Lookup` again, `Read` (reading the items,
`compute_diff`, `assert_managed`), one `Send` per request of `apply_diff`, and
`Finish` (`record_sync`). `DiffCalls` is `compute_diff` with `apply_diff`: what
requests a run sends to make the items it read into its target; its list
comprehensions (`Deduped`, `Only`, `Without`) keep the ids `At` the positions
that meet a condition. `Fail` ends a run at any of these points. Between runs the owner may `Edit` a playlist to
anything, local files and duplicates included.

### TokenStore and the code

`api` and `ref` are the two token files of every identity, `primary` the
marker file. A process works through the writes of `refresh_spotify_auth` and
`save_tokens` one file at a time: `legacy_api`, `legacy_ref`, `find_primary`
for the legacy identity, then `own_api`, `own_ref`, `claim`, `mirror_api`,
`mirror_ref`. Spotify's side is `issued` and `valid`: which refresh tokens it
still accepts. It may rotate the token at each refresh or not. `happened` records
whether the install was single-user, processes overlapped, one died, or a user
was deleted: the properties say in which of these histories they hold.

### Mastering and the code

The pure half of the job is operators. `Normalize` takes the marks off the end
of a title: decorations, features of credited artists, and the outermost remix
credit, which it remembers; `Stuck` is how many marks stay. Two patterns do not
stop at a mark: `- live at ...` takes along all that is behind it
(`BeforeLiveAt`), and `feat. ...` without brackets has all that is behind it for
its clause, so that one credited name in it cuts it off with the rest
(`CutFeat`). What is left is compared after `Scrubbed`: `Scrub` maps a name to
what `_scrub` leaves of it, which may be nothing, or the same for two names. `IsrcUnions`,
`LinkedFromUnions`, `HeuristicUnions` and `OverrideUnions` are the pairs that
the four rungs of `cluster_tracks` unite; `Forest` unites them with `Union` and
`Find` of `_UnionFind`; `Clusters` reads the classes off it and `Groups` tears
out the splits, of which the last that names a track has it. `SongId` is
`compute_song_id` with the suffix of a colliding split, `ParentOf` and
`RemixEdges` the look-up of a remix's parent. The specification of all this is
not another union-find: `Connected` says that no set of tracks closed under
`Evidence` parts the two.

The other half is actions. `Run_Begin` reads and decides, `Run_WriteSongs`
writes a batch (`merge_song_clusters.cypher`), `Run_WriteRemixes` the edges
(`merge_remix_of.cypher`); `Run_Dies` ends a run at any point. `InsertTrack`
(a crawl or the ISRC backfill) and `EditOverrides` change the input at any
point, also under a run. `mastered` is history: a run has finished and its
input has not changed since.

### Modelling decisions

The crawl:

* `CRAWLED_URL_DEDUP` is on, as in the default configuration. Redis is empty
  at first, and so are the queues.
* The retry limits are 2 instead of 5; the counters behave alike at any limit.
* A GET that times out is repeated without change of state: a stutter. The
  fairness assumption says that some answer comes; the answer may be a 401 every
  time.
* The users of `--all-users` are seeded in any order.
* The `write_to_sqlite` sink has no consumer and is left out. The files of
  `write_to_disk` and the `crawl_source` tags are written and never read by
  the crawl; they are left out too.
* `Catalog` has all kinds of seeds switched on and seeds in one step (the
  steps of `request_url` are `CrawlPipeline`'s). `me/playlists` stands for both
  endpoints without a handler. The handler of `tracks?ids` is there because
  the ISRC backfill uses it; the crawl itself never requests it.
* A backfill starts when no more than `MaxUnderWay` messages are queued, to
  keep the instance small. `Missing`, a node without its payload, stands for
  `isrc IS NULL` and `popularity IS NULL`: both are part of the payload.
* Names, genres and figures are left out; a payload is there or not.

The library:

* A page is one track, as pages are written track by track and nothing relates
  two tracks. The legacy identity crawls with the token of `Owner`, who is the
  `--me` of the migration; section 5 says what happens otherwise. Dates are
  the order of the likes.

The tools:

* A file is written in one step (the code truncates and writes).
* In a behaviour of `TokenStore` processes die or users are deleted, as often as
  you like, but not both (`Hazard`). Deleting the marker and the legacy files of
  a deleted primary is a step of its own.
* A request whose answer is lost counts as a death after the request.
* A playlist is read in one step, and edited between runs only. A target
  without tracks ends the program before it does anything.
* `update_details` and `touch` change no state the properties see. A dry run
  ends after its diff.
* Ends of their own come through `add_section`'s parameter only; neither tool
  passes one, the tests do.
* In `Playback` time is discrete, a tick is one `select` timeout, and clocks
  are ages that count up to `MaxAge`, beyond which nothing in the program tells
  them apart. `_poll_failures` is counted up to where the cap holds anyway. An
  answer takes at most `Latency` per attempt: `timeout=10` bounds the connection
  and every wait for bytes, so it must not come in drops. All songs have one
  length, and one key at a time waits in the terminal; those read before it are
  `Key_Other`. What is typed while a prompt is open is its answer.

The mastering job:

* A run reads the overrides and the tracks in one step: a change between the
  two reads is the same as one before or after both.
* A title is a name and the marks behind it: a decoration, a remix credit or a
  feature of one artist, and the two with an open clause, "- live at ..." and
  "feat. ..." without brackets. The form "- feat. ...", which is open too and
  tried before the one without a hyphen, is left out. The spelling of marks is left out: no name of a song or an
  artist spells one. Of `_scrub` there is what it makes of the names of artists
  (`Scrub`); two songs have one scrubbed title only if they have one name, and a
  scrubbed text tells where its marks end. Who has a
  CREATED edge (`credited`) only grows. Durations are positive or unknown. Song
  ids are the data they are formatted or hashed from: the hash is taken to have
  no collisions, and batches, written in the order of the ids, come in any
  order. Tracks are numbered in the order of their ids, and local files, which
  the job does not read, are not tracks.
* A clause of a Cypher query reads the graph as the clauses before it left it
  for all rows: `merge_remix_of` finds all stale edges before it merges one.
* Kinds, methods, confidences, titles of Songs and the review report are left
  out; no Song is ever deleted, so Song nodes are not a variable.

## 3. The runs

| Run | Module | Instance | Distinct states |
|---|---|---|---|
| `CrawlFaults` | `MCCrawl` | two users (symmetric) and the legacy identity, four URLs (two pages that link an album with a nested second page), every HTTP answer, one fault out of eight kinds at any point; refinement of `KeyLifecycle` | 616 252 |
| `CrawlReset` | `MCCrawl` | one user, two seeder runs with both resets, the graph worker beside the link worker, and one of: an HTTP error, a handler error, an expired or revoked token, a failed refresh; fairness | 622 304 |
| `Catalog` | `MCCatalog` | sixteen nodes, 24 configurations, two seeder runs, one failing write, one backfill | 455 084 |
| `LibraryGraph` | `MCLibrary` | two users and the legacy identity, two tracks, three likes, two pages in flight, both migrations | 298 976 |
| `Section` | `MCSection` | `listen` and `annotate` at once, three sections (symmetric), one position for ends of their own | 171 197 |
| `Playback` | `MCPlayback` | two songs of two ticks, an interval of one, back-off from one to two, Retry-After up to three, answers within one tick, refreshes, queries and prompts of any length, keys pressed at any time | 2 710 728 |
| `Sync` | `MCPlaylist` | two processes, two generators, four tracks with one unplayable, five targets, three runs, one failure or edit | 2 151 881 |
| `Tokens` | `MCTokens` | two users, two refreshers, two logins, any number of deaths or of deletions, new or single-user install; fairness | 692 997 |
| `Mastering` | `MCMastering` | every library of four tracks of two artists from up to three variants each, with remixes by three, three overrides files, batches of two, two runs, one change of the input; one track has its ISRC only from the backfill | 44 425 |
| `CrawlCrash`, `CrawlReauthorize`, `MasteringRemix` | `MCCrawl`, `MCMastering` | expected to fail, see section 5 | |

Why the bounds are enough: the crawl's properties relate one key to another
caller of `request_url`, or one page to the next, so a page with a successor
and a shared link has every pair; a second fault of the kinds modelled meets
the same states as the first, because a fault leaves no trace but in Redis, in
the queues and in `lost`. The catalogue has a page with a successor of each
paginated endpoint, an id that does not resolve for each kind of batch, a chunk
border and a repeated id, an album that lists no artists, an album that is reached as a liked song's, as a
discography's and as a stub of its own page, and artists on either side of the
affinity. Two pages in flight are one that is older than the other; three likes
are a like, an unlike and another one of somebody else between. Three sections
have a first, a middle and a last one, and every insert or delete touches at
most two neighbours. The times of `Playback` have every order the code
compares them in: a first back-off no longer than the interval and its cap
above, a Retry-After above its own cap, a song shorter than the longest wait. A window of two snapshots over three runs, and two ids
per request for targets of three, pass their limits. Two tokens per user are one
refresh or login beyond the first. Four tracks make a chain of three takes, two
clusters that an override joins, splits that overlap, and a cluster of two
remixes; with two runs and a change before, between or under them every song is
written over what another run left.

`MaxSeedRuns`, `MaxFaults`, `MaxLost`, `MaxBackfills`, `MaxUnderWay`, `MaxDate`,
`MaxPages`, `MaxStarts`, `MaxItems`, `MaxIssued`, `MaxOrder`, `MaxMs`, `MaxRuns`,
`MaxChanges`, and `Playback`'s `MaxAge` and `MaxFailures`, are bounds of the
models and not of the code; so is that no process dies in a history of
`TokenStore` in which a user is deleted, which is in its action `Hazard`.

Deadlock is not checked: every one of these systems may come to rest.

### Fairness

`CrawlPipeline!Fairness` is weak fairness of each process's own next step: the
consumers are `while True` loops around `start_consuming`, the callers of
`request_url` straight-line code, a consumer that lost its binding binds again
after five seconds. There is none for the start of the seeder, for faults, for
logins or for expiry. The engine's answer is a disjunction under one fairness
condition: Spotify may choose any, for ever the same if the code lets it. Against a 500
and a 429 the retry limits make it end, any other status gives up at once. There
is no limit against a 401 after which the refresh succeeds, so `CrawlDrains`
excepts the behaviours that come back to `refresh` for ever; and none against
a time-out of the network, where the model assumes that some answer comes at
last (section 2). `TokenStore!FairSpec` asks that a process
that is saving tokens goes on saving. The other modules claim no liveness:
`Playback` states its deadlines as bounds on ages, which are safety.

## 4. The properties, and slips they catch

Each is checked by a run that passes, and each rejects a wrong variant of an
operation, written next to the right one in the module (`Op_Slip`).

| Property | Says | Slip it catches |
|---|---|---|
| `NoDuplicateInFlight`, `KeysLiveOnce` | a request is under way once; each key is new, pending, fetched or lost and goes back to new only while pending | `UrlIsNew_PerUser`, `UrlIsNew_NotQueued` |
| `InFlightIsFresh` | what is under way is marked and was not fetched | `RetryWith_Unmark`: rolls back at a retry too |
| `MarksAccounted` | every mark belongs to a request under way, done or recorded lost | `GiveUp_EffectiveUser` |
| `PaginationContinues` | the page after a page that was fanned out is requested, as the user that fetched it | `Engine_FanOut_BeforeNextPage` |
| `LinksFollowed` | the links of a handled response are requested | `ShouldRequest_PositiveDepth` |
| `RetriedAfterReauthorization` | with `RESET_CRAWL`, what was rolled back is fetched by a later run | `Seeder_NextUser_NoReset` |
| `CrawlDrains` | the crawl ends: every queue is empty and nobody has work; unless Spotify for ever refuses the tokens it has just issued | `GiveUp_Requeue` |
| `DrainedGraphIsClosure` | a drained crawl leaves exactly the graph the catalogue and the configuration imply (a liked song whose album lists no artists keeps its performers only where another query wrote them); a lost write leaves out what it held and no more | `InsertAlbums_NoUpgrade`: a stub stays a stub |
| `FrontierUncrawled` | discographies are crawled of artists the user likes enough by the credits, never of those the crawl discovers | `Affinity_AnyTrack` |
| `TasteSeeded` | ... and of all those that the graph links enough liked songs to, by a run after a drained crawl | `Seedable_Strict` |
| `NoGhostOwnership` | a user's `LIKED` edge is of a track served to that user's token | `LegacyProps_AnyPage` |
| `LikesNeverGoBack` | the date of a `LIKED` edge is never set back or lost | `Lift_FlagFirst` |
| `ChainIsTimeOrder` | NEXT is the order of the starts | `Chained_KeepsOldEdge` |
| `UndoRestores` | undo gives back the graph from before | `Remaining_ErasesExplicit` |
| `ImplementsTimeline` | the queries implement the plain time line: ends, neighbours, undo and nudges | `InsertSection_ClosesExplicit` |
| `RecordsMatchGraph` | a session's copy of a capture is where the graph has it | `Nudge_MovesLocally` |
| `CapturesWithinLatency` | unless somebody touched the device since the player was asked, a capture is of the play that was shown, and behind where it is when the key is handled, where it was when the key was pressed, or its end if it is over, by an answer's latency at most | `Position_Unclamped`: runs past the end of the song |
| `FailuresAreForewarned` | a capture that fails for want of its track was marked NOT IN GRAPH | `Poll_Answered_MarksOnce` |
| `PollsOnTime` | the loop waits for keys no longer than its caps between two polls, and no request begins before a Retry-After is over but for the time the refused request took | `Backoff_Uncapped` |
| `SyncRealizesTarget` | a run that gets to its end leaves the target, whatever earlier runs and edits did | `NeedsRewrite_OrderOnly` |
| `OneManagedPerGenerator` | a run takes up the playlist of an earlier one | `Lookup_WantsSynced` |
| `SnapshotIsCurrent` | while nothing fails and nobody edits, a run leaves the playlist as the newest snapshot says, also when it found nothing to change | `Finish_RecordsContent` |
| `FiledUnderOwner` | a user's files hold that user's tokens: on an install that began without users, whatever overlaps or dies while nobody is deleted; on any install, whoever is deleted, with one process at a time and no deaths | `WhoAmI_Assumed` |
| `RefreshTokenUsable` | with one process at a time, no deaths and no deletions the refresh token on file is one Spotify accepts | `Refresh_Granted_KeepsOld` |
| `PrimaryIsSticky` | only a login fills an empty slot, only a deletion empties it | `ClaimPrimary_Always` |
| `GateOpens` | a claimed slot opens compose's gate | `ClaimPrimary_NoMirror` |
| `OneSongPerTrack` | a track has one song, at any time | `MergeSongClusters_KeepsStale` |
| `IdsDistinct` | no two groups have one song id | `SongId_Natural` |
| `MasteredByEvidence` | a finished run has put together what the evidence connects and no split parts, whatever runs before left | `Union_NoFind` |
| `RemixesApart` | title and duration never unite a remix with its original or with another's remix, where no open clause swallows the credit and the names differ after `_scrub` | `Normalize_LastCredit` |
| `RemixesRepointed` | ... and left a remix with resolvable parents no other edge | `MergeRemixOf_KeepsStale` |
| `TypeOK` | types and what goes with them: retry counters below their limits, chunks within their caps, no edge without its ends, both legacy properties or neither, positions not negative, a back-off exactly while polls fail, the window within its size, a refresh token to save, no song without a track | `Engine_Http500_OneMore`, `RequestBatch_KeepsDuplicates`, `Migrate_Drop_KeepsDates`, `NudgedTo_NoFloor`, `Poll_Answered_KeepsBackoff`, `Pushed_NoLimit`, `Refresh_Granted_NoFallback`, `Groups_KeepsEmpty` |

## 5. Where the code and its documents differ

Three runs end in a counterexample; `PROJECT.json` quotes the lines.

* `CrawlCrash`: messages delivered to a consumer are acknowledged at once, so a
  consumer that dies loses them, durable queues or not.
* `CrawlReauthorize`: a page rolled back after a revoked grant is not reached
  by a later run, because the page before it is still marked. `CrawlReset`
  shows that `RESET_CRAWL` repairs it.
* `MasteringRemix`: one recording that is listed as a remix of two songs gives
  two rows for one remix Song, and `merge_remix_of.cypher` keeps both edges.

Seen while modelling and not given a run of their own:

* `docs/architecture.md` calls a failed fetch "the one loss window". A publish
  that no queue receives (before the consumer bound it, or after a broker
  restart) and an exception that the engine swallows leave marks as well;
  `lost` records each kind, and `MarksAccounted` shows that there is no other.
* A deployment that is first crawled with `DEPTH_OF_SEARCH=2` and without
  discographies, and then with `CRAWL_ARTIST_DISCOGRAPHIES`, finds its batches
  of albums marked, so their embedded tracks are not written until the sets are
  reset.
* `single_album.py:44-47` speaks of a tracks-of-album handler to come; it is
  there. With discographies enabled, the multi-id and the single endpoints lead
  to different graphs: only the former opens the albums of liked songs.
* The disk snapshots of the single handlers are named by the cleaned name of
  the item alone, so two of one name overwrite each other. Artists that
  `insert_batch_of_albums` creates carry no `crawl_source` tag.
* A `LIKED` edge is never removed when a user unlikes a track.
  `run.py:86-93` says that per-user crawls may have set `liked_songs`; the
  query sets it for legacy pages only, which is what `NoGhostOwnership` rests
  on. The default `--me` is the present primary: when that is not the user
  whose token filled the legacy dataset, 0001 lifts another's history.
* `listen.py` computes `2 ** (failures - 1)` with a float interval: after some
  thousand failures in a row it raises OverflowError, although `poll`'s
  docstring says that it never raises. Exceptions other than those of
  `requests` leave `poll` and `handle_key` too, and with them the session's
  summary. The wait for a Retry-After counts from before the request
  (`listen.py:461`), so it is short of what the docstring of line 111 promises
  by what the answer took; `PollsOnTime` says by how much.
* "Positions are captured AT KEYPRESS TIME" (`listen.py:11`): that is so for a
  key pressed while the loop waits for one. A key pressed while a poll, a token
  refresh or a query is under way is read after it, and captured where the song
  is by then, or on the next song; `capture.pressed` is there to say so.
* The refresh of the token in a listen session has no time-out
  (`refresh_token.py:40`), although the request before it has one because "a
  hung poll would freeze the whole capture loop" (`listen.py:357`).
* Every give-up of the engine has a limit but one: while refreshes succeed and
  Spotify goes on answering 401 (`api_call_engine.py:154-175`), the request is
  repeated without a pause, and the single consumer does nothing else.
* A liked song whose album lists no artists loses its performers:
  `insert_batch_of_liked_songs.cypher:76-112` unwinds the album's artists first.
  The track queries had this fault and were given CALL subqueries
  (`tests/test_neo4j_cypher.py:36-49`). The affinity of a user counts the edges
  that are missing then, so an artist may not be seeded.
* "Foo - Live at Home (B Remix)" has the key of "Foo" (`normalize.py:46` takes
  what is behind `live at` along), "Foo feat. A (B Remix) (C Remix)" with A
  credited that of "Foo (C Remix)" (line 73), and the remixes of two artists of
  whose names `_scrub` leaves nothing have one key. `normalize.py:8` says that a
  remix can never merge with its parent.
* A run killed between `create_playlist` and `record_created` leaves a playlist
  that no managed-playlist node records, so the next run creates another. Two
  runs at once for one generator create two.
* A run killed between its last request and `record_sync` leaves a target that
  no snapshot records, neither then nor later: the next run has nothing to do.
* Two saves of the primary's tokens interleave file by file, and the older
  refresh token may stay (`docs/auth.md` says that refreshes are mirrored both
  ways); `RefreshTokenUsable` holds for processes that take turns.
* The REMIX_OF edge of a remix whose parent is no longer resolvable stays:
  `merge_remix_of` only visits remixes that have a parent.
* A target with a track that the API skips is never in line, so every scheduled
  run pushes it again.
* A legacy refresh files its tokens under whoever is primary when it looks
  (`refresh_token.py:58-72`). On a single-user install, when somebody else logs
  in as the first user while it is under way, or logs in and dies between
  claiming the slot and mirroring their tokens, these are not their tokens. The
  same goes for an install whose primary was deleted while a refresh was under
  way that wrote the legacy files again. `FiledUnderOwner` excludes the histories
  in which two of these things can meet, and no more.

## 6. What is proved

The theorems hold for every value of the constants that satisfies the named
assumptions: any web, users, faults and bounds for the crawl; any users, tracks
and number of likes for the library; any number of sections, sessions and
positions for the annotations; songs of any length, any interval, caps and
latency for the playback; any users and processes for the token store; any
generators, processes, targets and playlists, chunks and windows of any size
for the sync; any library, overrides, tolerance and batch size for the
mastering job; any finite catalogue, pages, caps and configurations for the
endpoints.

**CrawlPipeline_proofs.** `TypeCorrectness` needs one addition to `TypeOK`: a
caller with a mark has a request at hand, a busy engine holds a request, and
the engine calls `request_url` only after a 200 (`CallShape`). Without it
`Head(todo[p])` and the key of the engine's message have no type.
`Deduplication` and `FetchedOnce` follow from one inductive invariant,
`DedupInv`: no two of the places a request can be in (the queue, the engine,
the hands of a caller) hold the same key, every key in them is marked and not
fetched. Each action moves a key from one place to another, adds one that was
not marked, or drops one. They assume that no run of the seeder resets the
sets (`NoReset`): with a reset the property is false, the duplicates are real.
`MarksExplained` holds with resets too. `TypeCorrectness` has `depth : Nat` of
every message, so the early return of `request_url` for a negative depth is
never taken.

`NextPageAsked` follows one page through the hands of the engine: `AsksFirst`
says that a page is fanned out only after its successor was passed to
`request_url`, `AskedOrLost` that a key that was asked for is marked, rolled
back or recorded as lost. `LinksAsked` is the same for the list of links the
worker has in hand. Both assume `NoReset`: a reset removes marks of pages that
will not be visited again in that run.

`RolledBackIsRetried` (`Repeatable`) is about a second run of the seeder after
a reset of both sets. Its invariant, `RetryInv`: whatever was ever marked was
reached from the seeds (`Reachable`); of what the present run fetched without a
loss, the successor and the links are marked (`GoesOn`); and its seeds are
(`SeedsAsked`). When that run ends clean, its marks are closed under "leads to"
and hold the seeds, so they hold whatever was ever reached, and what was rolled
back in an earlier run with it. The hypotheses are what this needs: one user,
and no page of the catalogue that leads into the user's own library (whose
marks another user's reset would remove under way, in the run's instance there
is none); no crash and no deleted user, as a seeder that is killed, or finds its
user gone, before its first request has recorded no loss.

`LifecycleImplemented`: under `NoReset` the pipeline
implements `KeyLifecycle` (which keys are under way, done and stranded is the
mapping). It rests on `DedupInv`: a key that leaves its one place is in no
other, so it is done, stranded or new again, and a key that enters a place was
none of these. A step of the pipeline is one of three abstract steps or a
stutter; the lemmas `LifeRequests`, `LifeFetches`, `LifeFails` say which.

**Catalog_proofs.** A good part of the module is about lists. The library's
induction cannot be instantiated (its theorems take an operator), so
`AllNaturals` and `AllSequences` say it of sets, from the library's theorem on
the strict subsets of a finite set: a set of sequences that has the empty one
and every extension of its members has them all. From them come what the
recursive functions and the operators of the community modules return: `AtType`
and `FirstsOutsideIs` (filters, first occurrences), `FlattenIs`, `ChunkIs` and
`ChunkedIs` (the bounds of chunks, through integer division), `WrittenKeeps`
(a sequence of transactions), `SetToSeqIs` and `InjectiveCovers` (an
enumeration of a finite set misses nothing).

`CatalogTypes` and `FrontierIsUncrawled` come from one invariant, `TypeInv`: what
a queue, the crawled set and the history of losses hold is a `Message`, a URL
whose ids are of its endpoint's kind, whose page exists, and that is `Proper`:
within the cap, without a repeated id, and for the albums of an artist only of
one in the user's taste. The graph holds only edges the catalogue has and only
liked songs the catalogue lists. So the affinity the seeder reads is at most
the one in the catalogue (`SeedableIsTaste`), whatever the crawl of
discographies has added to the graph; that no handler asks for a discography is
a property of every `Neighbours` (`NeighboursAre`), not of a scenario.

`TasteIsSeeded` is the other direction: who is linked to enough liked songs in a
drained graph is seeded, which the credits alone do not say (a liked song whose
album lists no artists). It takes that graph from `DrainedIsClosure`, with its
hypothesis, and from `SeededInv` that the artists of earlier runs were linked to
enough already. Both need `CoverInv`: a request in the
crawled set is gone at Spotify, in the engine's queue, or through it, and then
its successor and its links are marked or to be followed, and what it writes is
in the graph, to be written, or lost. In a drained graph that lost nothing an
induction over the pages of the liked songs gives all of them, so the seeder
reads what the closure links.

`DrainedIsClosure` is about all of the graph. From below it also rests on
`CoverInv`, and on what a handler requests at the least (the `...Ask` lemmas:
every id is in some chunk, every page but the last names the next). When the
queues are empty nothing is on its way, and from the first page of the liked
songs on, over pages, albums and discographies, everything the closure has was
delivered or is among the lost writes. From above, `ExpectInv` says what each
depth may ask for, and `GraphInv` that the graph stays under every graph that
holds the closure and the enrichments of the backfills. That the payloads agree
too, though a tracks page may create an album as a stub which another handler's
ON MATCH has to complete, needs `NoStubs`: every album in the graph has its
payload or is named by an `albums?ids` request in the crawled set (`Openers`),
whose write is to come, was lost, or has completed it.

Its hypothesis is SeedDepth >= 2; the source sets
`DISCOGRAPHY_SEED_DEPTH = 2`. It is needed: with 1 the albums of a discography
are opened, but the depth gate stops the requests for their artists, and TLC
finds a drained graph without them. Preparing the proof corrected the reference:
`Ranked` counted the artists of a liked album that Spotify no longer resolves,
which nobody can ask for; the run's liked albums all resolve, so TLC had not
met it.

**LibraryGraph_proofs.** `NoGhosts` needs that what is queued or flagged was
served to the token it is filed under (`PagesServed`, `FlagsServed`): then it
does not matter what the guard of 0001 saw. `LikesOnlyAdvance` needs
`Chronology`: what the graph knows of a track is no later than the pages queued
for it, these are in the order of their dates, and none is later than the
library as it is.

**SectionChain_proofs.** The invariant `ChainInv` is `ChainIsTimeOrder`,
`DerivedEnds` and `EndNotBeforeStart` together: an insert finds the right
neighbours only in a chain in time order, and a nudge may rely on ends that
follow it. That the latest section before a position exists when there is any
comes from the library's theorem on strict orders over finite sets. The last
two are proved only (`EndsFollowNeighbours`, `NoInvertedSection`); the run
checks them through `ImplementsTimeline`. From the invariant follow
`UndoGivesBack` (an action property) and `TimelineImplemented` (the initial
state maps to an initial state, every step to a step or a stutter).
`UndoKnowsGraph` needs besides that two records, of one session or two, are
never of the same node (`RecordsApart`): then a delete or a nudge, which
changes one node and one record, leaves the others in agreement.

**Playback_proofs.** `Accurate` needs `Behind`. While the play an answer shows
goes on, the device is ahead of the answer by at most the ticks this attempt has
taken (`AnswerBehind`), and ahead of the estimate by at most an answer's time
(`TrackerBehind`): both advance alike, the clamp at the end of the song and the
saturation of the clocks included. When the play has come to its end, the answer
or the estimate was that close to the end, and stays so. And a key that waits was
pressed no later in the play than the device is now (`KeyBehind`), so the bound
goes for the press as for the handling. `Forewarned` needs that the mark is
about the tracker's song, also after answers without playback (`Marks`).
`OnTime` needs how the clocks relate at each place of the loop (`Clocks`): what
was waited is less than the age of the last poll and below the caps wherever the
loop waits again; and a Retry-After is over when the back-off is, since both
count from before the refused request. `PlaybackTypes` needs that powers of two are positive, an
induction over the numbers; the prover knows no law of `^`, so the model has
them as a recursive function (`PowersOfTwo`).

**TokenStore_proofs.** Types need that each process is on the path of its own
writes with a token in hand (`Paths`). `FilesUnderOwner` needs `OwnerInv`, for
the histories in which the property claims something (`Sane`): a process files
under the user whose tokens it holds, and the legacy files hold the primary's
tokens. On an install that was single-user, or after a deletion, they may be
somebody's while there is no primary (`LegacyOf`); then one process at a time is
at work and none dies, so a login that claims the slot has mirrored its tokens
before anybody reads the legacy files. `Kept` says that a user's files stay while
nobody is deleted, so a primary is not displaced. What breaks in the other
histories is in section 5. `PrimarySticks` is an action property from the same types.
`TokensStayUsable` assumes nothing: the property itself is about histories in
which processes took turns. Its invariant, `UsableInv`, says what Spotify
accepts at each point of a save: the token in hand (`InHand`), the one the
process is about to replace when Spotify does not rotate (`Pending`), the
mirrored files equal to the user's own once nobody is at work (`Mirrored`).

**PlaylistSync_proofs.** `TypeCorrectness` assumes nothing. The others assume
that no two processes run for one generator, without which they are false.
`ManagedOnce`: while a process is about to create or to record a playlist, its
generator has none, and no two processes record the same one. That a failed run
gives up its unrecorded playlist is part of it.

`SyncRealizes` needs what the lists of the diff are, for lists of any length.
The library's induction takes an operator and cannot be used, so
`AllSequences` says it of sets: a set of sequences that has the empty one and
every extension of its members has them all. From it come the lemmas on filters
and duplicates (`OnlyType`, `OnlyTwice`, `OnlyConcat`, `DedupedIs`,
`InjectiveLen`), and `ChunkedIs`: the first request has the first ids, the
others are the requests for the rest. `Remaining` is the invariant of a run
that applies its diff: what is still to be sent, removed and appended at once,
would realize the target. `DiffRealizes` establishes it for either branch of
`compute_diff`, whatever is in the playlist, `SentRealizes` keeps it over one
request, `NoneRealizes` ends with it. It is the run's own playlist all the
while, because it is recorded for the run's generator (`Placed`).
`SnapshotsAreCurrent` adds `Current`: as long as nothing failed, a playlist
that no run is changing is as its newest snapshot says or was never touched,
and a run with nothing to send has found a playlist that is not empty.

**Mastering_proofs.** `TrackHasOneSong` needs that the songs a run has still
to write do not overlap (`Disjoint`): otherwise a batch with two songs of one
track would add two edges. Groups do not overlap whatever the union-find
computes, because they are classes of a function and the later of two splits
wins.

What the union-find computes is proved from its code. `RootsExist`,
`FoldExists` and the library of induction over sets (`LeastNatural`,
`LeastSubset`: a first case that fails has one before it) turn the recursions
of `Find` and `Forest` into equations; for this `Forest` is written as a
recursive function, not as a fold of the community modules, which the prover
cannot look into. `UnionFinds`: links go down, and a union moves the members of
one class to the other's root and nobody else. `FoldUnites`: whatever the order
of the unions, two tracks have one root exactly if the unions connect them
(`Joined`). What the unions are is the other half: `SpokesJoin` for the rungs
that unite the first of a group with the others, and `NeighboursLead` for the
one that unites neighbours by duration, where the chain from one track to
another within the tolerance never has a gap wider than the tolerance. With
them `ClassesByEvidence`: the classes are what the evidence connects, and
`GroupsByEvidence`: the groups are that, up to the splits.

`IsrcsAreUnited` and `IdsAreDistinct` follow: two groups with one natural id
have a track in common or tracks of one ISRC, so one of them was split off, and
then the suffix, which is made of its own tracks, tells them apart. The `raise`
in `cluster_tracks` is never reached, as its comment says.

`RemixesFollowTheirParents` and `SongsFollowEvidence` rest on `RunInv`: what a
run has written so far and what it has still to write make up, together, the
songs and edges it decided on (`UnderWay`), and after its end the graph has
them all and of each track and remix nothing else (`Mastered`), until the input
changes. So the songs in the graph are the groups, and `GroupsByEvidence` says
what these are. `RemixesStayApart` needs that a normalized title keeps the
remixers of the original one (`NormalizeKeeps`), where no open clause swallows a
credit: then no remix stands between the point where an open feature cuts the
title and what had come off behind it, and each one that came off is remembered
(`Peeled` names the steps of the loop for this).

**Only model-checked.**

* Liveness, which needs fairness and ENABLED and is out of the prover's reach:
  `CrawlDrains`, `GateOpens`.
* `RetriedAfterReauthorization` beyond the hypotheses of its theorem.

## 7. Plan

Done, in this order: the crawl and its theorems, the section chain and its
theorems, the playlist sync, the token store, the mastering job and its
theorems, the endpoints and what they leave in the graph, the library and its
migrations, the playback clockwork, the refinement of the crawl's life cycle,
and the theorems about library, tokens, playlists and playback, then those that
follow one page, one record, one token or one target through every step, what
the union-find computes, what the endpoints request and record, and the graph
a drained crawl leaves.

What could follow: two sessions of `Playback` over one `SectionChain`.

### Not modelled

* The read-only queries (overlap, discovery rankings, fetches), the playlist
  generators and the MCP server keep no state. What a generator returns is an
  arbitrary target in `PlaylistSync`.
* `initialize_database_environment.py` and `connect.py`: idempotent constraint
  statements and a driver wrapper.
* The mock of Spotify is a test double of what `Catalog` and `CrawlPipeline`
  model from the code's side.
* The text interface of `listen` and `annotate` (keys, prompts, parsing of
  positions, formatting), logging, configuration, compose's start-up order, the
  probes and the diagram generator.
* Two transactions that insert a section at the same start at the same time:
  a query is taken as atomic.
