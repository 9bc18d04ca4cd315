---------------------------- MODULE LibraryGraph ----------------------------
(***************************************************************************)
(* Who likes what.  Ownership of a track exists twice in the graph: as the *)
(* node properties liked_songs and date_added_to_liked_songs of the        *)
(* single-user days (the legacy dataset, kept for rollback) and as         *)
(* (:User)-[:LIKED {added_at}]->(:Track).  Three writers share them: the   *)
(* write_to_neo4j worker, storing pages fetched for a user or for the      *)
(* legacy identity; migration 0001, which lifts the legacy dataset onto    *)
(* one user; and migration 0002, which drops it.  Users go on liking,      *)
(* unliking and liking again meanwhile.                                    *)
(*                                                                         *)
(* A page is a snapshot of one track of a library, taken when the engine   *)
(* fetches it and stored when the worker comes to it, in order.            *)
(***************************************************************************)
EXTENDS Integers, Sequences, FiniteSets

CONSTANTS
  Users, Tracks,
  Owner,        \* whose token the legacy identity crawls with: the --me of 0001
  Legacy,       \* the envelope without a user
  ManagedOwners,    \* owners of managed playlists
  MaxDate,      \* bound on the likes
  MaxPages      \* bound on the pages in flight

ASSUME LibraryAssumption ==
  /\ Owner \in Users /\ Legacy \notin Users /\ ManagedOwners \subseteq Users
  /\ MaxDate \in Nat /\ MaxPages \in Nat

VARIABLES
  library,      \* Spotify: when a user liked a track, 0 when not liked
  now,          \* the date of the latest like
  stores,       \* pages the worker has yet to store: [user, track, at]
  flagged,      \* the nodes whose liked_songs is true
  flag,         \* their date_added_to_liked_songs, or 0 where there is none
  liked,        \* added_at of a LIKED edge, or 0 where there is none
  anchored,     \* owners of managed playlists with a HAS_MANAGED edge
  migration,    \* "idle", or "guarded": 0001 between its guard and its transaction
  lifted,       \* 0001 has committed
  served        \* history: the tracks fetched with the token of a user

vars == <<library, now, stores, flagged, flag, liked, anchored, migration, lifted, served>>

Dates    == 0..MaxDate
Bearer(user) == IF user = Legacy THEN Owner ELSE user
PageType == [user : Users \cup {Legacy}, track : Tracks, at : Dates \ {0}]

Init ==
  /\ library = [u \in Users |-> [t \in Tracks |-> 0]]
  /\ now = 0
  /\ stores = <<>>
  /\ flagged = {} /\ flag = [t \in Tracks |-> 0]
  /\ liked = [u \in Users |-> [t \in Tracks |-> 0]]
  /\ anchored = {}
  /\ migration = "idle" /\ lifted = FALSE
  /\ served = [u \in Users |-> {}]

-----------------------------------------------------------------------------
(* A user likes a track, or likes it again, or unlikes it.                  *)
Like(u, t) ==
  /\ library[u][t] = 0 /\ now < MaxDate
  /\ now' = now + 1
  /\ library' = [library EXCEPT ![u][t] = now']
  /\ UNCHANGED <<stores, flagged, flag, liked, anchored, migration, lifted, served>>

Unlike(u, t) ==
  /\ library[u][t] # 0
  /\ library' = [library EXCEPT ![u][t] = 0]
  /\ UNCHANGED <<now, stores, flagged, flag, liked, anchored, migration, lifted, served>>

(* The engine fetches a page for a user, or for the legacy identity with    *)
(* the token of its owner.                                                  *)
Fetch_Page(user, t) ==
  LET bearer == Bearer(user) IN
  /\ library[bearer][t] # 0 /\ Len(stores) < MaxPages
  /\ stores' = Append(stores, [user |-> user, track |-> t, at |-> library[bearer][t]])
  /\ served' = [served EXCEPT ![bearer] = @ \cup {t}]
  /\ UNCHANGED <<library, now, flagged, flag, liked, anchored, migration, lifted>>

(* insert_batch_of_liked_songs: the legacy properties of a legacy page      *)
(* only, the LIKED edge of a user's page only; the later added_at stands.   *)
LegacyProps_AnyPage(page) ==
  /\ flagged' = flagged \cup {page.track}
  /\ flag' = [flag EXCEPT ![page.track] = page.at]

LegacyProps(page) ==
  /\ flagged' = IF page.user = Legacy THEN flagged \cup {page.track} ELSE flagged
  /\ flag' = IF page.user = Legacy THEN [flag EXCEPT ![page.track] = page.at] ELSE flag

Edges(page) ==
  IF page.user = Legacy THEN liked ELSE [liked EXCEPT ![page.user][page.track] = page.at]

Store_Page ==
  /\ stores # <<>>
  /\ stores' = Tail(stores)
  /\ LegacyProps(Head(stores))
  /\ liked' = Edges(Head(stores))
  /\ UNCHANGED <<library, now, anchored, migration, lifted, served>>

-----------------------------------------------------------------------------
(* 0001 reads, ahead of its transaction, whether an edge is someone else's. *)
StillPreMultiplayer == \A u \in Users \ {Owner}, t \in Tracks : liked[u][t] = 0

Migrate_Guard ==
  /\ migration = "idle" /\ StillPreMultiplayer
  /\ migration' = "guarded"
  /\ UNCHANGED <<library, now, stores, flagged, flag, liked, anchored, lifted, served>>

(* The transaction: an edge of the owner for every flagged track, dated     *)
(* coalesce(l.added_at, t.date_added_to_liked_songs), and an anchor for     *)
(* every managed playlist.                                                  *)
Lift_FlagFirst(t) == IF t \in flagged THEN flag[t] ELSE liked[Owner][t]

Lift(t) == IF t \in flagged /\ liked[Owner][t] = 0 THEN flag[t] ELSE liked[Owner][t]

Migrate_Lift ==
  /\ migration = "guarded"
  /\ migration' = "idle" /\ lifted' = TRUE
  /\ liked' = [liked EXCEPT ![Owner] = [t \in Tracks |-> Lift(t)]]
  /\ anchored' = anchored \cup ManagedOwners
  /\ UNCHANGED <<library, now, stores, flagged, flag, served>>

(* The transaction fails and is rolled back.                                *)
Migrate_Fails ==
  /\ migration = "guarded"
  /\ migration' = "idle"
  /\ UNCHANGED <<library, now, stores, flagged, flag, liked, anchored, lifted, served>>

(* 0002, marked DO NOT RUN: forced once 0001 has run.                       *)
Migrate_Drop_KeepsDates ==
  /\ lifted /\ migration = "idle" /\ flagged # {}
  /\ flagged' = {}
  /\ UNCHANGED <<library, now, stores, flag, liked, anchored, migration, lifted, served>>

Migrate_Drop ==
  /\ lifted /\ migration = "idle" /\ flagged # {}
  /\ flagged' = {}
  /\ flag' = [t \in Tracks |-> IF t \in flagged THEN 0 ELSE flag[t]]
  /\ UNCHANGED <<library, now, stores, liked, anchored, migration, lifted, served>>

Next ==
  \/ \E u \in Users, t \in Tracks : Like(u, t) \/ Unlike(u, t)
  \/ \E user \in Users \cup {Legacy}, t \in Tracks : Fetch_Page(user, t)
  \/ Store_Page
  \/ Migrate_Guard \/ Migrate_Lift \/ Migrate_Fails \/ Migrate_Drop

Spec == Init /\ [][Next]_vars

-----------------------------------------------------------------------------
(* The legacy dataset is a set of dated flags: a node has both properties    *)
(* or neither, whatever the worker and the migrations made of them.         *)
TypeOK ==
  /\ library \in [Users -> [Tracks -> Dates]]
  /\ now \in Dates
  /\ stores \in Seq(PageType) /\ Len(stores) <= MaxPages
  /\ flagged \subseteq Tracks
  /\ flag \in [Tracks -> Dates] /\ \A t \in Tracks : flag[t] # 0 <=> t \in flagged
  /\ liked \in [Users -> [Tracks -> Dates]]
  /\ anchored \subseteq ManagedOwners
  /\ migration \in {"idle", "guarded"}
  /\ lifted \in BOOLEAN
  /\ served \in [Users -> SUBSET Tracks]

(* No ghost ownership: a LIKED edge of a user is of a track Spotify served  *)
(* to that user's token.  The guard of 0001 is read outside its             *)
(* transaction, so the edges of another user may be stored in between;      *)
(* what keeps them from being lifted onto the owner is that only legacy     *)
(* pages write the legacy properties.                                       *)
NoGhostOwnership == \A u \in Users, t \in Tracks : liked[u][t] # 0 => t \in served[u]

(* When a user liked a track is never forgotten nor set back: neither by a  *)
(* second run of 0001 over what an older legacy crawl left on the node, nor *)
(* by a page that waited in the queue.                                      *)
LikesNeverGoBack == [][\A u \in Users, t \in Tracks : liked'[u][t] >= liked[u][t]]_vars
=============================================================================
