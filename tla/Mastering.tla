------------------------------ MODULE Mastering ------------------------------
(***************************************************************************)
(* The mastering job: it reads the tracks of the graph, decides with a     *)
(* ladder of evidence and the owner's overrides which of them are one      *)
(* song, and points every track at its Song (VERSION_OF) and every remix   *)
(* at the Song it is a remix of (REMIX_OF).  The songs are written in      *)
(* batches of one transaction each; the crawl, the ISRC backfill and the   *)
(* owner's editor go on meanwhile, and a run may die between two batches.  *)
(*                                                                         *)
(* A title is a name with marks behind it, as in "Foo (feat. B) (A Remix)  *)
(* - 2011 Remaster": a mark is known by what the patterns of normalize     *)
(* make of it, and what _scrub leaves of the name and the marks is taken   *)
(* to tell where each of them ends.  Song ids are the data they are        *)
(* formatted or hashed from: distinct data, distinct ids.                  *)
(* Definitions named Op_Slip are wrong variants, see the README's table.   *)
(***************************************************************************)
EXTENDS Integers, Sequences, FiniteSetsExt, SequencesExt

CONSTANTS
  Tracks,         \* Spotify ids, numbered in their order as strings
  Absent,         \* the track is not in the graph
  NoTrack,        \* the track is not relinked
  Isrcs, NoIsrc,
  Artists, NoArtist,
  Scrub,          \* what _scrub leaves of an artist's name, if anything
  Names, NoName,  \* what it leaves of titles before their marks
  Titles,
  Tolerance,      \* DURATION_TOLERANCE_MS
  Libraries,      \* the tracks the graph may hold at first
  Payloads,       \* what Spotify may send of a track
  OverrideFiles,  \* what the overrides file may say
  BatchSize,      \* CLUSTER_WRITE_BATCH_SIZE
  MaxRuns,        \* how often the job is started (bound)
  MaxChanges      \* how often its input changes (bound)

Unknown == 0      \* duration_ms of a track is positive, or null

(* "- Live at ..." and a "feat." without brackets go on to the end of the  *)
(* title, whatever comes behind them.                                      *)
Kinds == {"decoration", "live_at", "remix", "feat", "open_feat"}

Mark == [kind : Kinds, by : Artists \cup {NoArtist}]

(* artist is the first of artist_ids, credited who has a CREATED edge.     *)
Record == [isrc : Isrcs \cup {NoIsrc}, linked : Tracks \cup {NoTrack},
           artist : Artists \cup {NoArtist}, credited : SUBSET Artists,
           title : Titles, ms : Nat]

Overrides == [merges : SUBSET SUBSET Tracks, splits : Seq(SUBSET Tracks)]

ASSUME MasteringAssumption ==
  /\ Tracks \subseteq Nat /\ IsFiniteSet(Tracks) /\ NoTrack \notin Tracks
  /\ NoIsrc \notin Isrcs /\ NoArtist \notin Artists /\ Absent \notin Record
  /\ Isrcs \cap Tracks = {}
  /\ Scrub \in [Artists \cup {NoArtist} -> Artists \cup {NoArtist}]
  /\ Scrub[NoArtist] = NoArtist
  /\ Titles \subseteq [name : Names \cup {NoName}, marks : Seq(Mark)]
  /\ Tolerance \in Nat /\ BatchSize \in Nat \ {0}
  /\ MaxRuns \in Nat /\ MaxChanges \in Nat
  /\ Libraries \subseteq [Tracks -> Record \cup {Absent}]
  /\ Payloads \in [Tracks -> SUBSET Record]
  /\ OverrideFiles \subseteq Overrides

VARIABLES
  track,       \* the Track nodes
  overrides,   \* the overrides file
  versionOf,   \* VERSION_OF, from tracks to song ids
  remixOf,     \* REMIX_OF, from song ids to song ids
  run,         \* the job: what it has decided and not yet written
  mastered,    \* history: the graph says what a run made of today's input
  runs, changes

vars == <<track, overrides, versionOf, remixOf, run, mastered, runs, changes>>

Idle == [pc |-> "idle", songs |-> {}, edges |-> {}]

-----------------------------------------------------------------------------
(* normalize: marks are stripped from the end, until one stays.            *)

Scrubbed(mark) ==
  [kind |-> IF mark.kind = "open_feat" THEN "feat" ELSE mark.kind, by |-> Scrub[mark.by]]

(* _artist_in_clause: a name of which nothing is left matches nothing.     *)
IsCredited(mark, credited) ==
  Scrub[mark.by] \in {Scrub[a] : a \in credited} \ {NoArtist}

(* Decorations are tried first, wherever they begin: "- Live at ..." takes *)
(* all that is behind it.                                                  *)
BeforeLiveAt(marks) ==
  LET live == {i \in DOMAIN marks : marks[i].kind = "live_at"} IN
  IF live = {} THEN marks ELSE SubSeq(marks, 1, Min(live) - 1)

Remixes(marks, n, m) == {i \in (n + 1)..m : marks[i].kind = "remix"}

(* From behind n up to m all comes off: decorations, features of credited  *)
(* artists, and one remix, the outermost; it is remembered.                *)
ComesOff(marks, credited, remembered, n, m) ==
  /\ \A i \in (n + 1)..m :
       \/ marks[i].kind \in {"decoration", "remix"}
       \/ marks[i].kind = "feat" /\ IsCredited(marks[i], credited)
  /\ \A i, j \in Remixes(marks, n, m) \cup remembered : i = j

Stuck(marks, credited, remembered, m) ==
  CHOOSE n \in 0..m :
    /\ ComesOff(marks, credited, remembered, n, m)
    /\ \A k \in 0..m : ComesOff(marks, credited, remembered, k, m) => n <= k

(* Where nothing comes off the end, the first "feat." without brackets is  *)
(* tried, with all that is behind it as its clause.                        *)
CutFeat(marks, credited, k) ==
  LET open == {i \in 1..k : marks[i].kind = "open_feat"} IN
  IF \E i \in 1..k : IsCredited(marks[i], credited) /\ \E j \in open : j <= i
    THEN Min(open) - 1 ELSE k

Normalized(title, marks, n, remixes) ==
  LET base == [i \in 1..n |-> Scrubbed(marks[i])] IN
  [text  |-> [title EXCEPT !.marks = base \o SetToSeq({Scrubbed(marks[i]) : i \in remixes})],
   base  |-> [title EXCEPT !.marks = base],
   remix |-> remixes # {}]

(* Every remix comes off and is remembered instead of the one before.      *)
Normalize_LastCredit(title, credited) ==
  LET marks   == BeforeLiveAt(title.marks)
      n       == CHOOSE n \in 0..Len(marks) :
                   /\ \A i \in (n + 1)..Len(marks) : ComesOff(marks, credited, {}, i - 1, i)
                   /\ n > 0 => ~ComesOff(marks, credited, {}, n - 1, n)
      remixes == Remixes(marks, n, Len(marks)) IN
  Normalized(title, marks, n, {i \in remixes : \A k \in remixes : i <= k})

(* The comparison key keeps the credit, the base text is without it.       *)
Normalize(title, credited) ==
  LET marks == BeforeLiveAt(title.marks)
      k     == Stuck(marks, credited, {}, Len(marks))
      outer == Remixes(marks, k, Len(marks))
      cut   == CutFeat(marks, credited, k)
      n     == Stuck(marks, credited, outer, cut) IN
  Normalized(title, marks, n, outer \cup Remixes(marks, n, cut))

NoText == [name |-> NoName, marks |-> <<>>]

Norm(t) == Normalize(track[t].title, track[t].credited)

-----------------------------------------------------------------------------
(* The ladder: who is united with whom.                                    *)

Known == {t \in Tracks : track[t] # Absent}

(* The first of a group is united with each of the others.                 *)
Spokes(group) ==
  {p \in group \X group : p[1] # p[2] /\ \A t \in group : p[1] <= t}

IsrcUnions ==
  UNION {Spokes({t \in Known : track[t].isrc = i}) : i \in Isrcs}

LinkedFromUnions ==
  {p \in Known \X Known : track[p[1]].linked = p[2]}

SameTitle(a, b) ==
  LET text == Norm(a).text IN
  /\ track[a].artist = track[b].artist /\ track[a].artist # NoArtist
  /\ text = Norm(b).text /\ text # NoText

ShorterThan(a, b) ==
  track[a].ms < track[b].ms \/ (track[a].ms = track[b].ms /\ a < b)

Close(a, b) ==
  /\ track[a].ms # Unknown /\ track[b].ms # Unknown
  /\ track[a].ms - track[b].ms \in -Tolerance..Tolerance

(* Sorted by duration, neighbours within the tolerance are united.         *)
Neighbours(block) ==
  {p \in block \X block :
     /\ ShorterThan(p[1], p[2])
     /\ ~\E t \in block : ShorterThan(p[1], t) /\ ShorterThan(t, p[2])
     /\ Close(p[1], p[2])}

HeuristicUnions ==
  UNION {Neighbours(block) : block \in {{u \in Known : SameTitle(t, u)} : t \in Known}}

OverrideUnions == UNION {Spokes(group \cap Known) : group \in overrides.merges}

(* _UnionFind, without the compression of paths.                           *)
Find(parent, t) ==
  LET root[i \in DOMAIN parent] == IF parent[i] = i THEN i ELSE root[parent[i]] IN
  root[t]

(* One link up instead of all the way.                                     *)
Union_NoFind(p, parent) ==
  LET a == p[1]  b == p[2] IN
  IF a < b THEN [parent EXCEPT ![b] = a] ELSE [parent EXCEPT ![a] = b]

Union(p, parent) ==
  LET a == Find(parent, p[1])
      b == Find(parent, p[2]) IN
  IF a < b THEN [parent EXCEPT ![b] = a] ELSE [parent EXCEPT ![a] = b]

AllUnions == IsrcUnions \cup LinkedFromUnions \cup HeuristicUnions \cup OverrideUnions

(* The unions in some order: the classes they make do not depend on it.    *)
Forest ==
  LET united[pairs \in SUBSET AllUnions] ==
        IF pairs = {} THEN [t \in Known |-> t]
        ELSE LET p == CHOOSE p \in pairs : TRUE IN Union(p, united[pairs \ {p}]) IN
  united[AllUnions]

Clusters ==
  LET forest == Forest IN
  {{u \in Known : Find(forest, u) = Find(forest, t)} : t \in Known}

(* Splits come last, each tears its tracks out of where they are by then.  *)
TornOutBy(n) ==
  {t \in overrides.splits[n] \cap Known :
     \A m \in DOMAIN overrides.splits : m > n => t \notin overrides.splits[m]}

TornOut == UNION {TornOutBy(n) : n \in DOMAIN overrides.splits}

Groups_KeepsEmpty ==
  {[tracks |-> c \ TornOut, split |-> FALSE] : c \in Clusters}
    \cup {[tracks |-> TornOutBy(n), split |-> TRUE] : n \in DOMAIN overrides.splits}

(* What nothing is left of is no group.                                    *)
Groups ==
  {g \in {[tracks |-> c \ TornOut, split |-> FALSE] : c \in Clusters}
           \cup {[tracks |-> TornOutBy(n), split |-> TRUE] : n \in DOMAIN overrides.splits} :
     g.tracks # {}}

-----------------------------------------------------------------------------
(* Song ids.                                                               *)

Keys == Isrcs \cup Tracks

Id == [isrc : Isrcs \cup {NoIsrc}, keys : [Keys -> Nat], split : SUBSET Tracks]

IsrcsOf(g) == {track[t].isrc : t \in g.tracks} \ {NoIsrc}

KeyOf(t) == IF track[t].isrc # NoIsrc THEN track[t].isrc ELSE t

(* The keys of the members as a bag: what the sorted list of them says.    *)
MemberKeys(g) == [k \in Keys |-> Cardinality({t \in g.tracks : KeyOf(t) = k})]

(* compute_song_id: the one ISRC, or else a hash of the members.           *)
NaturalId(g) ==
  IF \E i \in Isrcs : IsrcsOf(g) = {i}
    THEN [isrc |-> CHOOSE i \in Isrcs : IsrcsOf(g) = {i}, keys |-> [k \in Keys |-> 0], split |-> {}]
    ELSE [isrc |-> NoIsrc, keys |-> MemberKeys(g), split |-> {}]

SongId_Natural(g, groups) == NaturalId(g)

(* A group that was split off and whose id is also another's gets a suffix. *)
SongId(g, groups) ==
  IF g.split /\ \E h \in groups : h # g /\ NaturalId(h) = NaturalId(g)
    THEN [NaturalId(g) EXCEPT !.split = g.tracks]
    ELSE NaturalId(g)

IdsDistinctIn(groups) ==
  \A g, h \in groups : SongId(g, groups) = SongId(h, groups) => g = h

-----------------------------------------------------------------------------
(* Remixes.                                                                *)

(* The groups with a track of that artist and title that is not a remix.   *)
ParentCandidates(groups, artist, text) ==
  {g \in groups : \E t \in g.tracks :
     /\ ~Norm(t).remix
     /\ track[t].artist = artist /\ artist # NoArtist
     /\ Norm(t).text = text /\ text # NoText}

(* parent_lookup.setdefault: the group whose first track is first.         *)
ParentOf(groups, r) ==
  LET candidates == ParentCandidates(groups, track[r].artist, Norm(r).base) IN
  {g \in candidates : \E t \in g.tracks : \A h \in candidates : \A u \in h.tracks : t <= u}

RemixEdges(groups) ==
  UNION {{<<SongId(g, groups), SongId(p, groups)>> :
            p \in (UNION {ParentOf(groups, r) : r \in {t \in g.tracks : Norm(t).remix}}) \ {g}}
           : g \in groups}

-----------------------------------------------------------------------------
(* The job.                                                                *)

(* The tracks and the overrides are read, everything else is decided.  Two *)
(* groups with one id would be refused (IdsDistinct: it does not happen).  *)
Run_Begin ==
  LET groups == Groups IN
  /\ run = Idle
  /\ runs < MaxRuns
  /\ Known # {}
  /\ IdsDistinctIn(groups)
  /\ run' = [pc    |-> "songs",
             songs |-> {[id |-> SongId(g, groups), tracks |-> g.tracks] : g \in groups},
             edges |-> RemixEdges(groups)]
  /\ mastered' = "under way"
  /\ runs' = runs + 1
  /\ UNCHANGED <<track, overrides, versionOf, remixOf, changes>>

(* The next batch, in the order of the song ids: any.                      *)
Batches ==
  {b \in SUBSET run.songs :
     b # {} /\ (Cardinality(b) = BatchSize \/ (b = run.songs /\ Cardinality(b) < BatchSize))}

Finished == IF mastered = "under way" THEN "yes" ELSE mastered

MergeSongClusters_KeepsStale(batch) ==
  versionOf \cup UNION {s.tracks \X {s.id} : s \in batch}

(* merge_song_clusters.cypher                                              *)
MergeSongClusters(batch) ==
  (versionOf \ {e \in versionOf : \E s \in batch : e[1] \in s.tracks /\ e[2] # s.id})
    \cup UNION {s.tracks \X {s.id} : s \in batch}

Run_WriteSongs(batch) ==
  LET last == batch = run.songs /\ run.edges = {} IN
  /\ run.pc = "songs"
  /\ batch \in Batches
  /\ versionOf' = MergeSongClusters(batch)
  /\ run' = IF last THEN Idle
            ELSE [run EXCEPT !.pc = IF batch = run.songs THEN "edges" ELSE "songs",
                             !.songs = @ \ batch]
  /\ mastered' = IF last THEN Finished ELSE mastered
  /\ UNCHANGED <<track, overrides, remixOf, runs, changes>>

MergeRemixOf_KeepsStale(edges) == remixOf \cup edges

(* merge_remix_of.cypher: every row finds its stale edge in the graph that *)
(* the query starts from, before any row deletes or merges.                *)
MergeRemixOf(edges) ==
  (remixOf \ {e \in remixOf : \E d \in edges : e[1] = d[1] /\ e[2] # d[2]}) \cup edges

Run_WriteRemixes ==
  /\ run.pc = "edges"
  /\ remixOf' = MergeRemixOf(run.edges)
  /\ run' = Idle
  /\ mastered' = Finished
  /\ UNCHANGED <<track, overrides, versionOf, runs, changes>>

(* The driver raises, or the process is killed.                            *)
Run_Dies ==
  /\ run # Idle
  /\ run' = Idle
  /\ mastered' = "no"
  /\ UNCHANGED <<track, overrides, versionOf, remixOf, runs, changes>>

-----------------------------------------------------------------------------
(* Its input changes.                                                      *)
Changes ==
  /\ changes < MaxChanges
  /\ changes' = changes + 1
  /\ mastered' = "no"
  /\ UNCHANGED <<versionOf, remixOf, run, runs>>

Coalesce(new, old, null) == IF new # null THEN new ELSE old

(* A known track keeps its title and duration, and its artists add up.     *)
Merged(old, r) ==
  IF old = Absent THEN r
  ELSE [old EXCEPT !.isrc = Coalesce(r.isrc, @, NoIsrc),
                   !.linked = Coalesce(r.linked, @, NoTrack),
                   !.artist = Coalesce(r.artist, @, NoArtist),
                   !.credited = @ \cup r.credited]

(* insert_batch_of_tracks.cypher, for the crawl and for the ISRC backfill. *)
InsertTrack(t, r) ==
  /\ r \in Payloads[t]
  /\ track' = [track EXCEPT ![t] = Merged(track[t], r)]
  /\ track' # track
  /\ Changes
  /\ UNCHANGED overrides

(* The owner skims the review report and adds overrides.                   *)
EditOverrides(file) ==
  /\ file \in OverrideFiles \ {overrides}
  /\ overrides' = file
  /\ Changes
  /\ UNCHANGED track

Init ==
  /\ track \in Libraries
  /\ overrides \in OverrideFiles
  /\ versionOf = {}
  /\ remixOf = {}
  /\ run = Idle
  /\ mastered = "no"
  /\ runs = 0
  /\ changes = 0

Next ==
  \/ Run_Begin
  \/ \E batch \in SUBSET run.songs : Run_WriteSongs(batch)
  \/ Run_WriteRemixes
  \/ Run_Dies
  \/ \E t \in Tracks : \E r \in Payloads[t] : InsertTrack(t, r)
  \/ \E file \in OverrideFiles : EditOverrides(file)

Spec == Init /\ [][Next]_vars

-----------------------------------------------------------------------------
(* A song is written with at least one track.                              *)
Songs == [id : Id, tracks : (SUBSET Tracks) \ {{}}]

TypeOK ==
  /\ track \in [Tracks -> Record \cup {Absent}]
  /\ overrides \in Overrides
  /\ versionOf \subseteq Tracks \X Id
  /\ remixOf \subseteq Id \X Id
  /\ run \in [pc : {"idle", "songs", "edges"},
             songs : SUBSET Songs, edges : SUBSET (Id \X Id)]
  /\ mastered \in {"no", "under way", "yes"}
  /\ runs \in 0..MaxRuns /\ changes \in 0..MaxChanges

(* "Exactly one VERSION_OF per Track: reassignment re-points the edge":    *)
(* never two, between batches, after a run that died and over runs whose   *)
(* input changed included.                                                 *)
OneSongPerTrack == \A d, e \in versionOf : d[1] = e[1] => d = e

(* "The ISRC tier unions everything sharing an ISRC", directly or over any *)
(* chain of the other rungs: no track of an ISRC is left out.              *)
IsrcUnited ==
  LET clusters == Clusters IN
  \A t, u \in Known :
    track[t].isrc = track[u].isrc /\ track[t].isrc # NoIsrc =>
      \E c \in clusters : t \in c /\ u \in c

(* "Duplicate ids ... unreachable by construction" (cluster_tracks), so    *)
(* that the graph never re-unites what an override tore apart: whatever    *)
(* the library and the overrides, the groups have different ids.           *)
IdsDistinct == IdsDistinctIn(Groups)

(* The evidence that two tracks are the same song.                         *)
Evidence(a, b) ==
  \/ track[a].isrc = track[b].isrc /\ track[a].isrc # NoIsrc
  \/ track[a].linked = b \/ track[b].linked = a
  \/ SameTitle(a, b) /\ Close(a, b)
  \/ \E group \in overrides.merges : {a, b} \subseteq group

LastSplit(t) ==
  {n \in DOMAIN overrides.splits :
     t \in overrides.splits[n] /\ \A m \in DOMAIN overrides.splits :
                                  m > n => t \notin overrides.splits[m]}

Links == {p \in Known \X Known : Evidence(p[1], p[2])}

(* Connected by evidence: no set closed under it parts the two.            *)
Connected(links, a, b) ==
  \A S \in SUBSET Known :
    a \in S /\ (\A p \in links : p[1] \in S => p[2] \in S) => b \in S

(* A remix behind a "- Live at ..." is lost with it; behind a "feat."      *)
(* without brackets it may be, if something comes behind it that stays.    *)
Swallows(marks) ==
  \E i \in DOMAIN marks :
    /\ marks[i].kind = "remix"
    /\ \E j \in DOMAIN marks : j < i /\
         \/ marks[j].kind = "live_at"
         \/ /\ marks[j].kind = "open_feat"
            /\ \E l \in DOMAIN marks : l > i /\ marks[l].kind \in {"remix", "feat", "open_feat"}

Remixers(marks) == {Scrubbed(m) : m \in {m \in ToSet(marks) : m.kind = "remix"}}

(* "The credit stays inside the normalized text (so a remix can never      *)
(* merge with its parent)" (normalize): whatever marks surround it and     *)
(* whoever is credited, the title and the duration alone put no remix      *)
(* together with its original or with a remix whose credit reads           *)
(* differently.  That goes only for titles in which no open clause         *)
(* swallows the credit: "Foo - Live at Home (B Remix)" does merge with     *)
(* "Foo".  The credits of two remixers of whose names _scrub leaves        *)
(* nothing read alike.                                                     *)
RemixesApart ==
  LET marks(t) == track[t].title.marks IN
  \A p \in HeuristicUnions :
    ~Swallows(marks(p[1])) /\ ~Swallows(marks(p[2])) =>
      Remixers(marks(p[1])) = Remixers(marks(p[2]))

(* What the README calls the same Song.                                    *)
SameSong(links, a, b) ==
  LastSplit(a) = LastSplit(b) /\ (LastSplit(a) # {} \/ Connected(links, a, b))

(* A run that finished and whose input did not change since has put two    *)
(* tracks on one Song exactly if evidence connects them and no split parts *)
(* them, whatever earlier runs left in the graph.                          *)
MasteredByEvidence ==
  mastered = "yes" =>
    LET links == Links IN
    \A t, u \in Known :
      SameSong(links, t, u) <=> \E s \in {e[2] : e \in versionOf} : {<<t, s>>, <<u, s>>} \subseteq versionOf

(* Then a remix whose parents are in the library is the remix of these and *)
(* of no other song: "the remix is re-pointed, the stale edge is deleted"  *)
(* (merge_remix_of.cypher).                                                *)
RemixesRepointed ==
  mastered = "yes" =>
    LET edges == RemixEdges(Groups) IN
    \A e \in edges : {d \in remixOf : d[1] = e[1]} = {d \in edges : d[1] = e[1]}

(* "A remix points at exactly one parent" (merge_remix_of.cypher).         *)
OneParent == \A d, e \in remixOf : d[1] = e[1] => d = e

=============================================================================
