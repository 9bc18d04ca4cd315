---------------------------- MODULE PlaylistSync ----------------------------
(***************************************************************************)
(* playlists/sync.py: a generator's target list is made into a managed     *)
(* Spotify playlist, created if the graph records none, and brought in     *)
(* line by removes and appends of at most MaxIdsPerCall ids per request.   *)
(* Every request and every query is a step, at any of which a run can fail *)
(* or be killed; several runs may be at work at once.                      *)
(*                                                                         *)
(* Definitions named Op_Slip are wrong variants, see the README's table.   *)
(***************************************************************************)
EXTENDS Integers, SequencesExt

CONSTANTS
  Generators,     \* generator identities (generator, params_hash)
  NoGenerator,
  Ordered,        \* the order-significant ones
  Ids,            \* Spotify playlist ids
  NoId,
  Tracks,
  Unplayable,     \* tracks that the API silently skips when they are added
  LocalFile,      \* an item of a playlist without a track id
  Targets,        \* the target lists the generators come up with
  Syncs,          \* runs of the program
  GeneratorsOf,   \* what each of them may be started with
  MaxIdsPerCall,  \* MAX_IDS_PER_CALL
  SnapshotsKept,  \* SNAPSHOTS_KEPT
  MaxItems,       \* the longest playlist an edit leaves (bound)
  MaxFaults,      \* how many runs fail, or playlists are edited in the app (bound)
  MaxStarts       \* how often a run is started (bound)

ASSUME SyncAssumption ==
  /\ NoGenerator \notin Generators /\ NoId \notin Ids
  /\ Ordered \subseteq Generators
  /\ Unplayable \subseteq Tracks /\ LocalFile \notin Tracks
  /\ Targets \subseteq Seq(Tracks)
  /\ GeneratorsOf \in [Syncs -> SUBSET Generators]
  /\ MaxIdsPerCall \in Nat \ {0} /\ SnapshotsKept \in Nat \ {0}
  /\ MaxItems \in Nat /\ MaxFaults \in Nat /\ MaxStarts \in Nat

VARIABLES
  created,    \* the playlists created at Spotify
  content,    \* the items of every playlist
  managed,    \* (:ManagedPlaylist): the generator a playlist is recorded for
  snapshots,  \* its target_snapshots, newest first
  run,        \* the runs of the program
  faults,     \* how many runs failed or playlists were edited
  starts      \* how many runs were started

vars == <<created, content, managed, snapshots, run, faults, starts>>
spotify == <<created, content>>
graph == <<managed, snapshots>>

Playlist == Seq(Tracks \cup {LocalFile})

CallOf(op) == [op : {op}, tracks : Seq(Tracks)]
Call == CallOf("remove") \cup CallOf("add")

Active == {"lookup", "create", "record", "read", "apply"}

Run == [pc : Active \cup {"idle", "done", "failed"}, generator : Generators \cup {NoGenerator},
        target : Seq(Tracks), apply : BOOLEAN, id : Ids \cup {NoId},
        calls : Seq(Call), changed : BOOLEAN]

NoRun == [pc |-> "idle", generator |-> NoGenerator, target |-> <<>>, apply |-> FALSE,
          id |-> NoId, calls |-> <<>>, changed |-> FALSE]

ManagedBy(g) == {i \in Ids : managed[i] = g}

-----------------------------------------------------------------------------
(* The diff.                                                               *)

(* The ids at the positions P, in order: what a list comprehension over    *)
(* ids with a condition keeps.                                             *)
At(ids, P) ==
  LET kept[n \in 0..Len(ids)] ==
        IF n = 0 THEN <<>>
        ELSE IF n \in P THEN Append(kept[n - 1], ids[n]) ELSE kept[n - 1]
  IN kept[Len(ids)]

Deduped(ids) == At(ids, {n \in DOMAIN ids : \A m \in 1..(n - 1) : ids[m] # ids[n]})

Only(ids, S) == At(ids, {n \in DOMAIN ids : ids[n] \in S})

Without(ids, S) == At(ids, {n \in DOMAIN ids : ids[n] \notin S})

(* What get_playlist_track_ids returns: items without a track id are left  *)
(* out.                                                                    *)
TrackIds(items) == Without(items, {LocalFile})

Chunked(ids) ==
  [n \in 1..((Len(ids) + MaxIdsPerCall - 1) \div MaxIdsPerCall) |->
     SubSeq(ids, (n - 1) * MaxIdsPerCall + 1,
            IF n * MaxIdsPerCall < Len(ids) THEN n * MaxIdsPerCall ELSE Len(ids))]

Calls(op, ids) == [n \in DOMAIN Chunked(ids) |-> [op |-> op, tracks |-> Chunked(ids)[n]]]

NeedsRewrite_OrderOnly(current, target, ordered) ==
  LET kept == Deduped(Only(current, ToSet(target)))
      adds == Without(target, ToSet(current)) IN
  ordered /\ kept \o adds # target

(* Removes drop every occurrence and adds append, so neither a wrong order *)
(* nor a second occurrence of a kept track can be repaired piecemeal.      *)
NeedsRewrite(current, target, ordered) ==
  LET occurrences == Only(current, ToSet(target))
      kept        == Deduped(occurrences)
      adds        == Without(target, ToSet(current)) IN
  \/ Len(occurrences) # Len(kept)
  \/ ordered /\ kept \o adds # target

(* The requests apply_diff sends, none when the playlist is in line.       *)
DiffCalls(current, target, ordered) ==
  IF NeedsRewrite(current, target, ordered)
    THEN Calls("remove", Deduped(current)) \o Calls("add", target)
    ELSE Calls("remove", Deduped(Without(current, ToSet(target))))
           \o Calls("add", Without(target, ToSet(current)))

(* What Spotify does with a request.                                       *)
Sent(call, items) ==
  IF call.op = "remove" THEN Without(items, ToSet(call.tracks))
  ELSE items \o Without(call.tracks, Unplayable)

-----------------------------------------------------------------------------
(* One run.                                                                *)

Goto(p, pc) == run' = [run EXCEPT ![p].pc = pc]

(* The program ends at once when the generator returns no tracks.          *)
Start(p, g, target, apply) ==
  /\ run[p].pc \notin Active
  /\ target # <<>>
  /\ starts < MaxStarts
  /\ run' = [run EXCEPT ![p] = [NoRun EXCEPT !.pc = "lookup", !.generator = g,
                                             !.target = Deduped(target), !.apply = apply]]
  /\ starts' = starts + 1
  /\ UNCHANGED <<created, content, managed, snapshots, faults>>

Lookup_WantsSynced(p) ==
  LET found == {i \in ManagedBy(run[p].generator) : snapshots[i] # <<>> \/ i = run[p].id} IN
  /\ run[p].pc = "lookup"
  /\ IF found = {} THEN Goto(p, IF run[p].apply THEN "create" ELSE "done")
     ELSE \E i \in found : run' = [run EXCEPT ![p].pc = "read", ![p].id = i]
  /\ UNCHANGED <<created, content, managed, snapshots, faults, starts>>

(* get_by_generator, before the playlist is created and again after it was *)
(* recorded.  The query returns any of several records.                    *)
Lookup(p) ==
  /\ run[p].pc = "lookup"
  /\ IF ManagedBy(run[p].generator) = {}
       THEN Goto(p, IF run[p].apply THEN "create" ELSE "done")
       ELSE \E i \in ManagedBy(run[p].generator) :
              run' = [run EXCEPT ![p].pc = "read", ![p].id = i]
  /\ UNCHANGED <<created, content, managed, snapshots, faults, starts>>

CreatePlaylist(p) ==
  /\ run[p].pc = "create"
  /\ \E i \in Ids \ created :
       /\ created' = created \cup {i}
       /\ run' = [run EXCEPT ![p].pc = "record", ![p].id = i]
  /\ UNCHANGED <<content, managed, snapshots, faults, starts>>

RecordCreated(p) ==
  /\ run[p].pc = "record"
  /\ managed' = [managed EXCEPT ![run[p].id] = run[p].generator]
  /\ Goto(p, "lookup")
  /\ UNCHANGED <<created, content, snapshots, faults, starts>>

(* get_playlist_track_ids, compute_diff and assert_managed.                *)
Read(p) ==
  LET r     == run[p]
      calls == DiffCalls(TrackIds(content[r.id]), r.target, r.generator \in Ordered) IN
  /\ r.pc = "read"
  /\ IF ~r.apply THEN Goto(p, "done")
     ELSE IF managed[r.id] = NoGenerator THEN Goto(p, "failed")
     ELSE run' = [run EXCEPT ![p].pc = "apply", ![p].calls = calls, ![p].changed = calls # <<>>]
  /\ UNCHANGED <<created, content, managed, snapshots, faults, starts>>

Send(p) ==
  LET r == run[p] IN
  /\ r.pc = "apply" /\ r.calls # <<>>
  /\ content' = [content EXCEPT ![r.id] = Sent(Head(r.calls), @)]
  /\ run' = [run EXCEPT ![p].calls = Tail(@)]
  /\ UNCHANGED <<created, managed, snapshots, faults, starts>>

Pushed_NoLimit(target, kept) == <<target>> \o kept

(* record_sync.cypher *)
Pushed(target, kept) == SubSeq(<<target>> \o kept, 1,
  IF Len(kept) + 1 < SnapshotsKept THEN Len(kept) + 1 ELSE SnapshotsKept)

Finish_RecordsContent(p) ==
  LET r == run[p] IN
  /\ r.pc = "apply" /\ r.calls = <<>>
  /\ snapshots' = IF r.changed /\ snapshots[r.id] = <<>>
                    THEN [snapshots EXCEPT ![r.id] = Pushed(r.target, @)] ELSE snapshots
  /\ Goto(p, "done")
  /\ UNCHANGED <<created, content, managed, faults, starts>>

(* update_details, and record_sync if the diff was not empty.              *)
Finish(p) ==
  LET r == run[p] IN
  /\ r.pc = "apply" /\ r.calls = <<>>
  /\ snapshots' = IF r.changed THEN [snapshots EXCEPT ![r.id] = Pushed(r.target, @)]
                               ELSE snapshots
  /\ Goto(p, "done")
  /\ UNCHANGED <<created, content, managed, faults, starts>>

Fault == faults < MaxFaults /\ faults' = faults + 1

(* A request or a query raises, or the run is killed.                      *)
Fail(p) ==
  /\ Fault
  /\ run[p].pc \in Active
  /\ Goto(p, "failed")
  /\ UNCHANGED <<created, content, managed, snapshots, starts>>

(* The owner edits a playlist in the Spotify app, between two runs.        *)
Edit(i) ==
  /\ i \in created
  /\ \A p \in Syncs : run[p].pc \notin Active
  /\ Fault
  /\ \E items \in BoundedSeq((Tracks \ Unplayable) \cup {LocalFile}, MaxItems) :
       content' = [content EXCEPT ![i] = items]
  /\ UNCHANGED <<created, managed, snapshots, run, starts>>

Init ==
  /\ created = {}
  /\ content = [i \in Ids |-> <<>>]
  /\ managed = [i \in Ids |-> NoGenerator]
  /\ snapshots = [i \in Ids |-> <<>>]
  /\ run = [p \in Syncs |-> NoRun]
  /\ faults = 0
  /\ starts = 0

Step(p) ==
  \/ Lookup(p) \/ CreatePlaylist(p) \/ RecordCreated(p)
  \/ Read(p) \/ Send(p) \/ Finish(p)

Next ==
  \/ \E p \in Syncs :
       \/ \E g \in GeneratorsOf[p], target \in Targets, apply \in BOOLEAN :
            Start(p, g, target, apply)
       \/ Step(p)
       \/ Fail(p)
  \/ \E i \in Ids : Edit(i)

Spec == Init /\ [][Next]_vars

-----------------------------------------------------------------------------
TypeOK ==
  /\ created \subseteq Ids
  /\ content \in [Ids -> Playlist]
  /\ managed \in [Ids -> Generators \cup {NoGenerator}]
  /\ snapshots \in [Ids -> Seq(Seq(Tracks))]
  /\ \A i \in Ids : Len(snapshots[i]) <= SnapshotsKept
  /\ run \in [Syncs -> Run]
  /\ faults \in 0..MaxFaults
  /\ starts \in 0..MaxStarts

(* A playlist holds the target as far as it can be played, beside the      *)
(* local files nobody can address: in order if the generator asks for it.  *)
Realized(items, target, ordered) ==
  LET ids == TrackIds(items)
      playable == Without(target, Unplayable) IN
  IF ordered THEN ids = playable
  ELSE ToSet(ids) = ToSet(playable) /\ Len(ids) = Len(playable)

(* "changes are overwritten" (description_stamp): whatever was edited in   *)
(* the app and wherever earlier runs failed, a run that gets to its end    *)
(* leaves the target, by removes and appends of bounded size alone.        *)
SyncRealizesTarget ==
  [][\A p \in Syncs :
       Finish(p) => Realized(content[run[p].id], run[p].target, run[p].generator \in Ordered)]_vars

(* identity_params "name ONE managed playlist" (GeneratorSpec): a run that *)
(* was cut short is taken up by the next one, not started over.            *)
OneManagedPerGenerator ==
  \A i, j \in Ids : managed[i] # NoGenerator /\ managed[i] = managed[j] => i = j

HoldsSnapshot(i, ordered) ==
  snapshots[i] # <<>> /\ Realized(content[i], Head(snapshots[i]), ordered)

(* When a run ends, the playlist holds the newest snapshot, as far as it   *)
(* can be played and in order if the generator asks for it, as long as no  *)
(* run fails and nothing is edited in the app: a run that finds nothing to *)
(* change records no snapshot, and needs none.                             *)
SnapshotIsCurrent ==
  [][\A p \in Syncs :
       Finish(p) /\ faults = 0 =>
         HoldsSnapshot(run[p].id, run[p].generator \in Ordered)']_vars

=============================================================================
