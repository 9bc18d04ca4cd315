--------------------------- MODULE Mastering_proofs ---------------------------
(***************************************************************************)
(* Theorems about Mastering, for every library, overrides file and batch   *)
(* size: what the union-find and the splits compute, that songs have one   *)
(* id each and tracks one song, and what a run leaves in the graph.        *)
(***************************************************************************)
EXTENDS Mastering, FiniteSetTheorems, SequenceTheorems, TLAPS

-----------------------------------------------------------------------------
(* Groups and ids.                                                         *)

Group == [tracks : SUBSET Tracks, split : BOOLEAN]

LEMMA GroupsType == Groups \subseteq Group
<1>1. Known \subseteq Tracks
  BY DEF Known
<1>2. \A c \in Clusters : c \subseteq Tracks
  BY <1>1 DEF Clusters
<1>3. \A n \in DOMAIN overrides.splits : TornOutBy(n) \subseteq Tracks
  BY <1>1 DEF TornOutBy
<1>. SUFFICES ASSUME NEW g \in Groups PROVE g \in Group
  OBVIOUS
<1>4. CASE \E c \in Clusters : g = [tracks |-> c \ TornOut, split |-> FALSE]
  BY <1>2, <1>4 DEF Group
<1>5. CASE \E n \in DOMAIN overrides.splits : g = [tracks |-> TornOutBy(n), split |-> TRUE]
  BY <1>3, <1>5 DEF Group
<1>. QED  BY <1>4, <1>5 DEF Groups

(* A track is in one group: classes of a function do not overlap, and of   *)
(* the splits that name a track the last one has it.                       *)
LEMMA GroupsDisjoint ==
  ASSUME TypeOK, NEW g \in Groups, NEW h \in Groups, NEW t \in g.tracks, t \in h.tracks
  PROVE  g = h
<1>. DEFINE S == DOMAIN overrides.splits
            Rest == {[tracks |-> c \ TornOut, split |-> FALSE] : c \in Clusters}
            Torn == {[tracks |-> TornOutBy(n), split |-> TRUE] : n \in S}
<1>1. S \subseteq Nat
  <2>1. overrides.splits \in Seq(SUBSET Tracks)
    BY DEF TypeOK, Overrides
  <2>. QED  BY <2>1, LenProperties
<1>2. g \in Rest \cup Torn /\ h \in Rest \cup Torn
  BY DEF Groups
<1>3. CASE g \in Rest /\ h \in Rest
  <2>1. PICK c \in Clusters, d \in Clusters :
          g = [tracks |-> c \ TornOut, split |-> FALSE] /\ h = [tracks |-> d \ TornOut, split |-> FALSE]
    BY <1>3
  <2>2. t \in c /\ t \in d
    BY <2>1
  <2>3. c = d
    BY <2>2 DEF Clusters
  <2>. QED  BY <2>1, <2>3
<1>4. CASE g \in Torn /\ h \in Torn
  <2>1. PICK m \in S, n \in S :
          g = [tracks |-> TornOutBy(m), split |-> TRUE] /\ h = [tracks |-> TornOutBy(n), split |-> TRUE]
    BY <1>4
  <2>2. t \in TornOutBy(m) /\ t \in TornOutBy(n)
    BY <2>1
  <2>3. ~(m > n) /\ ~(n > m)
    BY <2>2 DEF TornOutBy
  <2>4. m = n
    BY <2>3, <1>1
  <2>. QED  BY <2>1, <2>4
<1>5. \A a \in Rest, b \in Torn : t \in a.tracks => t \notin b.tracks
  BY DEF TornOut
<1>. QED  BY <1>2, <1>3, <1>4, <1>5

LEMMA NaturalIdType ==
  ASSUME NEW g \in Group
  PROVE  NaturalId(g) \in Id /\ NaturalId(g).split = {}
<1>1. IsFiniteSet(Tracks)
  BY MasteringAssumption
<1>2. \A k \in Keys : {t \in g.tracks : KeyOf(t) = k} \subseteq Tracks
  BY DEF Group
<1>3. \A k \in Keys : Cardinality({t \in g.tracks : KeyOf(t) = k}) \in Nat
  BY <1>1, <1>2, FS_Subset, FS_CardinalityType
<1>4. MemberKeys(g) \in [Keys -> Nat]
  BY <1>3 DEF MemberKeys
<1>5. CASE \E i \in Isrcs : IsrcsOf(g) = {i}
  BY <1>5 DEF NaturalId, Id
<1>6. CASE ~\E i \in Isrcs : IsrcsOf(g) = {i}
  BY <1>4, <1>6 DEF NaturalId, Id
<1>. QED  BY <1>5, <1>6

LEMMA SongIdType ==
  ASSUME NEW groups \in SUBSET Group, NEW g \in groups
  PROVE  SongId(g, groups) \in Id
BY NaturalIdType DEF SongId, Id, Group

LEMMA RemixEdgesType ==
  ASSUME NEW groups \in SUBSET Group
  PROVE  RemixEdges(groups) \subseteq Id \X Id
<1>1. \A r : ParentOf(groups, r) \subseteq groups
  BY DEF ParentOf, ParentCandidates
<1>2. \A g \in groups : \A p \in UNION {ParentOf(groups, r) : r \in {t \in g.tracks : Norm(t).remix}} :
        p \in groups
  BY <1>1
<1>. QED  BY <1>2, SongIdType DEF RemixEdges

-----------------------------------------------------------------------------
(* One Song per track.  The songs a run has still to write do not overlap. *)

Disjoint ==
  \A r, s \in run.songs : \A t \in r.tracks : t \in s.tracks => r = s

Inv == TypeOK /\ Disjoint /\ OneSongPerTrack

LEMMA BoundsAreNumbers == MaxRuns \in Nat /\ MaxChanges \in Nat
BY MasteringAssumption

LEMMA TypeInit == Init => TypeOK
BY MasteringAssumption DEF Init, TypeOK, Idle

LEMMA InvInit == Init => Inv
BY TypeInit DEF Init, Inv, Disjoint, OneSongPerTrack, Idle

LEMMA InvBegin == Inv /\ Run_Begin => Inv'
<1>. SUFFICES ASSUME Inv, Run_Begin PROVE Inv'
  OBVIOUS
<1>. DEFINE song(g) == [id |-> SongId(g, Groups), tracks |-> g.tracks]
<1>1. Groups \in SUBSET Group
  BY GroupsType
<1>2. /\ run' = [pc |-> "songs", songs |-> {song(g) : g \in Groups}, edges |-> RemixEdges(Groups)]
      /\ UNCHANGED <<track, overrides, versionOf, remixOf, changes>>
      /\ mastered' = "under way" /\ runs' = runs + 1 /\ runs < MaxRuns
  BY DEF Run_Begin
<1>3. \A g \in Groups : song(g) \in Songs
  <2>1. \A g \in Groups : g.tracks # {}
    BY DEF Groups
  <2>2. \A g \in Groups : g.tracks \in (SUBSET Tracks) \ {{}}
    BY <1>1, <2>1 DEF Group
  <2>3. \A g \in Groups : SongId(g, Groups) \in Id
    BY <1>1, SongIdType
  <2>. QED  BY <2>2, <2>3 DEF Songs
<1>4. RemixEdges(Groups) \subseteq Id \X Id
  BY <1>1, RemixEdgesType
<1>5. run' \in [pc : {"idle", "songs", "edges"},
                songs : SUBSET Songs, edges : SUBSET (Id \X Id)]
  BY <1>2, <1>3, <1>4
<1>6. runs' \in 0..MaxRuns
  <2>1. runs \in 0..MaxRuns
    BY DEF Inv, TypeOK
  <2>2. runs' = runs + 1 /\ runs < MaxRuns
    BY <1>2
  <2>. QED  BY <2>1, <2>2, BoundsAreNumbers
<1>7. TypeOK'
  BY <1>2, <1>5, <1>6 DEF Inv, TypeOK
<1>8. \A g, h \in Groups : \A t \in g.tracks : t \in h.tracks => g = h
  BY GroupsDisjoint DEF Inv
<1>9. Disjoint'
  <2>1. run'.songs = {song(g) : g \in Groups}
    BY <1>2
  <2>2. \A g, h \in Groups : \A t \in song(g).tracks : t \in song(h).tracks => g = h
    BY <1>8
  <2>. QED  BY <2>1, <2>2 DEF Disjoint
<1>. QED  BY <1>2, <1>7, <1>9 DEF Inv, OneSongPerTrack

LEMMA InvWriteSongs ==
  ASSUME Inv, NEW batch \in SUBSET run.songs, Run_WriteSongs(batch)
  PROVE  Inv'
<1>1. batch \subseteq run.songs /\ run.songs \subseteq Songs
  BY DEF Inv, TypeOK
<1>2. UNION {s.tracks \X {s.id} : s \in batch} \subseteq Tracks \X Id
  BY <1>1 DEF Songs
<1>3. versionOf' \subseteq Tracks \X Id
  BY <1>2 DEF Run_WriteSongs, MergeSongClusters, Inv, TypeOK
<1>4. /\ run' \in [pc : {"idle", "songs", "edges"},
                   songs : SUBSET Songs, edges : SUBSET (Id \X Id)]
      /\ run'.songs \subseteq run.songs
  BY DEF Run_WriteSongs, Idle, Inv, TypeOK
<1>5. mastered' \in {"no", "under way", "yes"}
  BY DEF Run_WriteSongs, Finished, Inv, TypeOK
<1>6. TypeOK'
  BY <1>3, <1>4, <1>5 DEF Run_WriteSongs, Inv, TypeOK
<1>7. Disjoint'
  BY <1>4 DEF Inv, Disjoint
<1>8. ASSUME NEW d \in versionOf', NEW e \in versionOf', d[1] = e[1] PROVE d = e
  <2>1. \A f \in versionOf' :
          \/ f \in versionOf /\ \A s \in batch : f[1] \in s.tracks => f[2] = s.id
          \/ \E s \in batch : f[1] \in s.tracks /\ f[2] = s.id
    BY DEF Run_WriteSongs, MergeSongClusters
  <2>2. \A r, s \in batch : d[1] \in r.tracks /\ d[1] \in s.tracks => r = s
    BY <1>1 DEF Inv, Disjoint
  <2>3. d[2] = e[2]
    BY <1>8, <2>1, <2>2 DEF Inv, OneSongPerTrack
  <2>. QED  BY <1>3, <1>8, <2>3
<1>. QED  BY <1>6, <1>7, <1>8 DEF Inv, OneSongPerTrack

LEMMA InvWriteRemixes == Inv /\ Run_WriteRemixes => Inv'
<1>. SUFFICES ASSUME Inv, Run_WriteRemixes PROVE Inv'
  OBVIOUS
<1>1. remixOf' \subseteq Id \X Id
  BY DEF Run_WriteRemixes, MergeRemixOf, Inv, TypeOK
<1>2. TypeOK'
  BY <1>1 DEF Run_WriteRemixes, Idle, Finished, Inv, TypeOK
<1>. QED  BY <1>2 DEF Run_WriteRemixes, Idle, Inv, Disjoint, OneSongPerTrack

LEMMA InvDies == Inv /\ Run_Dies => Inv'
<1>. SUFFICES ASSUME Inv, Run_Dies PROVE Inv'
  OBVIOUS
<1>1. TypeOK'
  BY DEF Run_Dies, Idle, Inv, TypeOK
<1>. QED  BY <1>1 DEF Run_Dies, Idle, Inv, Disjoint, OneSongPerTrack

LEMMA ChangesCounted == Inv /\ Changes => changes' \in 0..MaxChanges
<1>. SUFFICES ASSUME Inv, Changes PROVE changes' \in 0..MaxChanges
  OBVIOUS
<1>1. changes \in 0..MaxChanges /\ changes < MaxChanges /\ changes' = changes + 1
  BY DEF Inv, TypeOK, Changes
<1>. QED  BY <1>1, BoundsAreNumbers

LEMMA InvInsert ==
  ASSUME Inv, NEW t \in Tracks, NEW r \in Payloads[t], InsertTrack(t, r)
  PROVE  Inv'
<1>1. r \in Record /\ track[t] \in Record \cup {Absent}
  BY MasteringAssumption DEF Inv, TypeOK
<1>2. Merged(track[t], r) \in Record \cup {Absent}
  BY <1>1 DEF Merged, Record, Coalesce
<1>3. track' = [track EXCEPT ![t] = Merged(track[t], r)]
  BY DEF InsertTrack
<1>4. track' \in [Tracks -> Record \cup {Absent}]
  <2>1. track \in [Tracks -> Record \cup {Absent}]
    BY DEF Inv, TypeOK
  <2>. QED  BY <1>2, <1>3, <2>1
<1>5. changes' \in 0..MaxChanges
  <2>1. Changes
    BY DEF InsertTrack
  <2>. QED  BY <2>1, ChangesCounted
<1>6. TypeOK'
  BY <1>4, <1>5 DEF InsertTrack, Changes, Inv, TypeOK
<1>. QED  BY <1>6 DEF InsertTrack, Changes, Inv, Disjoint, OneSongPerTrack

LEMMA InvEdit ==
  ASSUME Inv, NEW file \in OverrideFiles, EditOverrides(file)
  PROVE  Inv'
<1>1. overrides' \in Overrides
  BY MasteringAssumption DEF EditOverrides
<1>2. changes' \in 0..MaxChanges
  <2>1. Changes
    BY DEF EditOverrides
  <2>. QED  BY <2>1, ChangesCounted
<1>3. TypeOK'
  BY <1>1, <1>2 DEF EditOverrides, Changes, Inv, TypeOK
<1>. QED  BY <1>3 DEF EditOverrides, Changes, Inv, Disjoint, OneSongPerTrack

LEMMA InvNext == Inv /\ [Next]_vars => Inv'
<1>. SUFFICES ASSUME Inv, [Next]_vars PROVE Inv'
  OBVIOUS
<1>1. CASE UNCHANGED vars
  BY <1>1 DEF vars, Inv, TypeOK, Disjoint, OneSongPerTrack
<1>. QED
  BY <1>1, InvBegin, InvWriteSongs, InvWriteRemixes, InvDies, InvInsert, InvEdit DEF Next

(* Every variable keeps its shape.                                         *)
THEOREM MasteringTypes == Spec => []TypeOK
<1>1. Inv => TypeOK
  BY DEF Inv
<1>. QED  BY <1>1, InvInit, InvNext, PTL DEF Spec

(* A track never has two VERSION_OF edges, whatever happens between two    *)
(* batches of a run, and whichever earlier runs died.                      *)
THEOREM TrackHasOneSong == Spec => []OneSongPerTrack
<1>1. Inv => OneSongPerTrack
  BY DEF Inv
<1>. QED  BY <1>1, InvInit, InvNext, PTL DEF Spec

-----------------------------------------------------------------------------
(* Ids are distinct.  All that the union-find has to do for it is to keep  *)
(* the tracks of one ISRC together, the top rung of the ladder.            *)

(* Two clusters with a track in common are one.                            *)
LEMMA ClustersDisjoint ==
  ASSUME NEW c \in Clusters, NEW d \in Clusters, NEW t \in c, t \in d
  PROVE  c = d
BY DEF Clusters

LEMMA KnownTracks ==
  ASSUME TypeOK, NEW g \in Groups, NEW t \in g.tracks
  PROVE  t \in Known /\ t \in Tracks /\ track[t] \in Record
<1>1. Known \subseteq Tracks
  BY DEF Known
<1>2. \A c \in Clusters : c \subseteq Known
  BY DEF Clusters
<1>3. \A n \in DOMAIN overrides.splits : TornOutBy(n) \subseteq Known
  BY DEF TornOutBy
<1>4. t \in Known
  <2>1. CASE \E c \in Clusters : g = [tracks |-> c \ TornOut, split |-> FALSE]
    BY <1>2, <2>1
  <2>2. CASE \E n \in DOMAIN overrides.splits : g = [tracks |-> TornOutBy(n), split |-> TRUE]
    BY <1>3, <2>2
  <2>. QED  BY <2>1, <2>2 DEF Groups
<1>. QED  BY <1>1, <1>4 DEF Known, TypeOK

(* Groups with one natural id have a track in common, or tracks of one     *)
(* ISRC: a key of theirs says which.                                       *)
LEMMA SameIdSameKey ==
  ASSUME TypeOK, NEW g \in Groups, NEW h \in Groups, NaturalId(g) = NaturalId(h)
  PROVE  \E t \in g.tracks, u \in h.tracks :
           t = u \/ (track[t].isrc = track[u].isrc /\ track[t].isrc # NoIsrc)
<1>1. NoIsrc \notin Isrcs /\ Isrcs \cap Tracks = {} /\ IsFiniteSet(Tracks)
  BY MasteringAssumption
<1>2. g.tracks # {} /\ h.tracks # {}
  BY DEF Groups
<1>3. CASE \E i \in Isrcs : IsrcsOf(g) = {i}
  <2>1. NaturalId(g).isrc \in Isrcs /\ IsrcsOf(g) = {NaturalId(g).isrc}
    BY <1>3 DEF NaturalId
  <2>2. NaturalId(h).isrc # NoIsrc
    BY <2>1, <1>1
  <2>3. \E i \in Isrcs : IsrcsOf(h) = {i}
    BY <2>2 DEF NaturalId
  <2>4. IsrcsOf(h) = {NaturalId(h).isrc}
    BY <2>3 DEF NaturalId
  <2>5. PICK t \in g.tracks : track[t].isrc = NaturalId(g).isrc
    BY <2>1 DEF IsrcsOf
  <2>6. PICK u \in h.tracks : track[u].isrc = NaturalId(h).isrc
    BY <2>4 DEF IsrcsOf
  <2>. QED  BY <2>5, <2>6, <2>2
<1>4. CASE ~\E i \in Isrcs : IsrcsOf(g) = {i}
  <2>1. NaturalId(g) = [isrc |-> NoIsrc, keys |-> MemberKeys(g), split |-> {}]
    BY <1>4 DEF NaturalId
  <2>2. ~\E i \in Isrcs : IsrcsOf(h) = {i}
    <3>1. SUFFICES ASSUME \E i \in Isrcs : IsrcsOf(h) = {i} PROVE FALSE
      OBVIOUS
    <3>2. NaturalId(h).isrc \in Isrcs
      BY <3>1 DEF NaturalId
    <3>. QED  BY <3>2, <2>1, <1>1
  <2>3. NaturalId(h) = [isrc |-> NoIsrc, keys |-> MemberKeys(h), split |-> {}]
    BY <2>2 DEF NaturalId
  <2>4. MemberKeys(g) = MemberKeys(h)
    <3>1. NaturalId(g).keys = MemberKeys(g)
      BY <2>1
    <3>2. NaturalId(h).keys = MemberKeys(h)
      BY <2>3
    <3>. QED  BY <3>1, <3>2
  <2>5. PICK t \in g.tracks : TRUE
    BY <1>2
  <2>6. t \in Tracks /\ track[t] \in Record
    BY <2>5, KnownTracks
  <2>7. KeyOf(t) \in Keys
    BY <2>6 DEF KeyOf, Keys, Record
  <2>. DEFINE of(x) == {v \in x.tracks : KeyOf(v) = KeyOf(t)}
  <2>8. IsFiniteSet(of(g))
    <3>1. of(g) \subseteq Tracks
      BY KnownTracks
    <3>. QED  BY <3>1, <1>1, FS_Subset
  <2>9. Cardinality(of(g)) # 0
    <3>1. t \in of(g)
      BY <2>5
    <3>. QED  BY <3>1, <2>8, FS_EmptySet
  <2>10. Cardinality(of(h)) = Cardinality(of(g))
    <3>1. MemberKeys(g)[KeyOf(t)] = Cardinality(of(g)) /\ MemberKeys(h)[KeyOf(t)] = Cardinality(of(h))
      BY <2>7 DEF MemberKeys
    <3>. QED  BY <3>1, <2>4
  <2>11. of(h) # {}
    BY <2>9, <2>10, FS_EmptySet
  <2>12. PICK u \in h.tracks : KeyOf(u) = KeyOf(t)
    BY <2>11
  <2>13. u \in Tracks /\ track[u] \in Record
    BY <2>12, KnownTracks
  <2>. QED  BY <2>5, <2>6, <2>12, <2>13, <1>1 DEF KeyOf, Record
<1>. QED  BY <1>3, <1>4

-----------------------------------------------------------------------------
(* The union-find.  Induction over numbers and over finite sets goes by    *)
(* least members: the first case that fails has one before it.             *)

(* A nonempty set of naturals has a least member.                          *)
LEMMA LeastNatural ==
  ASSUME NEW T \in SUBSET Nat, T # {}
  PROVE  \E x \in T : \A y \in T : x <= y
<1>. DEFINE U == {0..x : x \in T}
<1>1. U \subseteq FiniteSubsetsOf(Nat) /\ U # {}
  <2>1. \A x \in T : IsFiniteSet(0..x) /\ 0..x \subseteq Nat
    BY FS_Interval
  <2>. QED  BY <2>1 DEF FiniteSubsetsOf
<1>2. PICK u \in U : \A v \in U : ~ (<<v, u>> \in StrictSubsetOrdering(Nat))
  <2>. HIDE DEF U
  <2>. QED  BY <1>1, WFMin, FS_StrictSubsetOrderingWellFounded
<1>3. PICK x \in T : u = 0..x
  BY <1>2
<1>4. ASSUME NEW y \in T PROVE x <= y
  <2>1. SUFFICES ASSUME y < x PROVE FALSE
    OBVIOUS
  <2>2. 0..y \subseteq 0..x /\ 0..y # 0..x
    <3>1. x \in 0..x /\ x \notin 0..y
      BY <2>1
    <3>. QED  BY <2>1, <3>1
  <2>3. <<0..y, 0..x>> \in StrictSubsetOrdering(Nat)
    BY <2>2 DEF StrictSubsetOrdering
  <2>. QED  BY <1>2, <1>3, <2>3
<1>. QED  BY <1>4

LEMMA AllNaturals ==
  ASSUME NEW B \in SUBSET Nat, 0 \in B, \A n \in B : n + 1 \in B
  PROVE  B = Nat
<1>1. SUFFICES ASSUME Nat \ B # {} PROVE FALSE
  OBVIOUS
<1>2. PICK x \in Nat \ B : \A y \in Nat \ B : x <= y
  BY <1>1, LeastNatural
<1>3. x # 0 /\ x - 1 \in Nat
  BY <1>2
<1>4. x - 1 \in B
  BY <1>2, <1>3
<1>. QED  BY <1>2, <1>3, <1>4

LEMMA LeastSubset ==
  ASSUME NEW U, IsFiniteSet(U), NEW B \in SUBSET SUBSET U, B # {}
  PROVE  \E T \in B : \A S \in B : S \subseteq T => S = T
<1>1. B \subseteq FiniteSubsetsOf(U)
  BY FS_Subset DEF FiniteSubsetsOf
<1>2. PICK T \in B : \A S \in B : ~ (<<S, T>> \in StrictSubsetOrdering(U))
  BY <1>1, WFMin, FS_StrictSubsetOrderingWellFounded
<1>3. ASSUME NEW S \in B, S \subseteq T, S # T PROVE FALSE
  <2>1. <<S, T>> \in StrictSubsetOrdering(U)
    BY <1>3 DEF StrictSubsetOrdering
  <2>. QED  BY <1>2, <2>1
<1>. QED  BY <1>3

LEMMA AllSubsets ==
  ASSUME NEW U, IsFiniteSet(U), NEW B \in SUBSET SUBSET U,
         {} \in B, \A T \in B, x \in U : T \cup {x} \in B
  PROVE  B = SUBSET U
<1>. DEFINE Others == (SUBSET U) \ B
<1>1. SUFFICES ASSUME Others # {} PROVE FALSE
  OBVIOUS
<1>2. Others \in SUBSET SUBSET U
  OBVIOUS
<1>3. PICK T \in Others : \A S \in Others : S \subseteq T => S = T
  <2>. HIDE DEF Others
  <2>. QED  BY <1>1, <1>2, LeastSubset
<1>4. PICK x \in T : TRUE
  BY <1>3
<1>5. T \ {x} \subseteq T /\ T \ {x} # T /\ T = (T \ {x}) \cup {x} /\ x \in U
  BY <1>3, <1>4
<1>6. T \ {x} \in B
  BY <1>3, <1>5
<1>7. (T \ {x}) \cup {x} \in B
  BY <1>5, <1>6
<1>. QED  BY <1>3, <1>5, <1>7

LEMMA BoundedNaturals ==
  ASSUME NEW K \in SUBSET Nat, IsFiniteSet(K)
  PROVE  \E n \in Nat : \A i \in K : i < n
<1>. DEFINE B == {T \in SUBSET K : \E n \in Nat : \A i \in T : i < n}
<1>1. {} \in B
  OBVIOUS
<1>2. ASSUME NEW T \in B, NEW x \in K PROVE T \cup {x} \in B
  <2>1. PICK n \in Nat : \A i \in T : i < n
    OBVIOUS
  <2>2. n + x + 1 \in Nat /\ \A i \in T \cup {x} : i < n + x + 1
    BY <2>1
  <2>. QED  BY <2>2
<1>3. B = SUBSET K
  <2>1. B \in SUBSET SUBSET K
    OBVIOUS
  <2>. HIDE DEF B
  <2>. QED  BY <1>1, <1>2, <2>1, AllSubsets
<1>. QED  BY <1>3

(* Every link goes down, to a root that links to itself.                   *)
Forests(K) == {P \in [K -> K] : \A i \in K : P[i] <= i}

RootsFrom(P, f) == [i \in DOMAIN P |-> IF P[i] = i THEN i ELSE f[P[i]]]

RootsOf(P) == CHOOSE f : f = RootsFrom(P, f)

LEMMA FindIsRoot == \A P, t : Find(P, t) = RootsOf(P)[t]
BY DEF Find, RootsOf, RootsFrom

LEMMA RootsExist ==
  ASSUME NEW K \in SUBSET Nat, IsFiniteSet(K), NEW P \in Forests(K)
  PROVE  RootsOf(P) = RootsFrom(P, RootsOf(P))
<1>1. P \in [K -> K] /\ \A i \in K : P[i] <= i
  BY DEF Forests
<1>. DEFINE Below(n) == {i \in K : i < n}
            B == {n \in Nat : \E f \in [Below(n) -> K] :
                    \A i \in Below(n) : f[i] = IF P[i] = i THEN i ELSE f[P[i]]}
<1>0. \A i \in K : i \in Nat
  OBVIOUS
<1>2. 0 \in B
  <2>1. Below(0) = {}
    <3>1. \A i \in K : ~ (i < 0)
      BY <1>0
    <3>. QED  BY <3>1
  <2>. DEFINE f == [i \in {} |-> 0]
  <2>2. f \in [{} -> K]
    OBVIOUS
  <2>. QED  BY <2>1, <2>2
<1>3. ASSUME NEW n \in B PROVE n + 1 \in B
  <2>1. PICK f \in [Below(n) -> K] : \A i \in Below(n) : f[i] = IF P[i] = i THEN i ELSE f[P[i]]
    OBVIOUS
  <2>. DEFINE g == [i \in Below(n + 1) |-> IF P[i] = i THEN i ELSE f[P[i]]]
  <2>2. ASSUME NEW i \in Below(n + 1), P[i] # i PROVE P[i] \in Below(n)
    <3>1. i \in Nat /\ P[i] \in Nat /\ P[i] \in K /\ n \in Nat /\ i < n + 1 /\ P[i] <= i
      BY <1>0, <1>1
    <3>. QED  BY <2>2, <3>1
  <2>3. g \in [Below(n + 1) -> K]
    BY <2>2
  <2>4. \A i \in Below(n) : i \in Below(n + 1) /\ g[i] = f[i]
    BY <2>1
  <2>5. \A i \in Below(n + 1) : g[i] = IF P[i] = i THEN i ELSE g[P[i]]
    BY <2>2, <2>4
  <2>6. n + 1 \in Nat
    OBVIOUS
  <2>. HIDE DEF g, Below
  <2>. QED  BY <2>3, <2>5, <2>6
<1>4. B = Nat
  <2>1. B \in SUBSET Nat
    OBVIOUS
  <2>. HIDE DEF B
  <2>. QED  BY <1>2, <1>3, <2>1, AllNaturals
<1>5. PICK n \in Nat : \A i \in K : i < n
  BY BoundedNaturals
<1>6. Below(n) = K
  BY <1>5
<1>7. PICK f \in [K -> K] : \A i \in K : f[i] = IF P[i] = i THEN i ELSE f[P[i]]
  BY <1>4, <1>6
<1>8. f = RootsFrom(P, f)
  BY <1>1, <1>7 DEF RootsFrom
<1>. QED  BY <1>8 DEF RootsOf

LEMMA FindStep ==
  ASSUME NEW K \in SUBSET Nat, IsFiniteSet(K), NEW P \in Forests(K), NEW i \in K
  PROVE  Find(P, i) = IF P[i] = i THEN i ELSE Find(P, P[i])
<1>1. DOMAIN P = K
  BY DEF Forests
<1>. QED  BY <1>1, RootsExist, FindIsRoot DEF RootsFrom

(* What find returns is a root, below where it started.                    *)
LEMMA FindRoot ==
  ASSUME NEW K \in SUBSET Nat, IsFiniteSet(K), NEW P \in Forests(K), NEW i \in K
  PROVE  /\ Find(P, i) \in K /\ P[Find(P, i)] = Find(P, i)
         /\ Find(P, Find(P, i)) = Find(P, i)
<1>1. P \in [K -> K] /\ \A j \in K : P[j] <= j
  BY DEF Forests
<1>. DEFINE Wrong == {j \in K : ~ (Find(P, j) \in K /\ P[Find(P, j)] = Find(P, j))}
<1>2. Wrong = {}
  <2>1. SUFFICES ASSUME Wrong # {} PROVE FALSE
    OBVIOUS
  <2>2. Wrong \in SUBSET Nat
    OBVIOUS
  <2>3. PICK j \in Wrong : \A k \in Wrong : j <= k
    <3>. HIDE DEF Wrong
    <3>. QED  BY <2>1, <2>2, LeastNatural
  <2>4. CASE P[j] = j
    BY <2>4, FindStep
  <2>5. CASE P[j] # j
    <3>1. P[j] \in K /\ P[j] < j /\ j \in K
      <4>1. j \in K /\ j \in Nat /\ P[j] \in K /\ P[j] \in Nat /\ P[j] <= j
        BY <1>1
      <4>. QED  BY <2>5, <4>1
    <3>2. P[j] \notin Wrong
      <4>1. j \in Nat /\ P[j] \in Nat
        BY <3>1
      <4>. QED  BY <2>3, <3>1, <4>1
    <3>3. Find(P, j) = Find(P, P[j])
      BY <2>5, <3>1, FindStep
    <3>. QED  BY <3>1, <3>2, <3>3
  <2>. QED  BY <2>4, <2>5
<1>3. Find(P, i) \in K /\ P[Find(P, i)] = Find(P, i)
  BY <1>2
<1>. QED  BY <1>3, FindStep

(* Union puts one root under the other and moves nothing else.             *)
LEMMA UnionFinds ==
  ASSUME NEW K \in SUBSET Nat, IsFiniteSet(K), NEW P \in Forests(K), NEW p \in K \X K
  PROVE  /\ Union(p, P) \in Forests(K)
         /\ \E lo, hi \in {Find(P, p[1]), Find(P, p[2])} :
              /\ {lo, hi} = {Find(P, p[1]), Find(P, p[2])}
              /\ \A i \in K : Find(Union(p, P), i) = IF Find(P, i) = hi THEN lo ELSE Find(P, i)
<1>. DEFINE a == Find(P, p[1])
            b == Find(P, p[2])
            lo == IF a < b THEN a ELSE b
            hi == IF a < b THEN b ELSE a
            Q == Union(p, P)
<1>1. P \in [K -> K] /\ \A j \in K : P[j] <= j
  BY DEF Forests
<1>2. a \in K /\ b \in K /\ P[a] = a /\ P[b] = b
  BY FindRoot
<1>3. lo \in K /\ hi \in K /\ lo <= hi /\ P[lo] = lo /\ P[hi] = hi /\ {lo, hi} = {a, b}
  <2>. HIDE DEF a, b
  <2>. QED  BY <1>2
<1>4. Q = [P EXCEPT ![hi] = lo]
  BY DEF Union
<1>. HIDE DEF a, b, lo, hi, Q
<1>5. Q \in Forests(K)
  <2>1. Q \in [K -> K]
    BY <1>1, <1>3, <1>4
  <2>2. ASSUME NEW j \in K PROVE Q[j] <= j
    BY <1>1, <1>3, <1>4
  <2>. QED  BY <2>1, <2>2 DEF Forests
<1>. DEFINE Right(i) == Find(Q, i) = IF Find(P, i) = hi THEN lo ELSE Find(P, i)
            Wrong == {j \in K : ~Right(j)}
<1>6. Q[hi] = lo /\ Q[lo] = lo /\ \A j \in K : j # hi => Q[j] = P[j]
  BY <1>1, <1>3, <1>4
<1>7. Find(Q, lo) = lo /\ Find(Q, hi) = lo
  BY <1>3, <1>5, <1>6, FindStep
<1>8. Wrong = {}
  <2>1. SUFFICES ASSUME Wrong # {} PROVE FALSE
    OBVIOUS
  <2>2. Wrong \in SUBSET Nat
    OBVIOUS
  <2>3. PICK j \in Wrong : \A k \in Wrong : j <= k
    <3>. HIDE DEF Wrong
    <3>. QED  BY <2>1, <2>2, LeastNatural
  <2>4. CASE P[j] = j
    <3>1. Find(P, j) = j
      BY <2>4, FindStep
    <3>2. CASE j = hi
      BY <1>7, <3>1, <3>2
    <3>3. CASE j # hi
      <4>1. Find(Q, j) = j
        BY <1>5, <1>6, <2>4, <3>3, FindStep
      <4>. QED  BY <3>1, <3>3, <4>1
    <3>. QED  BY <3>2, <3>3
  <2>5. CASE P[j] # j
    <3>1. P[j] \in K /\ P[j] < j /\ j \in K /\ j # hi
      <4>1. j \in K /\ j \in Nat /\ P[j] \in K /\ P[j] \in Nat /\ P[j] <= j
        BY <1>1
      <4>. QED  BY <1>3, <2>5, <4>1
    <3>2. Right(P[j])
      <4>1. j \in Nat /\ P[j] \in Nat
        BY <3>1
      <4>2. P[j] \notin Wrong
        BY <2>3, <3>1, <4>1
      <4>. QED  BY <3>1, <4>2
    <3>3. Find(P, j) = Find(P, P[j])
      BY <2>5, <3>1, FindStep
    <3>4. Find(Q, j) = Find(Q, P[j])
      BY <1>5, <1>6, <2>5, <3>1, FindStep
    <3>. QED  BY <3>1, <3>2, <3>3, <3>4
  <2>. QED  BY <2>4, <2>5
<1>9. \A i \in K : Right(i)
  BY <1>8
<1>10. lo \in {a, b} /\ hi \in {a, b}
  BY <1>3
<1>. QED  BY <1>3, <1>5, <1>9, <1>10 DEF Q, a, b

(* Every set that holds both ends or neither of every pair holds both of   *)
(* these or neither: they are connected by the pairs.                      *)
Joined(K, pairs, i, j) ==
  \A S \in SUBSET K :
    (\A p \in pairs : p[1] \in S <=> p[2] \in S) => (i \in S <=> j \in S)

UnitedBy(K, pairs, P) ==
  /\ P \in Forests(K)
  /\ \A p \in pairs : Find(P, p[1]) = Find(P, p[2])
  /\ \A i, j \in K : Find(P, i) = Find(P, j) => Joined(K, pairs, i, j)

LEMMA NothingUnited ==
  ASSUME NEW K \in SUBSET Nat, IsFiniteSet(K)
  PROVE  UnitedBy(K, {}, [t \in K |-> t])
<1>. DEFINE P == [t \in K |-> t]
<1>1. P \in Forests(K)
  <2>1. \A t \in K : t \in Nat
    OBVIOUS
  <2>. QED  BY <2>1 DEF Forests
<1>2. \A i \in K : P[i] = i
  OBVIOUS
<1>. HIDE DEF P
<1>3. \A i \in K : Find(P, i) = i
  BY <1>1, <1>2, FindStep
<1>4. \A i, j \in K : Find(P, i) = Find(P, j) => Joined(K, {}, i, j)
  BY <1>3 DEF Joined
<1>5. UnitedBy(K, {}, P)
  BY <1>1, <1>4 DEF UnitedBy
<1>. QED  BY <1>5 DEF P

LEMMA OneMoreUnited ==
  ASSUME NEW K \in SUBSET Nat, IsFiniteSet(K), NEW pairs \in SUBSET (K \X K),
         NEW p \in K \X K, NEW P, UnitedBy(K, pairs, P)
  PROVE  UnitedBy(K, pairs \cup {p}, Union(p, P))
<1>. DEFINE Q == Union(p, P)
            more == pairs \cup {p}
<1>1. P \in Forests(K) /\ p[1] \in K /\ p[2] \in K
  BY DEF UnitedBy
<1>2. Q \in Forests(K)
  BY <1>1, UnionFinds
<1>3. PICK lo, hi \in {Find(P, p[1]), Find(P, p[2])} :
        /\ {lo, hi} = {Find(P, p[1]), Find(P, p[2])}
        /\ \A i \in K : Find(Q, i) = IF Find(P, i) = hi THEN lo ELSE Find(P, i)
  BY <1>1, UnionFinds
<1>. HIDE DEF Q
<1>4. \A q \in more : Find(Q, q[1]) = Find(Q, q[2])
  <2>1. \A q \in pairs : q[1] \in K /\ q[2] \in K /\ Find(P, q[1]) = Find(P, q[2])
    BY DEF UnitedBy
  <2>2. \A q \in pairs : Find(Q, q[1]) = Find(Q, q[2])
    BY <1>3, <2>1
  <2>3. Find(Q, p[1]) = Find(Q, p[2])
    BY <1>1, <1>3
  <2>. QED  BY <2>2, <2>3
<1>5. ASSUME NEW i \in K, NEW j \in K, Find(Q, i) = Find(Q, j),
             NEW S \in SUBSET K, \A q \in more : q[1] \in S <=> q[2] \in S
      PROVE  i \in S <=> j \in S
  <2>1. \A k, l \in K : Find(P, k) = Find(P, l) => (k \in S <=> l \in S)
    <3>1. \A q \in pairs : q[1] \in S <=> q[2] \in S
      BY <1>5
    <3>. QED  BY <3>1 DEF UnitedBy, Joined
  <2>2. \A k \in K : Find(P, k) \in K /\ (k \in S <=> Find(P, k) \in S)
    <3>1. \A k \in K : Find(P, k) \in K /\ Find(P, Find(P, k)) = Find(P, k)
      BY <1>1, FindRoot
    <3>. QED  BY <2>1, <3>1
  <2>3. p[1] \in S <=> p[2] \in S
    BY <1>5
  <2>4. lo \in S <=> hi \in S
    <3>1. Find(P, p[1]) \in S <=> Find(P, p[2]) \in S
      BY <1>1, <2>2, <2>3
    <3>. QED  BY <1>3, <3>1
  <2>5. \A k \in K : Find(Q, k) \in S <=> Find(P, k) \in S
    BY <1>3, <2>4
  <2>. QED  BY <1>5, <2>2, <2>5
<1>6. UnitedBy(K, more, Q)
  BY <1>2, <1>4, <1>5 DEF UnitedBy, Joined
<1>. QED  BY <1>6 DEF Q

(* The unions one after the other, whatever the order.                     *)
FoldFrom(K, U, f) ==
  [pairs \in SUBSET U |->
     IF pairs = {} THEN [t \in K |-> t]
     ELSE LET p == CHOOSE p \in pairs : TRUE IN Union(p, f[pairs \ {p}])]

FoldOf(K, U) == CHOOSE f : f = FoldFrom(K, U, f)

LEMMA ForestIsFold == Forest = FoldOf(Known, AllUnions)[AllUnions]
BY DEF Forest, FoldOf, FoldFrom

LEMMA FoldExists ==
  ASSUME NEW K \in SUBSET Nat, IsFiniteSet(K), NEW U \in SUBSET (K \X K), IsFiniteSet(U)
  PROVE  FoldOf(K, U) = FoldFrom(K, U, FoldOf(K, U))
<1>. DEFINE First(pairs) == CHOOSE p \in pairs : TRUE
            Rest(pairs) == pairs \ {First(pairs)}
            Start == [t \in K |-> t]
            Upto(n) == {pairs \in SUBSET U : Cardinality(pairs) <= n}
            B == {n \in Nat : \E f \in [Upto(n) -> Forests(K)] : \A pairs \in Upto(n) :
                    f[pairs] = IF pairs = {} THEN Start ELSE Union(First(pairs), f[Rest(pairs)])}
<1>1. \A pairs \in SUBSET U : pairs # {} =>
         /\ First(pairs) \in K \X K /\ Rest(pairs) \in SUBSET U
         /\ Cardinality(Rest(pairs)) = Cardinality(pairs) - 1
  <2>. SUFFICES ASSUME NEW pairs \in SUBSET U, pairs # {}
                PROVE  /\ First(pairs) \in K \X K /\ Rest(pairs) \in SUBSET U
                       /\ Cardinality(Rest(pairs)) = Cardinality(pairs) - 1
    OBVIOUS
  <2>1. First(pairs) \in pairs
    OBVIOUS
  <2>2. IsFiniteSet(pairs)
    BY FS_Subset
  <2>. HIDE DEF First
  <2>. QED  BY <2>1, <2>2, FS_RemoveElement
<1>2. \A pairs \in SUBSET U : Cardinality(pairs) \in Nat /\ (Cardinality(pairs) = 0 <=> pairs = {})
  BY FS_Subset, FS_CardinalityType, FS_EmptySet
<1>3. Start \in Forests(K)
  BY NothingUnited DEF UnitedBy
<1>. HIDE DEF First, Rest, Start
<1>4. 0 \in B
  <2>1. \A pairs \in Upto(0) : pairs = {}
    BY <1>2
  <2>. DEFINE f == [pairs \in Upto(0) |-> Start]
  <2>2. f \in [Upto(0) -> Forests(K)]
    BY <1>3
  <2>. QED  BY <2>1, <2>2
<1>5. ASSUME NEW n \in B PROVE n + 1 \in B
  <2>1. PICK f \in [Upto(n) -> Forests(K)] : \A pairs \in Upto(n) :
          f[pairs] = IF pairs = {} THEN Start ELSE Union(First(pairs), f[Rest(pairs)])
    OBVIOUS
  <2>. DEFINE g == [pairs \in Upto(n + 1) |->
                      IF pairs = {} THEN Start ELSE Union(First(pairs), f[Rest(pairs)])]
  <2>2. n \in Nat
    OBVIOUS
  <2>3. \A pairs \in Upto(n + 1) : pairs # {} => First(pairs) \in K \X K /\ Rest(pairs) \in Upto(n)
    BY <1>1, <1>2, <2>2
  <2>4. \A pairs \in Upto(n) : pairs \in Upto(n + 1)
    BY <1>2, <2>2
  <2>. HIDE DEF Upto
  <2>5. g \in [Upto(n + 1) -> Forests(K)]
    <3>1. ASSUME NEW pairs \in Upto(n + 1), pairs # {}
          PROVE  Union(First(pairs), f[Rest(pairs)]) \in Forests(K)
      <4>1. f[Rest(pairs)] \in Forests(K) /\ First(pairs) \in K \X K
        BY <2>3, <3>1
      <4>. QED  BY <4>1, UnionFinds
    <3>. QED  BY <1>3, <3>1
  <2>6. \A pairs \in Upto(n) : g[pairs] = f[pairs]
    BY <2>1, <2>4
  <2>7. \A pairs \in Upto(n + 1) :
          g[pairs] = IF pairs = {} THEN Start ELSE Union(First(pairs), g[Rest(pairs)])
    BY <2>3, <2>6
  <2>8. n + 1 \in Nat
    BY <2>2
  <2>. HIDE DEF g
  <2>. QED  BY <2>5, <2>7, <2>8
<1>6. B = Nat
  <2>1. B \in SUBSET Nat
    OBVIOUS
  <2>. HIDE DEF B
  <2>. QED  BY <1>4, <1>5, <2>1, AllNaturals
<1>7. Upto(Cardinality(U)) = SUBSET U
  BY FS_Subset
<1>8. Cardinality(U) \in Nat
  BY <1>2
<1>9. PICK f \in [SUBSET U -> Forests(K)] : \A pairs \in SUBSET U :
        f[pairs] = IF pairs = {} THEN Start ELSE Union(First(pairs), f[Rest(pairs)])
  <2>1. Cardinality(U) \in B
    BY <1>6, <1>8
  <2>. HIDE DEF Upto
  <2>. QED  BY <1>7, <2>1
<1>10. f = FoldFrom(K, U, f)
  BY <1>9 DEF FoldFrom, First, Rest, Start
<1>. QED  BY <1>10 DEF FoldOf

(* Two are in one class exactly if the unions connect them.                *)
LEMMA FoldUnites ==
  ASSUME NEW K \in SUBSET Nat, IsFiniteSet(K), NEW U \in SUBSET (K \X K), IsFiniteSet(U)
  PROVE  UnitedBy(K, U, FoldOf(K, U)[U])
<1>. DEFINE f == FoldOf(K, U)
            Wrong == {pairs \in SUBSET U : ~UnitedBy(K, pairs, f[pairs])}
<1>1. \A pairs \in SUBSET U : f[pairs] = FoldFrom(K, U, f)[pairs]
  BY FoldExists
<1>. HIDE DEF f
<1>2. Wrong = {}
  <2>1. SUFFICES ASSUME Wrong # {} PROVE FALSE
    OBVIOUS
  <2>2. Wrong \in SUBSET SUBSET U
    OBVIOUS
  <2>3. PICK pairs \in Wrong : \A S \in Wrong : S \subseteq pairs => S = pairs
    <3>. HIDE DEF Wrong
    <3>. QED  BY <2>1, <2>2, LeastSubset
  <2>4. CASE pairs = {}
    <3>1. f[pairs] = [t \in K |-> t]
      BY <1>1, <2>4 DEF FoldFrom
    <3>. QED  BY <2>3, <2>4, <3>1, NothingUnited
  <2>5. CASE pairs # {}
    <3>1. PICK p \in pairs : f[pairs] = Union(p, f[pairs \ {p}])
      BY <1>1, <2>5 DEF FoldFrom
    <3>2. pairs \ {p} \subseteq pairs /\ pairs \ {p} # pairs /\ pairs = (pairs \ {p}) \cup {p}
      BY <3>1
    <3>3. UnitedBy(K, pairs \ {p}, f[pairs \ {p}])
      BY <2>3, <3>2
    <3>4. pairs \ {p} \in SUBSET (K \X K) /\ p \in K \X K
      OBVIOUS
    <3>5. UnitedBy(K, (pairs \ {p}) \cup {p}, Union(p, f[pairs \ {p}]))
      BY <3>3, <3>4, OneMoreUnited
    <3>. QED  BY <2>3, <3>1, <3>2, <3>5
  <2>. QED  BY <2>4, <2>5
<1>3. UnitedBy(K, U, f[U])
  BY <1>2
<1>. QED  BY <1>3 DEF f

-----------------------------------------------------------------------------
(* What the rungs of the ladder unite.                                     *)

LEMMA KnownFinite == Known \in SUBSET Nat /\ IsFiniteSet(Known)
<1>1. Known \in SUBSET Tracks
  BY DEF Known
<1>. QED  BY <1>1, MasteringAssumption, FS_Subset

LEMMA KnownRecords == TypeOK => \A t \in Known : track[t] \in Record
BY DEF TypeOK, Known

LEMMA UnionsKnown == AllUnions \in SUBSET (Known \X Known) /\ IsFiniteSet(AllUnions)
<1>1. \A group : Spokes(group) \subseteq group \X group
  BY DEF Spokes
<1>2. IsrcUnions \subseteq Known \X Known
  <2>1. \A i \in Isrcs : Spokes({t \in Known : track[t].isrc = i}) \subseteq Known \X Known
    BY <1>1
  <2>. QED  BY <2>1 DEF IsrcUnions
<1>3. OverrideUnions \subseteq Known \X Known
  <2>1. \A group \in overrides.merges : Spokes(group \cap Known) \subseteq Known \X Known
    BY <1>1
  <2>. QED  BY <2>1 DEF OverrideUnions
<1>4. HeuristicUnions \subseteq Known \X Known
  <2>1. \A block \in SUBSET Known : Neighbours(block) \subseteq Known \X Known
    BY DEF Neighbours
  <2>2. \A t \in Known : {u \in Known : SameTitle(t, u)} \in SUBSET Known
    OBVIOUS
  <2>. QED  BY <2>1, <2>2 DEF HeuristicUnions
<1>5. AllUnions \in SUBSET (Known \X Known)
  BY <1>2, <1>3, <1>4 DEF AllUnions, LinkedFromUnions
<1>6. IsFiniteSet(Known \X Known)
  BY KnownFinite, FS_Product
<1>. QED  BY <1>5, <1>6, FS_Subset

LEMMA OneClass ==
  ASSUME NEW t \in Known, NEW u \in Known
  PROVE  Find(Forest, t) = Find(Forest, u) <=> Joined(Known, AllUnions, t, u)
<1>1. UnitedBy(Known, AllUnions, Forest)
  BY KnownFinite, UnionsKnown, FoldUnites, ForestIsFold
<1>2. Find(Forest, t) = Find(Forest, u) => Joined(Known, AllUnions, t, u)
  BY <1>1 DEF UnitedBy
<1>3. ASSUME Joined(Known, AllUnions, t, u) PROVE Find(Forest, t) = Find(Forest, u)
  <2>. DEFINE S == {k \in Known : Find(Forest, k) = Find(Forest, t)}
  <2>1. \A p \in AllUnions : p[1] \in S <=> p[2] \in S
    BY <1>1, UnionsKnown DEF UnitedBy
  <2>2. S \in SUBSET Known /\ t \in S
    OBVIOUS
  <2>3. u \in S
    <3>. HIDE DEF S
    <3>. QED  BY <1>3, <2>1, <2>2 DEF Joined
  <2>. QED  BY <2>3
<1>. QED  BY <1>2, <1>3

(* Uniting the first with every other puts all of a group together.        *)
LEMMA SpokesJoin ==
  ASSUME NEW group \in SUBSET Known, NEW S, \A p \in Spokes(group) : p[1] \in S <=> p[2] \in S,
         NEW t \in group, NEW u \in group
  PROVE  t \in S <=> u \in S
<1>1. PICK m \in group : \A x \in group : m <= x
  <2>1. group \in SUBSET Nat /\ group # {}
    BY KnownFinite
  <2>. QED  BY <2>1, LeastNatural
<1>2. \A x \in group : x # m => <<m, x>> \in Spokes(group)
  BY <1>1 DEF Spokes
<1>3. \A x \in group : m \in S <=> x \in S
  <2>. SUFFICES ASSUME NEW x \in group, x # m PROVE m \in S <=> x \in S
    OBVIOUS
  <2>1. <<m, x>> \in Spokes(group)
    BY <1>2
  <2>2. <<m, x>>[1] \in S <=> <<m, x>>[2] \in S
    BY <2>1
  <2>. QED  BY <2>2
<1>. QED  BY <1>3

(* The ISRC tier unites everything that shares an ISRC.                    *)
LEMMA IsrcsUnite == TypeOK => IsrcUnited
<1>. SUFFICES ASSUME TypeOK, NEW t \in Known, NEW u \in Known,
                     track[t].isrc = track[u].isrc, track[t].isrc # NoIsrc
              PROVE  \E c \in Clusters : t \in c /\ u \in c
  BY DEF IsrcUnited
<1>. DEFINE i == track[t].isrc
            group == {x \in Known : track[x].isrc = i}
<1>1. i \in Isrcs
  <2>1. track[t] \in Record
    BY KnownRecords
  <2>. QED  BY <2>1 DEF Record
<1>2. Spokes(group) \subseteq AllUnions
  BY <1>1 DEF AllUnions, IsrcUnions
<1>3. Joined(Known, AllUnions, t, u)
  <2>. SUFFICES ASSUME NEW S \in SUBSET Known, \A p \in AllUnions : p[1] \in S <=> p[2] \in S
                PROVE  t \in S <=> u \in S
    BY DEF Joined
  <2>1. \A p \in Spokes(group) : p[1] \in S <=> p[2] \in S
    BY <1>2
  <2>2. group \in SUBSET Known /\ t \in group /\ u \in group
    OBVIOUS
  <2>. HIDE DEF group
  <2>. QED  BY <2>1, <2>2, SpokesJoin
<1>4. Find(Forest, t) = Find(Forest, u)
  BY <1>3, OneClass
<1>. DEFINE c == {x \in Known : Find(Forest, x) = Find(Forest, t)}
<1>5. c \in Clusters
  BY DEF Clusters
<1>6. t \in c /\ u \in c
  BY <1>4
<1>. QED  BY <1>5, <1>6

-----------------------------------------------------------------------------
(* Ids.                                                                    *)

LEMMA Distinct ==
  ASSUME TypeOK, NEW g \in Groups, NEW h \in Groups,
         SongId(g, Groups) = SongId(h, Groups)
  PROVE  g = h
<1>. SUFFICES ASSUME g # h PROVE FALSE
  OBVIOUS
<1>1. /\ g \in Group /\ h \in Group /\ g.tracks # {} /\ h.tracks # {}
      /\ NaturalId(g) \in Id /\ NaturalId(h) \in Id
      /\ NaturalId(g).split = {} /\ NaturalId(h).split = {}
  <2>1. g.tracks # {} /\ h.tracks # {}
    BY DEF Groups
  <2>. QED  BY <2>1, GroupsType, NaturalIdType
<1>2. NaturalId(g) = NaturalId(h)
  <2>1. \A x \in {g, h} : /\ SongId(x, Groups).isrc = NaturalId(x).isrc
                         /\ SongId(x, Groups).keys = NaturalId(x).keys
    BY <1>1 DEF SongId, Id
  <2>2. NaturalId(g).isrc = NaturalId(h).isrc /\ NaturalId(g).keys = NaturalId(h).keys
    BY <2>1
  <2>. QED  BY <1>1, <2>2 DEF Id
<1>3. \A x \in {g, h} : SongId(x, Groups).split = IF x.split THEN x.tracks ELSE {}
  BY <1>1, <1>2 DEF SongId, Id
<1>4. CASE g.split \/ h.split
  <2>1. g.tracks = h.tracks
    BY <1>1, <1>3, <1>4
  <2>2. PICK t \in g.tracks : t \in h.tracks
    BY <2>1, <1>1
  <2>. QED  BY <2>2, GroupsDisjoint
<1>5. CASE ~g.split /\ ~h.split
  <2>1. PICK c \in Clusters, d \in Clusters :
          g = [tracks |-> c \ TornOut, split |-> FALSE] /\ h = [tracks |-> d \ TornOut, split |-> FALSE]
    BY <1>5 DEF Groups
  <2>2. PICK t \in g.tracks, u \in h.tracks :
          t = u \/ (track[t].isrc = track[u].isrc /\ track[t].isrc # NoIsrc)
    BY <1>2, SameIdSameKey
  <2>3. t # u
    BY <2>2, GroupsDisjoint
  <2>4. PICK e \in Clusters : t \in e /\ u \in e
    BY <2>2, <2>3, KnownTracks, IsrcsUnite DEF IsrcUnited
  <2>5. t \in c /\ u \in d
    BY <2>1, <2>2
  <2>6. c = e /\ d = e
    BY <2>4, <2>5, ClustersDisjoint
  <2>. QED  BY <2>1, <2>6
<1>. QED  BY <1>4, <1>5

(* Whatever the library and the overrides, no two groups that a run writes *)
(* have the same song id, so that the graph never unites what a split tore *)
(* apart: cluster_tracks has no case in which it raises.                   *)
THEOREM IdsAreDistinct == Spec => []IdsDistinct
<1>1. TypeOK => IdsDistinct
  BY Distinct DEF IdsDistinct, IdsDistinctIn
<1>. QED  BY <1>1, MasteringTypes, PTL

(* Whatever shares an ISRC is in one cluster, whatever else the unions of  *)
(* the other rungs do and in whatever order they are made.                 *)
THEOREM IsrcsAreUnited == Spec => []IsrcUnited
BY IsrcsUnite, MasteringTypes, PTL

-----------------------------------------------------------------------------
(* What a run decides depends on the tracks and the overrides alone.       *)

Same == UNCHANGED <<track, overrides>>

LEMMA SameKnown ==
  ASSUME Same
  PROVE  /\ Known' = Known
         /\ \A t : Norm(t)' = Norm(t)
BY DEF Same, Known, Norm

LEMMA SameIsrcUnions == Same => IsrcUnions' = IsrcUnions
<1>. SUFFICES ASSUME Same PROVE IsrcUnions' = IsrcUnions
  OBVIOUS
<1>. DEFINE G(i) == {t \in Known : track[t].isrc = i}
<1>1. \A i : G(i)' = G(i)
  BY SameKnown DEF Same
<1>2. IsrcUnions = UNION {Spokes(G(i)) : i \in Isrcs} /\ IsrcUnions' = UNION {Spokes(G(i)') : i \in Isrcs}
  BY DEF IsrcUnions
<1>. HIDE DEF G
<1>3. {Spokes(G(i)') : i \in Isrcs} = {Spokes(G(i)) : i \in Isrcs}
  BY <1>1
<1>. QED  BY <1>2, <1>3

LEMMA SameLinkedUnions == Same => LinkedFromUnions' = LinkedFromUnions
BY SameKnown DEF Same, LinkedFromUnions

LEMMA SameHeuristicUnions == Same => HeuristicUnions' = HeuristicUnions
<1>. SUFFICES ASSUME Same PROVE HeuristicUnions' = HeuristicUnions
  OBVIOUS
<1>1. \A a, b : SameTitle(a, b)' <=> SameTitle(a, b)
  BY SameKnown DEF Same, SameTitle
<1>2. \A a, b : ShorterThan(a, b)' <=> ShorterThan(a, b)
  BY DEF Same, ShorterThan
<1>3. \A a, b : Close(a, b)' <=> Close(a, b)
  BY DEF Same, Close
<1>. DEFINE block(t) == {u \in Known : SameTitle(t, u)}
            blocks   == {block(t) : t \in Known}
<1>4. \A t : block(t)' = block(t)
  BY <1>1, SameKnown
<1>5. blocks' = blocks
  <2>. HIDE DEF block
  <2>. QED  BY <1>4, SameKnown
<1>6. \A B : Neighbours(B)' = Neighbours(B)
  BY <1>2, <1>3 DEF Neighbours
<1>. HIDE DEF blocks
<1>7. {Neighbours(B)' : B \in blocks} = {Neighbours(B) : B \in blocks}
  BY <1>6
<1>8. HeuristicUnions = UNION {Neighbours(B) : B \in blocks}
  BY DEF HeuristicUnions, blocks
<1>9. HeuristicUnions' = UNION {Neighbours(B)' : B \in blocks'}
  BY DEF HeuristicUnions, blocks
<1>. QED  BY <1>5, <1>7, <1>8, <1>9

LEMMA SameOverrideUnions == Same => OverrideUnions' = OverrideUnions
BY SameKnown DEF Same, OverrideUnions

LEMMA SameClusters == Same => Clusters' = Clusters
<1>. SUFFICES ASSUME Same PROVE Clusters' = Clusters
  OBVIOUS
<1>1. AllUnions' = AllUnions
  BY SameIsrcUnions, SameLinkedUnions, SameHeuristicUnions, SameOverrideUnions DEF AllUnions
<1>2. Forest = FoldOf(Known, AllUnions)[AllUnions]
  BY ForestIsFold
<1>3. Forest' = FoldOf(Known', AllUnions')[AllUnions']
  BY DEF Forest, FoldOf, FoldFrom
<1>4. Forest' = Forest /\ Known' = Known
  BY <1>1, <1>2, <1>3, SameKnown
<1>. DEFINE class(t) == {u \in Known : Find(Forest, u) = Find(Forest, t)}
<1>5. \A t : class(t)' = class(t)
  BY <1>4
<1>6. Clusters = {class(t) : t \in Known} /\ Clusters' = {class(t)' : t \in Known'}
  BY DEF Clusters
<1>. HIDE DEF class
<1>. QED  BY <1>4, <1>5, <1>6

LEMMA SameGroups == Same => Groups' = Groups
<1>. SUFFICES ASSUME Same PROVE Groups' = Groups
  OBVIOUS
<1>1. \A n : TornOutBy(n)' = TornOutBy(n)
  BY SameKnown DEF Same, TornOutBy
<1>2. TornOut' = TornOut
  BY <1>1 DEF Same, TornOut
<1>. QED  BY <1>1, <1>2, SameClusters DEF Same, Groups

LEMMA SameIds == Same => \A g, groups : SongId(g, groups)' = SongId(g, groups)
<1>. SUFFICES ASSUME Same PROVE \A g, groups : SongId(g, groups)' = SongId(g, groups)
  OBVIOUS
<1>1. \A g : IsrcsOf(g)' = IsrcsOf(g)
  BY DEF Same, IsrcsOf
<1>2. \A g : MemberKeys(g)' = MemberKeys(g)
  BY DEF Same, MemberKeys, KeyOf
<1>3. \A g : NaturalId(g)' = NaturalId(g)
  BY <1>1, <1>2 DEF NaturalId
<1>. QED  BY <1>3 DEF SongId

LEMMA SameEdges == Same => \A groups : RemixEdges(groups)' = RemixEdges(groups)
<1>. SUFFICES ASSUME Same, NEW groups PROVE RemixEdges(groups)' = RemixEdges(groups)
  OBVIOUS
<1>1. \A artist, text : ParentCandidates(groups, artist, text)' = ParentCandidates(groups, artist, text)
  BY SameKnown DEF Same, ParentCandidates
<1>2. \A r : ParentOf(groups, r)' = ParentOf(groups, r)
  BY <1>1, SameKnown DEF Same, ParentOf
<1>. QED  BY <1>2, SameKnown, SameIds DEF RemixEdges

-----------------------------------------------------------------------------
(* What a run writes is what it decided, and a run that finished with its  *)
(* input unchanged has decided what a run would decide today.              *)

Planned == {[id |-> SongId(g, Groups), tracks |-> g.tracks] : g \in Groups}

Written(s) == \A t \in s.tracks : <<t, s.id>> \in versionOf

(* All but the songs left to write are in the graph.                       *)
WrittenBut(left) == IdsDistinctIn(Groups) /\ \A s \in Planned : s \in left \/ Written(s)

UnderWay ==
  mastered = "under way" =>
    /\ run.pc \in {"songs", "edges"}
    /\ run.songs \subseteq Planned
    /\ run.edges = RemixEdges(Groups)
    /\ WrittenBut(run.songs)
    /\ run.pc = "edges" => run.songs = {}

RemixesWritten ==
  \A e \in RemixEdges(Groups) :
    {d \in remixOf : d[1] = e[1]} = {d \in RemixEdges(Groups) : d[1] = e[1]}

Mastered ==
  mastered = "yes" => run = Idle /\ WrittenBut({}) /\ RemixesWritten

RunInv == Inv /\ UnderWay /\ Mastered

LEMMA SamePlan ==
  ASSUME Same
  PROVE  /\ Groups' = Groups
         /\ Planned' = Planned
         /\ RemixEdges(Groups)' = RemixEdges(Groups)
         /\ IdsDistinctIn(Groups)' <=> IdsDistinctIn(Groups)
<1>1. PICK groups : groups = Groups
  OBVIOUS
<1>2. Groups' = groups
  BY <1>1, SameGroups
<1>3. \A g : SongId(g, groups)' = SongId(g, groups)
  BY SameIds
<1>4. Planned = {[id |-> SongId(g, groups), tracks |-> g.tracks] : g \in groups}
  BY <1>1 DEF Planned
<1>5. Planned' = {[id |-> SongId(g, groups)', tracks |-> g.tracks] : g \in groups}
  BY <1>2 DEF Planned
<1>6. RemixEdges(groups)' = RemixEdges(groups)
  BY SameEdges
<1>7. IdsDistinctIn(groups)' <=> IdsDistinctIn(groups)
  BY <1>3 DEF IdsDistinctIn
<1>. QED  BY <1>1, <1>2, <1>3, <1>4, <1>5, <1>6, <1>7

(* Two songs of a plan have no track in common.                            *)
LEMMA PlanDisjoint ==
  ASSUME TypeOK, NEW r \in Planned, NEW s \in Planned, NEW t \in r.tracks, t \in s.tracks
  PROVE  r = s
<1>1. PICK g \in Groups, h \in Groups : /\ r = [id |-> SongId(g, Groups), tracks |-> g.tracks]
                                        /\ s = [id |-> SongId(h, Groups), tracks |-> h.tracks]
  BY DEF Planned
<1>2. t \in g.tracks /\ t \in h.tracks
  BY <1>1
<1>3. g = h
  BY <1>2, GroupsDisjoint
<1>. QED  BY <1>1, <1>3

LEMMA RunBegins == RunInv /\ Run_Begin => UnderWay' /\ Mastered'
<1>. SUFFICES ASSUME RunInv, Run_Begin PROVE UnderWay' /\ Mastered'
  OBVIOUS
<1>1. Same /\ mastered' = "under way"
  BY DEF Run_Begin, Same
<1>2. /\ run'.pc = "songs" /\ run'.songs = Planned /\ run'.edges = RemixEdges(Groups)
      /\ IdsDistinctIn(Groups)
  BY DEF Run_Begin, Planned
<1>3. WrittenBut(run.songs)'
  BY <1>1, <1>2, SamePlan DEF WrittenBut
<1>. QED  BY <1>1, <1>2, <1>3, SamePlan DEF UnderWay, Mastered

LEMMA RunWritesSongs ==
  ASSUME RunInv, NEW batch \in SUBSET run.songs, Run_WriteSongs(batch)
  PROVE  UnderWay' /\ Mastered'
<1>1. Same /\ remixOf' = remixOf /\ run # Idle /\ mastered # "yes"
  <2>1. Same /\ remixOf' = remixOf /\ run # Idle
    BY DEF Run_WriteSongs, Same, Idle
  <2>. QED  BY <2>1 DEF RunInv, Mastered
<1>2. CASE mastered # "under way"
  <2>1. mastered' = mastered
    BY <1>1, <1>2 DEF Run_WriteSongs, Finished
  <2>. QED  BY <1>1, <1>2, <2>1 DEF UnderWay, Mastered
<1>3. CASE mastered = "under way"
  <2>1. /\ run.songs \subseteq Planned /\ run.edges = RemixEdges(Groups)
        /\ WrittenBut(run.songs) /\ batch \subseteq run.songs
    BY <1>3 DEF RunInv, UnderWay
  <2>2. versionOf' = MergeSongClusters(batch)
    BY DEF Run_WriteSongs
  <2>3. \A s \in batch : Written(s)'
    <3>1. \A s \in batch : \A t \in s.tracks : <<t, s.id>> \in MergeSongClusters(batch)
      BY DEF MergeSongClusters
    <3>. QED  BY <2>2, <3>1 DEF Written
  <2>4. ASSUME NEW s \in Planned, Written(s) PROVE Written(s)'
    <3>1. \A r \in batch : \A t \in r.tracks : t \in s.tracks => r = s
      BY <2>1, PlanDisjoint DEF RunInv, Inv
    <3>2. \A t \in s.tracks : <<t, s.id>> \in MergeSongClusters(batch)
      BY <2>4, <3>1 DEF MergeSongClusters, Written
    <3>. QED  BY <2>2, <3>2 DEF Written
  <2>5. \A s \in Planned : s \in run.songs \ batch \/ Written(s)'
    BY <2>1, <2>3, <2>4 DEF WrittenBut
  <2>6. PICK left : left = run.songs \ batch
    OBVIOUS
  <2>7. WrittenBut(left)'
    BY <1>1, <2>1, <2>5, <2>6, SamePlan DEF WrittenBut
  <2>8. CASE batch = run.songs /\ run.edges = {}
    <3>1. run' = Idle /\ mastered' = "yes"
      BY <1>3, <2>8 DEF Run_WriteSongs, Finished
    <3>2. left = {}
      BY <2>6, <2>8
    <3>3. RemixesWritten'
      BY <1>1, <2>1, <2>8, SamePlan DEF RemixesWritten
    <3>. QED  BY <2>7, <3>1, <3>2, <3>3 DEF UnderWay, Mastered
  <2>9. CASE ~(batch = run.songs /\ run.edges = {})
    <3>1. /\ mastered' = "under way" /\ run'.songs = left /\ run'.edges = run.edges
          /\ run'.pc = IF batch = run.songs THEN "edges" ELSE "songs"
      BY <1>3, <2>6, <2>9 DEF Run_WriteSongs, RunInv, Inv, TypeOK
    <3>2. run'.pc = "edges" => run'.songs = {}
      BY <2>6, <3>1
    <3>3. WrittenBut(run.songs)'
      BY <2>7, <3>1 DEF WrittenBut
    <3>. QED  BY <1>1, <2>1, <2>6, <3>1, <3>2, <3>3, SamePlan DEF UnderWay, Mastered
  <2>. QED  BY <2>8, <2>9
<1>. QED  BY <1>2, <1>3

(* A remix that is written again loses its stale edge, and no other.       *)
LEMMA RunWritesRemixes == RunInv /\ Run_WriteRemixes => UnderWay' /\ Mastered'
<1>. SUFFICES ASSUME RunInv, Run_WriteRemixes PROVE UnderWay' /\ Mastered'
  OBVIOUS
<1>1. /\ Same /\ versionOf' = versionOf /\ run.pc = "edges" /\ run' = Idle
      /\ remixOf' = MergeRemixOf(run.edges) /\ mastered' = Finished
  BY DEF Run_WriteRemixes, Same
<1>2. mastered # "yes"
  BY <1>1 DEF RunInv, Mastered, Idle
<1>3. CASE mastered # "under way"
  BY <1>1, <1>2, <1>3 DEF Finished, UnderWay, Mastered
<1>4. CASE mastered = "under way"
  <2>1. run.edges = RemixEdges(Groups) /\ WrittenBut({})
    BY <1>1, <1>4 DEF RunInv, UnderWay
  <2>2. mastered' = "yes"
    BY <1>1, <1>4 DEF Finished
  <2>3. WrittenBut({})'
    BY <1>1, <2>1, SamePlan DEF WrittenBut, Written
  <2>4. remixOf \subseteq Id \X Id /\ run.edges \subseteq Id \X Id
    BY DEF RunInv, Inv, TypeOK
  <2>5. ASSUME NEW e \in run.edges
        PROVE  {d \in MergeRemixOf(run.edges) : d[1] = e[1]} = {d \in run.edges : d[1] = e[1]}
    <3>1. ASSUME NEW d \in remixOf, d[1] = e[1], d[2] = e[2] PROVE d = e
      BY <2>4, <3>1
    <3>. QED  BY <3>1 DEF MergeRemixOf
  <2>6. RemixesWritten'
    BY <1>1, <2>1, <2>5, SamePlan DEF RemixesWritten
  <2>. QED  BY <1>1, <2>2, <2>3, <2>6 DEF UnderWay, Mastered
<1>. QED  BY <1>3, <1>4

LEMMA RunNext == RunInv /\ [Next]_vars => RunInv'
<1>. SUFFICES ASSUME RunInv, [Next]_vars PROVE RunInv'
  OBVIOUS
<1>1. Inv'
  BY InvNext DEF RunInv
<1>2. CASE UNCHANGED vars
  <2>1. Same /\ UNCHANGED <<versionOf, remixOf, run, mastered>>
    BY <1>2 DEF vars, Same
  <2>2. UnderWay'
    BY <2>1, SamePlan DEF RunInv, UnderWay, WrittenBut, Written
  <2>3. Mastered'
    BY <2>1, SamePlan DEF RunInv, Mastered, WrittenBut, Written, RemixesWritten
  <2>. QED  BY <1>1, <2>2, <2>3 DEF RunInv
<1>3. ASSUME mastered' = "no" PROVE RunInv'
  BY <1>1, <1>3 DEF RunInv, UnderWay, Mastered
<1>4. CASE Run_Dies
  BY <1>3, <1>4 DEF Run_Dies
<1>5. CASE Changes
  BY <1>3, <1>5 DEF Changes
<1>6. Run_Begin => RunInv'
  BY <1>1, RunBegins DEF RunInv
<1>7. ASSUME NEW batch \in SUBSET run.songs, Run_WriteSongs(batch) PROVE RunInv'
  BY <1>1, <1>7, RunWritesSongs DEF RunInv
<1>8. Run_WriteRemixes => RunInv'
  BY <1>1, RunWritesRemixes DEF RunInv
<1>. QED  BY <1>2, <1>4, <1>5, <1>6, <1>7, <1>8 DEF Next, InsertTrack, EditOverrides

LEMMA RunInit == Init => RunInv
BY InvInit DEF Init, RunInv, UnderWay, Mastered

LEMMA RunsCorrect == Spec => []RunInv
BY RunInit, RunNext, PTL DEF Spec

(* After a run that finished and whose input did not change since, a remix *)
(* whose parents are in the library points at these and at no other song,  *)
(* whatever the runs before it wrote, died before writing, or decided from *)
(* other overrides.                                                        *)
THEOREM RemixesFollowTheirParents == Spec => []RemixesRepointed
<1>1. RunInv => RemixesRepointed
  BY DEF RunInv, Mastered, RemixesWritten, RemixesRepointed
<1>. QED  BY <1>1, RunsCorrect, PTL

(* Every track of the graph is in a group.                                 *)
LEMMA GroupsCover ==
  ASSUME NEW t \in Known
  PROVE  \E g \in Groups : t \in g.tracks
<1>1. CASE t \in TornOut
  <2>1. PICK n \in DOMAIN overrides.splits : t \in TornOutBy(n)
    BY <1>1 DEF TornOut
  <2>. DEFINE g == [tracks |-> TornOutBy(n), split |-> TRUE]
  <2>2. g \in Groups
    BY <2>1 DEF Groups
  <2>. QED  BY <2>1, <2>2
<1>2. CASE t \notin TornOut
  <2>. DEFINE c == {u \in Known : Find(Forest, u) = Find(Forest, t)}
              g == [tracks |-> c \ TornOut, split |-> FALSE]
  <2>1. c \in Clusters
    BY DEF Clusters
  <2>2. t \in g.tracks
    BY <1>2
  <2>. HIDE DEF c
  <2>3. g \in Groups
    BY <2>1, <2>2 DEF Groups
  <2>. QED  BY <2>2, <2>3
<1>. QED  BY <1>1, <1>2

OnOneSong(t, u) == \E s \in {e[2] : e \in versionOf} : {<<t, s>>, <<u, s>>} \subseteq versionOf

InOneGroup(t, u) == \E g \in Groups : t \in g.tracks /\ u \in g.tracks

(* Such a run has put two tracks on one Song exactly if its groups do.     *)
LEMMA SongsAreGroups ==
  ASSUME RunInv, mastered = "yes", NEW t \in Known, NEW u \in Known
  PROVE  OnOneSong(t, u) <=> InOneGroup(t, u)
<1>1. \A g \in Groups : \A v \in g.tracks : <<v, SongId(g, Groups)>> \in versionOf
  <2>1. \A s \in Planned : \A v \in s.tracks : <<v, s.id>> \in versionOf
    BY DEF RunInv, Mastered, WrittenBut, Written
  <2>. SUFFICES ASSUME NEW g \in Groups, NEW v \in g.tracks
                PROVE  <<v, SongId(g, Groups)>> \in versionOf
    OBVIOUS
  <2>2. PICK s : s = [id |-> SongId(g, Groups), tracks |-> g.tracks]
    OBVIOUS
  <2>3. s \in Planned
    BY <2>2 DEF Planned
  <2>. QED  BY <2>1, <2>2, <2>3
<1>2. IdsDistinctIn(Groups) /\ OneSongPerTrack
  BY DEF RunInv, Inv, Mastered, WrittenBut
<1>3. ASSUME OnOneSong(t, u) PROVE InOneGroup(t, u)
  <2>1. PICK s : <<t, s>> \in versionOf /\ <<u, s>> \in versionOf
    BY <1>3 DEF OnOneSong
  <2>2. PICK g \in Groups, h \in Groups : t \in g.tracks /\ u \in h.tracks
    BY GroupsCover
  <2>3. SongId(g, Groups) = s /\ SongId(h, Groups) = s
    <3>1. <<t, SongId(g, Groups)>> \in versionOf /\ <<u, SongId(h, Groups)>> \in versionOf
      BY <1>1, <2>2
    <3>2. \A d, e \in versionOf : d[1] = e[1] => d[2] = e[2]
      BY <1>2 DEF OneSongPerTrack
    <3>. QED  BY <2>1, <3>1, <3>2
  <2>4. g = h
    BY <1>2, <2>3 DEF IdsDistinctIn
  <2>. QED  BY <2>2, <2>4 DEF InOneGroup
<1>4. ASSUME InOneGroup(t, u) PROVE OnOneSong(t, u)
  <2>1. PICK g \in Groups : t \in g.tracks /\ u \in g.tracks
    BY <1>4 DEF InOneGroup
  <2>2. PICK s : s = SongId(g, Groups)
    OBVIOUS
  <2>3. <<t, s>> \in versionOf /\ <<u, s>> \in versionOf
    BY <1>1, <2>1, <2>2
  <2>4. s \in {e[2] : e \in versionOf}
    BY <2>3
  <2>. QED  BY <2>3, <2>4 DEF OnOneSong
<1>. QED  BY <1>3, <1>4

Ordered(U, R) ==
  /\ \A x, y, z \in U : <<x, y>> \in R /\ <<y, z>> \in R => <<x, z>> \in R
  /\ \A x, y \in U : x = y \/ <<x, y>> \in R \/ <<y, x>> \in R

(* A finite set has a first member in every order.                         *)
LEMMA FirstMember ==
  ASSUME NEW U, IsFiniteSet(U), NEW R, Ordered(U, R), NEW T \in SUBSET U, T # {}
  PROVE  \E x \in T : \A y \in T : y = x \/ <<x, y>> \in R
<1>. DEFINE HasFirst(V) == \E x \in V : \A y \in V : y = x \/ <<x, y>> \in R
            B == {V \in SUBSET U : V = {} \/ HasFirst(V)}
<1>1. ASSUME NEW V \in B, NEW z \in U PROVE V \cup {z} \in B
  <2>1. CASE V = {}
    <3>1. HasFirst({z})
      OBVIOUS
    <3>. HIDE DEF HasFirst
    <3>. QED  BY <2>1, <3>1
  <2>2. CASE V # {}
    <3>1. PICK x \in V : \A y \in V : y = x \/ <<x, y>> \in R
      BY <2>2
    <3>2. x \in U /\ V \subseteq U
      OBVIOUS
    <3>3. CASE <<z, x>> \in R
      <4>1. \A y \in V \cup {z} : y = z \/ <<z, y>> \in R
        BY <3>1, <3>2, <3>3 DEF Ordered
      <4>2. HasFirst(V \cup {z})
        BY <4>1
      <4>. HIDE DEF HasFirst
      <4>. QED  BY <3>2, <4>2
    <3>4. CASE <<z, x>> \notin R
      <4>1. z = x \/ <<x, z>> \in R
        BY <3>2, <3>4 DEF Ordered
      <4>2. \A y \in V \cup {z} : y = x \/ <<x, y>> \in R
        BY <3>1, <4>1
      <4>3. HasFirst(V \cup {z})
        BY <4>2
      <4>. HIDE DEF HasFirst
      <4>. QED  BY <3>2, <4>3
    <3>. QED  BY <3>3, <3>4
  <2>. QED  BY <2>1, <2>2
<1>2. {} \in B /\ B \in SUBSET SUBSET U
  OBVIOUS
<1>3. T \in B
  <2>. HIDE DEF B
  <2>1. B = SUBSET U
    BY <1>1, <1>2, AllSubsets
  <2>. QED  BY <2>1
<1>. QED  BY <1>3

LEMMA DurationOrder ==
  ASSUME TypeOK
  PROVE  /\ \A x, y, z \in Known : ShorterThan(x, y) /\ ShorterThan(y, z) => ShorterThan(x, z)
         /\ \A x, y \in Known : x = y \/ ShorterThan(x, y) \/ ShorterThan(y, x)
         /\ \A x, y \in Known : ~ (ShorterThan(x, y) /\ (x = y \/ ShorterThan(y, x)))
<1>1. \A x \in Known : x \in Nat /\ track[x].ms \in Nat
  <2>1. \A x \in Known : track[x] \in Record
    BY KnownRecords
  <2>. QED  BY <2>1, KnownFinite DEF Record
<1>. QED  BY <1>1 DEF ShorterThan

(* From one duration to a longer within the tolerance there is a chain of  *)
(* neighbours within the tolerance.                                        *)
LEMMA NeighboursLead ==
  ASSUME TypeOK, NEW block \in SUBSET Known, NEW a \in block, NEW b \in block,
         ShorterThan(a, b), Close(a, b), NEW S,
         \A p \in Neighbours(block) : p[1] \in S => p[2] \in S, a \in S
  PROVE  b \in S
<1>1. SUFFICES ASSUME b \notin S PROVE FALSE
  OBVIOUS
<1>. DEFINE Between == {u \in block : (u = a \/ ShorterThan(a, u)) /\ (u = b \/ ShorterThan(u, b))}
            Up == {p \in Known \X Known : ShorterThan(p[1], p[2])}
            Down == {p \in Known \X Known : ShorterThan(p[2], p[1])}
<1>2. /\ \A x, y \in Known : (<<x, y>> \in Up <=> ShorterThan(x, y))
                             /\ (<<x, y>> \in Down <=> ShorterThan(y, x))
  OBVIOUS
<1>. HIDE DEF Up, Down
<1>3. a \in Between /\ b \in Between /\ Between \in SUBSET Known
  OBVIOUS
<1>4. PICK x \in Between \cap S : \A y \in Between \cap S : y = x \/ ShorterThan(y, x)
  <2>. DEFINE T == Between \cap S
  <2>1. T \in SUBSET Known /\ T # {}
    BY <1>3
  <2>2. Ordered(Known, Down)
    BY <1>2, DurationOrder DEF Ordered
  <2>3. \E v \in T : \A y \in T : y = v \/ <<v, y>> \in Down
    <3>1. \A V \in SUBSET Known : V # {} =>
             \E v \in V : \A z \in V : z = v \/ <<v, z>> \in Down
      <4>1. IsFiniteSet(Known)
        BY KnownFinite
      <4>. QED  BY <2>2, <4>1, FirstMember
    <3>. HIDE DEF T
    <3>. QED  BY <2>1, <3>1
  <2>4. T \subseteq Known
    BY <2>1
  <2>. QED  BY <1>2, <2>3, <2>4
<1>5. x \in Known /\ x # b /\ ShorterThan(x, b)
  BY <1>1, <1>3, <1>4
<1>6. PICK y \in {u \in Between : ShorterThan(x, u)} :
        \A u \in Between : ShorterThan(x, u) => u = y \/ ShorterThan(y, u)
  <2>. DEFINE T == {u \in Between : ShorterThan(x, u)}
  <2>1. T \in SUBSET Known /\ T # {}
    BY <1>3, <1>5
  <2>2. Ordered(Known, Up)
    BY <1>2, DurationOrder DEF Ordered
  <2>3. \E v \in T : \A u \in T : u = v \/ <<v, u>> \in Up
    <3>1. \A V \in SUBSET Known : V # {} =>
             \E v \in V : \A z \in V : z = v \/ <<v, z>> \in Up
      <4>1. IsFiniteSet(Known)
        BY KnownFinite
      <4>. QED  BY <2>2, <4>1, FirstMember
    <3>. HIDE DEF T
    <3>. QED  BY <2>1, <3>1
  <2>4. T \subseteq Known
    BY <2>1
  <2>. QED  BY <1>2, <2>3, <2>4
<1>7. y \in Known /\ ShorterThan(x, y)
  BY <1>3, <1>6
<1>8. y \notin S
  BY <1>4, <1>6, <1>7, <1>5, DurationOrder
<1>9. ~\E t \in block : ShorterThan(x, t) /\ ShorterThan(t, y)
  <2>. SUFFICES ASSUME NEW t \in block, ShorterThan(x, t), ShorterThan(t, y) PROVE FALSE
    OBVIOUS
  <2>1. t \in Known /\ a \in Known /\ b \in Known
    OBVIOUS
  <2>2. (x = a \/ ShorterThan(a, x)) /\ (y = b \/ ShorterThan(y, b))
    BY <1>4, <1>6
  <2>3. ShorterThan(a, t) /\ ShorterThan(t, b)
    BY <1>5, <1>7, <2>1, <2>2, DurationOrder
  <2>4. t \in Between
    BY <2>3
  <2>5. t = y \/ ShorterThan(y, t)
    BY <1>6, <2>4
  <2>. QED  BY <1>7, <2>1, <2>5, DurationOrder
<1>10. Close(x, y)
  <2>1. (x = a \/ ShorterThan(a, x)) /\ (y = b \/ ShorterThan(y, b))
    BY <1>4, <1>6
  <2>2. \A u \in {a, b, x, y} : track[u].ms \in Nat
    <3>1. \A u \in {a, b, x, y} : track[u] \in Record
      <4>1. {a, b, x, y} \subseteq Known
        BY <1>5, <1>7
      <4>. QED  BY <4>1, KnownRecords
    <3>. QED  BY <3>1 DEF Record
  <2>3. track[a].ms <= track[x].ms /\ track[x].ms <= track[y].ms /\ track[y].ms <= track[b].ms
    BY <1>7, <2>1, <2>2 DEF ShorterThan
  <2>4. Tolerance \in Nat
    BY MasteringAssumption
  <2>5. track[a].ms # 0 /\ track[b].ms - track[a].ms <= Tolerance
    BY <2>2, <2>4 DEF Close, Unknown
  <2>. QED  BY <2>2, <2>3, <2>4, <2>5 DEF Close, Unknown
<1>11. <<x, y>> \in Neighbours(block)
  <2>1. x \in block /\ y \in block
    BY <1>4, <1>6
  <2>. QED  BY <1>7, <1>9, <1>10, <2>1 DEF Neighbours
<1>12. <<x, y>>[1] \in S => <<x, y>>[2] \in S
  BY <1>11
<1>. QED  BY <1>4, <1>8, <1>12

ClosedUnder(pairs, S) == \A p \in pairs : p[1] \in S <=> p[2] \in S

LEMMA ComplementClosed ==
  ASSUME NEW S \in SUBSET Known, NEW pairs \in SUBSET (Known \X Known), ClosedUnder(pairs, S)
  PROVE  ClosedUnder(pairs, Known \ S)
BY DEF ClosedUnder

LEMMA CloseBoth ==
  ASSUME TypeOK, NEW a \in Known, NEW b \in Known
  PROVE  Close(a, b) <=> Close(b, a)
<1>1. track[a].ms \in Nat /\ track[b].ms \in Nat /\ Tolerance \in Nat
  <2>1. track[a] \in Record /\ track[b] \in Record
    BY KnownRecords
  <2>. QED  BY <2>1, MasteringAssumption DEF Record
<1>. QED  BY <1>1 DEF Close

(* What shares title and artist and is close in duration ends up together. *)
LEMMA HeuristicJoins ==
  ASSUME TypeOK, NEW S \in SUBSET Known, ClosedUnder(HeuristicUnions, S),
         NEW a \in Known, NEW b \in Known, SameTitle(a, b), Close(a, b), ShorterThan(a, b)
  PROVE  a \in S <=> b \in S
<1>. DEFINE block == {u \in Known : SameTitle(a, u)}
<1>1. a \in block /\ b \in block /\ block \in SUBSET Known
  BY DEF SameTitle
<1>2. Neighbours(block) \subseteq HeuristicUnions
  BY DEF HeuristicUnions
<1>. HIDE DEF block
<1>3. Neighbours(block) \subseteq Known \X Known
  BY <1>1 DEF Neighbours
<1>4. \A T \in SUBSET Known : ClosedUnder(Neighbours(block), T) /\ a \in T => b \in T
  BY <1>1, NeighboursLead DEF ClosedUnder
<1>5. ClosedUnder(Neighbours(block), S)
  BY <1>2 DEF ClosedUnder
<1>6. ClosedUnder(Neighbours(block), Known \ S)
  BY <1>3, <1>5, ComplementClosed
<1>7. a \in S => b \in S
  BY <1>4, <1>5
<1>8. a \in Known \ S => b \in Known \ S
  <2>1. Known \ S \in SUBSET Known
    OBVIOUS
  <2>. QED  BY <1>4, <1>6, <2>1
<1>. QED  BY <1>7, <1>8

LEMMA EvidenceBoth ==
  ASSUME TypeOK, NEW a \in Known, NEW b \in Known, Evidence(a, b)
  PROVE  Evidence(b, a)
<1>1. SameTitle(a, b) /\ Close(a, b) => SameTitle(b, a) /\ Close(b, a)
  BY CloseBoth DEF SameTitle
<1>2. \A group : {a, b} \subseteq group <=> {b, a} \subseteq group
  OBVIOUS
<1>. QED  BY <1>1, <1>2 DEF Evidence

(* A set that no union leaves is one that no evidence leaves.              *)
LEMMA UnionsCarryEvidence ==
  ASSUME TypeOK, NEW S \in SUBSET Known, ClosedUnder(AllUnions, S),
         NEW a \in Known, NEW b \in Known, Evidence(a, b)
  PROVE  a \in S <=> b \in S
<1>1. CASE track[a].isrc = track[b].isrc /\ track[a].isrc # NoIsrc
  <2>. DEFINE i == track[a].isrc
              group == {x \in Known : track[x].isrc = i}
  <2>1. i \in Isrcs
    <3>1. track[a] \in Record
      BY KnownRecords
    <3>. QED  BY <1>1, <3>1 DEF Record
  <2>2. Spokes(group) \subseteq AllUnions
    BY <2>1 DEF AllUnions, IsrcUnions
  <2>3. \A p \in Spokes(group) : p[1] \in S <=> p[2] \in S
    BY <2>2 DEF ClosedUnder
  <2>4. group \in SUBSET Known /\ a \in group /\ b \in group
    BY <1>1
  <2>. HIDE DEF group
  <2>. QED  BY <2>3, <2>4, SpokesJoin
<1>2. ASSUME NEW c \in Known, NEW d \in Known, track[c].linked = d PROVE c \in S <=> d \in S
  <2>1. <<c, d>> \in AllUnions
    BY <1>2 DEF AllUnions, LinkedFromUnions
  <2>2. <<c, d>>[1] \in S <=> <<c, d>>[2] \in S
    BY <2>1 DEF ClosedUnder
  <2>. QED  BY <2>2
<1>3. CASE SameTitle(a, b) /\ Close(a, b)
  <2>1. ClosedUnder(HeuristicUnions, S)
    BY DEF ClosedUnder, AllUnions
  <2>2. a = b \/ ShorterThan(a, b) \/ ShorterThan(b, a)
    BY DurationOrder
  <2>3. SameTitle(b, a) /\ Close(b, a)
    BY <1>3, CloseBoth DEF SameTitle
  <2>. QED  BY <1>3, <2>1, <2>2, <2>3, HeuristicJoins
<1>4. ASSUME NEW merge \in overrides.merges, {a, b} \subseteq merge PROVE a \in S <=> b \in S
  <2>. DEFINE group == merge \cap Known
  <2>1. Spokes(group) \subseteq AllUnions
    BY DEF AllUnions, OverrideUnions
  <2>2. \A p \in Spokes(group) : p[1] \in S <=> p[2] \in S
    BY <2>1 DEF ClosedUnder
  <2>3. group \in SUBSET Known /\ a \in group /\ b \in group
    BY <1>4
  <2>. HIDE DEF group
  <2>. QED  BY <2>2, <2>3, SpokesJoin
<1>. QED  BY <1>1, <1>2, <1>3, <1>4 DEF Evidence

(* And each union has its evidence.                                        *)
LEMMA UnionsHaveEvidence ==
  ASSUME TypeOK, NEW a, NEW b, <<a, b>> \in AllUnions
  PROVE  a \in Known /\ b \in Known /\ Evidence(a, b)
<1>1. a \in Known /\ b \in Known
  BY UnionsKnown
<1>2. CASE <<a, b>> \in IsrcUnions
  <2>1. PICK i \in Isrcs : <<a, b>> \in Spokes({t \in Known : track[t].isrc = i})
    BY <1>2 DEF IsrcUnions
  <2>2. track[a].isrc = i /\ track[b].isrc = i
    BY <2>1 DEF Spokes
  <2>3. i # NoIsrc
    BY MasteringAssumption
  <2>. QED  BY <1>1, <2>2, <2>3 DEF Evidence
<1>3. CASE <<a, b>> \in LinkedFromUnions
  BY <1>1, <1>3 DEF LinkedFromUnions, Evidence
<1>4. CASE <<a, b>> \in HeuristicUnions
  <2>1. PICK t \in Known : <<a, b>> \in Neighbours({u \in Known : SameTitle(t, u)})
    BY <1>4 DEF HeuristicUnions
  <2>2. SameTitle(t, a) /\ SameTitle(t, b) /\ Close(a, b)
    BY <2>1 DEF Neighbours
  <2>3. SameTitle(a, b)
    BY <2>2 DEF SameTitle
  <2>. QED  BY <1>1, <2>2, <2>3 DEF Evidence
<1>5. CASE <<a, b>> \in OverrideUnions
  <2>1. PICK merge \in overrides.merges : <<a, b>> \in Spokes(merge \cap Known)
    BY <1>5 DEF OverrideUnions
  <2>2. {a, b} \subseteq merge
    BY <2>1 DEF Spokes
  <2>. QED  BY <1>1, <2>2 DEF Evidence
<1>. QED  BY <1>2, <1>3, <1>4, <1>5 DEF AllUnions

(* So the classes of the union-find are what the evidence connects.        *)
LEMMA ClassesByEvidence ==
  ASSUME TypeOK, NEW t \in Known, NEW u \in Known
  PROVE  Find(Forest, t) = Find(Forest, u) <=> Connected(Links, t, u)
<1>1. \A S \in SUBSET Known :
        ClosedUnder(AllUnions, S) => \A p \in Links : p[1] \in S => p[2] \in S
  BY UnionsCarryEvidence DEF Links
<1>2. ASSUME NEW S \in SUBSET Known, \A p \in Links : p[1] \in S => p[2] \in S
      PROVE  ClosedUnder(AllUnions, S)
  <2>. SUFFICES ASSUME NEW p \in AllUnions PROVE p[1] \in S <=> p[2] \in S
    BY DEF ClosedUnder
  <2>1. p = <<p[1], p[2]>>
    BY UnionsKnown
  <2>2. p[1] \in Known /\ p[2] \in Known /\ Evidence(p[1], p[2])
    BY <2>1, UnionsHaveEvidence
  <2>3. Evidence(p[2], p[1])
    BY <2>2, EvidenceBoth
  <2>4. <<p[1], p[2]>> \in Links /\ <<p[2], p[1]>> \in Links
    BY <2>2, <2>3 DEF Links
  <2>5. /\ <<p[1], p[2]>>[1] \in S => <<p[1], p[2]>>[2] \in S
        /\ <<p[2], p[1]>>[1] \in S => <<p[2], p[1]>>[2] \in S
    BY <1>2, <2>4
  <2>. QED  BY <2>5
<1>3. ASSUME Joined(Known, AllUnions, t, u) PROVE Connected(Links, t, u)
  BY <1>2, <1>3 DEF Joined, Connected, ClosedUnder
<1>4. ASSUME Connected(Links, t, u) PROVE Joined(Known, AllUnions, t, u)
  <2>. SUFFICES ASSUME NEW S \in SUBSET Known, ClosedUnder(AllUnions, S) PROVE t \in S <=> u \in S
    BY DEF Joined, ClosedUnder
  <2>1. \A T \in SUBSET Known : ClosedUnder(AllUnions, T) /\ t \in T => u \in T
    BY <1>1, <1>4 DEF Connected
  <2>2. ClosedUnder(AllUnions, Known \ S) /\ Known \ S \in SUBSET Known
    BY UnionsKnown, ComplementClosed
  <2>3. t \in Known \ S => u \in Known \ S
    BY <2>1, <2>2
  <2>. QED  BY <2>1, <2>3
<1>. QED  BY <1>3, <1>4, OneClass

LEMMA TornOutByLastSplit ==
  \A t \in Known : \A n \in DOMAIN overrides.splits : t \in TornOutBy(n) <=> n \in LastSplit(t)
BY DEF TornOutBy, LastSplit

LEMMA OneLastSplit ==
  ASSUME TypeOK, NEW t, NEW m \in LastSplit(t), NEW n \in LastSplit(t)
  PROVE  m = n
<1>1. DOMAIN overrides.splits \subseteq Nat
  <2>1. overrides.splits \in Seq(SUBSET Tracks)
    BY DEF TypeOK, Overrides
  <2>. QED  BY <2>1, LenProperties
<1>2. m \in Nat /\ n \in Nat /\ ~ (m > n) /\ ~ (n > m)
  BY <1>1 DEF LastSplit
<1>. QED  BY <1>2

(* The groups are what the evidence connects and no split parts.           *)
LEMMA GroupsByEvidence ==
  ASSUME TypeOK, NEW t \in Known, NEW u \in Known
  PROVE  SameSong(Links, t, u) <=> InOneGroup(t, u)
<1>. DEFINE Class(v) == {w \in Known : Find(Forest, w) = Find(Forest, v)}
            N == DOMAIN overrides.splits
<1>1. TornOut \cap {t, u} = {v \in {t, u} : LastSplit(v) # {}}
  <2>1. \A v \in Known : v \in TornOut <=> LastSplit(v) # {}
    <3>1. \A v : LastSplit(v) \subseteq N
      BY DEF LastSplit
    <3>. QED  BY <3>1, TornOutByLastSplit DEF TornOut
  <2>. QED  BY <2>1
<1>2. ASSUME SameSong(Links, t, u), LastSplit(t) # {} PROVE InOneGroup(t, u)
  <2>1. PICK n : n \in LastSplit(t)
    BY <1>2
  <2>2. n \in N /\ n \in LastSplit(u)
    BY <1>2, <2>1 DEF LastSplit, SameSong
  <2>. DEFINE g == [tracks |-> TornOutBy(n), split |-> TRUE]
  <2>3. t \in g.tracks /\ u \in g.tracks
    BY <2>1, <2>2, TornOutByLastSplit
  <2>4. g \in Groups
    BY <2>2, <2>3 DEF Groups
  <2>. QED  BY <2>3, <2>4 DEF InOneGroup
<1>3. ASSUME SameSong(Links, t, u), LastSplit(t) = {} PROVE InOneGroup(t, u)
  <2>1. Connected(Links, t, u) /\ LastSplit(u) = {}
    BY <1>3 DEF SameSong
  <2>2. t \notin TornOut /\ u \notin TornOut
    BY <1>1, <1>3, <2>1
  <2>3. t \in Class(t) /\ u \in Class(t)
    BY <2>1, ClassesByEvidence
  <2>4. Class(t) \in Clusters
    BY DEF Clusters
  <2>. HIDE DEF Class
  <2>. DEFINE g == [tracks |-> Class(t) \ TornOut, split |-> FALSE]
  <2>5. t \in g.tracks /\ u \in g.tracks
    BY <2>2, <2>3
  <2>6. g \in Groups
    BY <2>4, <2>5 DEF Groups
  <2>. QED  BY <2>5, <2>6 DEF InOneGroup
<1>4. ASSUME NEW g \in Groups, t \in g.tracks, u \in g.tracks PROVE SameSong(Links, t, u)
  <2>1. CASE \E n \in N : g = [tracks |-> TornOutBy(n), split |-> TRUE]
    <3>1. PICK n \in N : t \in TornOutBy(n) /\ u \in TornOutBy(n)
      BY <1>4, <2>1
    <3>2. n \in LastSplit(t) /\ n \in LastSplit(u)
      BY <3>1, TornOutByLastSplit
    <3>3. LastSplit(t) = {n} /\ LastSplit(u) = {n}
      BY <3>2, OneLastSplit
    <3>. QED  BY <3>3 DEF SameSong
  <2>2. CASE \E c \in Clusters : g = [tracks |-> c \ TornOut, split |-> FALSE]
    <3>1. PICK c \in Clusters : t \in c \ TornOut /\ u \in c \ TornOut
      BY <1>4, <2>2
    <3>2. LastSplit(t) = {} /\ LastSplit(u) = {}
      BY <1>1, <3>1
    <3>3. Find(Forest, t) = Find(Forest, u)
      BY <3>1 DEF Clusters
    <3>4. Connected(Links, t, u)
      BY <3>3, ClassesByEvidence
    <3>. QED  BY <3>2, <3>4 DEF SameSong
  <2>. QED  BY <2>1, <2>2 DEF Groups
<1>. QED  BY <1>2, <1>3, <1>4 DEF InOneGroup

(* After a run that finished with its input unchanged two tracks are on    *)
(* one Song exactly if the evidence connects them and no split parts them: *)
(* whatever the library, the overrides and the batches, and whatever runs  *)
(* that died and runs over earlier input have left in the graph.           *)
THEOREM SongsFollowEvidence == Spec => []MasteredByEvidence
<1>1. ASSUME RunInv PROVE MasteredByEvidence
  <2>. SUFFICES ASSUME mastered = "yes", NEW t \in Known, NEW u \in Known
                PROVE  SameSong(Links, t, u) <=> OnOneSong(t, u)
    BY DEF MasteredByEvidence, OnOneSong
  <2>1. TypeOK
    BY <1>1 DEF RunInv, Inv
  <2>2. SameSong(Links, t, u) <=> InOneGroup(t, u)
    BY <2>1, GroupsByEvidence
  <2>. QED  BY <1>1, <2>2, SongsAreGroups
<1>. QED  BY <1>1, RunsCorrect, PTL

-----------------------------------------------------------------------------
(* Normalizing keeps the remixers, unless the title swallows one: the marks *)
(* that stay and the one credit that is remembered are all of its remixes. *)

Title == [name : Names \cup {NoName}, marks : Seq(Mark)]

Credits(marks) == {m \in ToSet(marks) : m.kind = "remix"}

LEMMA LeastOf ==
  ASSUME NEW S \in SUBSET Nat, S # {}
  PROVE  Min(S) \in S /\ \A x \in S : Min(S) <= x
<1>1. \E x \in S : \A y \in S : x <= y
  BY LeastNatural
<1>. QED  BY <1>1 DEF Min

LEMMA StuckIs ==
  ASSUME NEW marks, NEW credited, NEW remembered, NEW m \in Nat,
         \A i, j \in remembered : i = j, NEW n, n = Stuck(marks, credited, remembered, m)
  PROVE  /\ n \in 0..m /\ ComesOff(marks, credited, remembered, n, m)
         /\ \A k \in 0..m : ComesOff(marks, credited, remembered, k, m) => n <= k
<1>. DEFINE T == {k \in 0..m : ComesOff(marks, credited, remembered, k, m)}
<1>1. ComesOff(marks, credited, remembered, m, m)
  <2>1. (m + 1)..m = {}
    OBVIOUS
  <2>. QED  BY <2>1 DEF ComesOff, Remixes
<1>2. T \in SUBSET Nat /\ T # {}
  BY <1>1
<1>3. PICK l \in T : \A k \in T : l <= k
  <2>. HIDE DEF T
  <2>. QED  BY <1>2, LeastNatural
<1>4. \E j \in 0..m : /\ ComesOff(marks, credited, remembered, j, m)
                      /\ \A k \in 0..m : ComesOff(marks, credited, remembered, k, m) => j <= k
  BY <1>3
<1>. HIDE DEF T
<1>. QED  BY <1>4 DEF Stuck

LEMMA BeforeLiveAtIs ==
  ASSUME NEW all \in Seq(Mark), NEW marks, marks = BeforeLiveAt(all)
  PROVE  /\ marks \in Seq(Mark) /\ Len(marks) \in 0..Len(all)
         /\ \A i \in 1..Len(marks) : marks[i] = all[i] /\ marks[i].kind # "live_at"
         /\ Len(marks) < Len(all) => all[Len(marks) + 1].kind = "live_at"
<1>. DEFINE live == {i \in DOMAIN all : all[i].kind = "live_at"}
<1>1. Len(all) \in Nat /\ DOMAIN all = 1..Len(all)
  BY LenProperties
<1>2. CASE live = {}
  <2>1. BeforeLiveAt(all) = all
    BY <1>2 DEF BeforeLiveAt
  <2>. QED  BY <1>1, <1>2, <2>1
<1>3. CASE live # {}
  <2>. DEFINE f == Min(live)
  <2>1. f \in live /\ \A x \in live : f <= x
    <3>1. live \in SUBSET Nat
      BY <1>1
    <3>. HIDE DEF live
    <3>. QED  BY <1>3, <3>1, LeastOf
  <2>2. BeforeLiveAt(all) = SubSeq(all, 1, f - 1)
    BY <1>3 DEF BeforeLiveAt
  <2>. HIDE DEF f
  <2>3. f \in 1..Len(all) /\ all[f].kind = "live_at"
    BY <1>1, <2>1
  <2>4. /\ SubSeq(all, 1, f - 1) \in Seq(Mark) /\ Len(SubSeq(all, 1, f - 1)) = f - 1
        /\ \A i \in 1..(f - 1) : SubSeq(all, 1, f - 1)[i] = all[i]
    BY <1>1, <2>3, SubSeqProperties
  <2>5. \A i \in 1..(f - 1) : all[i].kind # "live_at"
    BY <1>1, <2>1, <2>3
  <2>. QED  BY <1>1, <2>2, <2>3, <2>4, <2>5
<1>. QED  BY <1>2, <1>3

LEMMA CutFeatIs ==
  ASSUME NEW marks, NEW credited, NEW k \in Nat, NEW cut, cut = CutFeat(marks, credited, k)
  PROVE  cut = k \/ (cut \in 0..k /\ cut < k /\ marks[cut + 1].kind = "open_feat")
<1>. DEFINE open == {i \in 1..k : marks[i].kind = "open_feat"}
<1>1. CASE CutFeat(marks, credited, k) = Min(open) - 1 /\ open # {}
  <2>1. Min(open) \in open
    BY <1>1, LeastOf
  <2>. QED  BY <1>1, <2>1
<1>. QED  BY <1>1 DEF CutFeat

(* A set with at most one member, as a sequence.                           *)
LEMMA SmallSetToSeq ==
  ASSUME NEW S, NEW T \in SUBSET S, \A x, y \in T : x = y
  PROVE  SetToSeq(T) \in Seq(S) /\ ToSet(SetToSeq(T)) = T
<1>. DEFINE F == {f \in [1..Cardinality(T) -> T] : IsInjective(f)}
<1>1. \E f \in [1..Cardinality(T) -> T] : IsInjective(f)
  <2>1. CASE T = {}
    <3>1. 1..Cardinality(T) = {}
      BY <2>1, FS_EmptySet
    <3>2. [k \in {} |-> k] \in [1..Cardinality(T) -> T] /\ IsInjective([k \in {} |-> k])
      BY <3>1 DEF IsInjective
    <3>. QED  BY <3>2
  <2>2. CASE T # {}
    <3>1. PICK x : T = {x}
      BY <2>2
    <3>2. 1..Cardinality(T) = {1}
      BY <3>1, FS_Singleton
    <3>3. [k \in {1} |-> x] \in [1..Cardinality(T) -> T] /\ IsInjective([k \in {1} |-> x])
      BY <3>1, <3>2 DEF IsInjective
    <3>. QED  BY <3>3
  <2>. QED  BY <2>1, <2>2
<1>2. SetToSeq(T) \in [1..Cardinality(T) -> T]
  BY <1>1 DEF SetToSeq
<1>3. Cardinality(T) \in Nat /\ (T # {} => 1 \in 1..Cardinality(T)) /\ (T = {} => 1..Cardinality(T) = {})
  <2>1. CASE T = {}
    BY <2>1, FS_EmptySet
  <2>2. CASE T # {}
    <3>1. PICK x : T = {x}
      BY <2>2
    <3>. QED  BY <3>1, FS_Singleton
  <2>. QED  BY <2>1, <2>2
<1>. DEFINE f == SetToSeq(T)
<1>. HIDE DEF f
<1>4. f \in Seq(S)
  BY <1>2, <1>3, IsASeq DEF f
<1>5. {f[k] : k \in DOMAIN f} = T
  BY <1>2, <1>3 DEF f
<1>. QED  BY <1>4, <1>5 DEF f, ToSet

LEMMA ToSetOfConcat ==
  ASSUME NEW a \in Seq(Mark), NEW b \in Seq(Mark)
  PROVE  ToSet(a \o b) = ToSet(a) \cup ToSet(b)
<1>1. /\ Len(a) \in Nat /\ Len(b) \in Nat /\ DOMAIN a = 1..Len(a) /\ DOMAIN b = 1..Len(b)
      /\ DOMAIN (a \o b) = 1..(Len(a) + Len(b))
      /\ \A i \in 1..(Len(a) + Len(b)) :
           (a \o b)[i] = IF i <= Len(a) THEN a[i] ELSE b[i - Len(a)]
  <2>1. /\ a \o b \in Seq(Mark) /\ Len(a \o b) = Len(a) + Len(b)
        /\ \A i \in 1..(Len(a) + Len(b)) :
             (a \o b)[i] = IF i <= Len(a) THEN a[i] ELSE b[i - Len(a)]
    BY ConcatProperties
  <2>. QED  BY <2>1, LenProperties
<1>2. ASSUME NEW i \in DOMAIN a PROVE (a \o b)[i] = a[i] /\ i \in DOMAIN (a \o b)
  BY <1>1
<1>3. ASSUME NEW j \in DOMAIN b
      PROVE  (a \o b)[Len(a) + j] = b[j] /\ Len(a) + j \in DOMAIN (a \o b)
  BY <1>1
<1>4. ASSUME NEW i \in DOMAIN (a \o b)
      PROVE  \/ i \in DOMAIN a /\ (a \o b)[i] = a[i]
             \/ i - Len(a) \in DOMAIN b /\ (a \o b)[i] = b[i - Len(a)]
  BY <1>1
<1>5. ASSUME NEW x, x \in ToSet(a) \cup ToSet(b) PROVE x \in ToSet(a \o b)
  BY <1>2, <1>3, <1>5 DEF ToSet
<1>6. ASSUME NEW x, x \in ToSet(a \o b) PROVE x \in ToSet(a) \cup ToSet(b)
  BY <1>4, <1>6 DEF ToSet
<1>. QED  BY <1>5, <1>6

(* What Normalize computes on its way.                                     *)
Peeled(all, credited, marks, len, k, outer, cut, n, off) ==
  /\ ~Swallows(all) /\ marks = BeforeLiveAt(all) /\ len = Len(marks)
  /\ k = Stuck(marks, credited, {}, len) /\ outer = Remixes(marks, k, len)
  /\ cut = CutFeat(marks, credited, k) /\ n = Stuck(marks, credited, outer, cut)
  /\ off = outer \cup Remixes(marks, n, cut)

(* Every remix of the title stays or is remembered.                        *)
LEMMA RemixesKept ==
  ASSUME NEW all \in Seq(Mark), NEW credited, NEW marks, NEW len, NEW k, NEW outer,
         NEW cut, NEW n, NEW off, Peeled(all, credited, marks, len, k, outer, cut, n, off)
  PROVE  /\ len \in 0..Len(all) /\ n \in 0..len
         /\ \A i \in 1..len : marks[i] = all[i]
         /\ \A i \in off : marks[i].kind = "remix" /\ i \in 1..len
         /\ \A i, j \in off : i = j
         /\ \A i \in 1..Len(all) : all[i].kind = "remix" => i \in 1..n \/ i \in off
<1>0. /\ ~Swallows(all) /\ marks = BeforeLiveAt(all) /\ len = Len(marks)
      /\ k = Stuck(marks, credited, {}, len) /\ outer = Remixes(marks, k, len)
      /\ cut = CutFeat(marks, credited, k) /\ n = Stuck(marks, credited, outer, cut)
      /\ off = outer \cup Remixes(marks, n, cut)
  BY DEF Peeled
<1>. USE <1>0
<1>1. Len(all) \in Nat /\ DOMAIN all = 1..Len(all) /\ \A i \in 1..Len(all) : all[i] \in Mark
  BY LenProperties, ElementOfSeq
<1>2. /\ marks \in Seq(Mark) /\ len \in 0..Len(all)
      /\ \A i \in 1..len : marks[i] = all[i] /\ marks[i].kind # "live_at"
      /\ len < Len(all) => all[len + 1].kind = "live_at"
  BY <1>1, BeforeLiveAtIs
<1>5. /\ k \in 0..len /\ ComesOff(marks, credited, {}, k, len)
      /\ \A m \in 0..len : ComesOff(marks, credited, {}, m, len) => k <= m
  BY <1>1, <1>2, StuckIs
<1>6. \A i, j \in outer : i = j
  BY <1>5 DEF ComesOff
<1>7. cut = k \/ (cut \in 0..k /\ cut < k /\ marks[cut + 1].kind = "open_feat")
  BY <1>1, <1>2, <1>5, CutFeatIs
<1>8. n \in 0..cut /\ ComesOff(marks, credited, outer, n, cut)
  BY <1>1, <1>2, <1>5, <1>6, <1>7, StuckIs
<1>9. \A i, j \in off : i = j
  BY <1>8 DEF ComesOff
<1>10. ASSUME NEW i \in 1..Len(all), all[i].kind = "remix"
       PROVE  i \in 1..n \/ i \in off
  <2>1. i <= len
    <3>1. CASE len < Len(all)
      BY <1>1, <1>2, <1>10, <3>1 DEF Swallows
    <3>. QED  BY <1>1, <1>2, <3>1
  <2>2. marks[i].kind = "remix"
    BY <1>1, <1>2, <1>10, <2>1
  <2>3. CASE i > k
    BY <1>1, <1>2, <1>5, <2>1, <2>2, <2>3 DEF Remixes
  <2>4. CASE i <= cut
    BY <1>1, <1>2, <1>5, <1>7, <1>8, <2>2, <2>4 DEF Remixes
  <2>5. CASE cut < i /\ i <= k
    <3>1. cut + 1 < i /\ cut + 1 \in 1..Len(all) /\ all[cut + 1].kind = "open_feat"
      <4>1. cut \in 0..k /\ cut < k /\ marks[cut + 1].kind = "open_feat"
        BY <1>1, <1>2, <1>5, <1>7, <2>5
      <4>2. cut + 1 # i
        BY <2>2, <4>1
      <4>. QED  BY <1>1, <1>2, <1>5, <2>5, <4>1, <4>2
    <3>2. ASSUME NEW l \in (i + 1)..len PROVE marks[l].kind = "decoration"
      <4>1. l \in 1..Len(all) /\ l > i /\ l \in 1..len
        BY <1>1, <1>2, <3>2
      <4>2. all[l].kind \notin {"remix", "feat", "open_feat"}
        BY <1>1, <1>10, <3>1, <4>1 DEF Swallows
      <4>3. all[l].kind \in Kinds
        BY <1>1, <4>1 DEF Mark
      <4>. QED  BY <1>2, <4>1, <4>2, <4>3 DEF Kinds
    <3>3. ComesOff(marks, credited, {}, i - 1, len)
      <4>1. \A l \in ((i - 1) + 1)..len : l = i \/ l \in (i + 1)..len
        BY <1>1, <1>2
      <4>2. \A l \in ((i - 1) + 1)..len : marks[l].kind \in {"decoration", "remix"}
        BY <2>2, <3>2, <4>1
      <4>3. \A l \in ((i - 1) + 1)..len : marks[l].kind = "remix" => l = i
        BY <3>2, <4>1
      <4>. QED  BY <4>2, <4>3 DEF ComesOff, Remixes
    <3>4. i - 1 \in 0..len
      BY <1>1, <1>2, <2>1
    <3>. QED  BY <1>1, <1>2, <1>5, <2>5, <3>3, <3>4
  <2>. QED  BY <1>1, <1>2, <1>5, <1>7, <2>3, <2>4, <2>5
<1>11. n \in 0..len /\ \A i \in off : marks[i].kind = "remix" /\ i \in 1..len
  <2>1. k \in 0..len /\ cut \in 0..k /\ n \in 0..cut /\ len \in Nat
    BY <1>1, <1>2, <1>5, <1>7, <1>8
  <2>2. n \in 0..len
    BY <2>1
  <2>3. ASSUME NEW i \in off PROVE marks[i].kind = "remix" /\ i \in 1..len
    <3>1. i \in Remixes(marks, k, len) \/ i \in Remixes(marks, n, cut)
      BY <2>3
    <3>2. marks[i].kind = "remix" /\ (i \in (k + 1)..len \/ i \in (n + 1)..cut)
      BY <3>1 DEF Remixes
    <3>. QED  BY <2>1, <3>2
  <2>. QED  BY <2>2, <2>3
<1>. QED  BY <1>2, <1>9, <1>10, <1>11

LEMMA NormalizeKeeps ==
  ASSUME NEW title \in Title, NEW credited, ~Swallows(title.marks)
  PROVE  Credits(Normalize(title, credited).text.marks) = Remixers(title.marks)
<1>. DEFINE all   == title.marks
            marks == BeforeLiveAt(all)
            len   == Len(marks)
            k     == Stuck(marks, credited, {}, len)
            outer == Remixes(marks, k, len)
            cut   == CutFeat(marks, credited, k)
            n     == Stuck(marks, credited, outer, cut)
            off   == outer \cup Remixes(marks, n, cut)
            rest  == {Scrubbed(marks[i]) : i \in off}
            base  == [i \in 1..n |-> Scrubbed(marks[i])]
<1>1. /\ all \in Seq(Mark) /\ Len(all) \in Nat /\ DOMAIN all = 1..Len(all)
      /\ \A i \in 1..Len(all) : all[i] \in Mark
  BY LenProperties, ElementOfSeq DEF Title
<1>2. Normalize(title, credited).text.marks = base \o SetToSeq(rest)
  BY DEF Normalize, Normalized, Title
<1>a. Peeled(all, credited, marks, len, k, outer, cut, n, off)
  BY DEF Peeled
<1>. HIDE DEF all, marks, len, k, outer, cut, n, off
<1>3. /\ len \in 0..Len(all) /\ n \in 0..len
      /\ \A i \in 1..len : marks[i] = all[i]
      /\ \A i \in off : marks[i].kind = "remix" /\ i \in 1..len
      /\ \A i, j \in off : i = j
      /\ \A i \in 1..Len(all) : all[i].kind = "remix" => i \in 1..n \/ i \in off
  BY <1>1, <1>a, RemixesKept
<1>12. \A m \in Mark : Scrubbed(m) \in Mark /\ (Scrubbed(m).kind = "remix" <=> m.kind = "remix")
  BY MasteringAssumption DEF Scrubbed, Mark, Kinds
<1>13. \A i \in 1..len : marks[i] \in Mark
  BY <1>1, <1>3
<1>14. rest \in SUBSET Mark /\ \A x, y \in rest : x = y
  BY <1>3, <1>12, <1>13
<1>15. /\ base \in Seq(Mark) /\ Len(base) = n
       /\ DOMAIN base = 1..n /\ \A i \in 1..n : base[i] = Scrubbed(marks[i])
  <2>1. n \in Nat /\ \A i \in 1..n : Scrubbed(marks[i]) \in Mark
    BY <1>1, <1>3, <1>12, <1>13
  <2>2. base \in [1..n -> Mark]
    BY <2>1
  <2>. QED  BY <2>1, <2>2, IsASeq, LenProperties
<1>. HIDE DEF base, rest
<1>16. SetToSeq(rest) \in Seq(Mark) /\ ToSet(SetToSeq(rest)) = rest
  BY <1>14, SmallSetToSeq
<1>17. ToSet(base \o SetToSeq(rest)) = ToSet(base) \cup rest
  BY <1>15, <1>16, ToSetOfConcat
<1>18. ToSet(base) = {Scrubbed(marks[i]) : i \in 1..n}
  BY <1>15 DEF ToSet
<1>19. ToSet(all) = {all[i] : i \in 1..Len(all)}
  BY <1>1 DEF ToSet
<1>20. ASSUME NEW m PROVE m \in Credits(base \o SetToSeq(rest)) <=> m \in Remixers(all)
  <2>1. ASSUME m \in Credits(base \o SetToSeq(rest)) PROVE m \in Remixers(all)
    <3>1. m.kind = "remix" /\ m \in ToSet(base) \cup rest
      BY <1>17, <2>1 DEF Credits
    <3>2. PICK i \in 1..len : m = Scrubbed(marks[i])
      BY <1>1, <1>3, <1>18, <3>1 DEF rest
    <3>3. marks[i].kind = "remix" /\ marks[i] = all[i] /\ i \in 1..Len(all)
      BY <1>1, <1>3, <1>12, <1>13, <3>1, <3>2
    <3>. QED  BY <1>19, <3>2, <3>3 DEF Remixers
  <2>2. ASSUME m \in Remixers(all) PROVE m \in Credits(base \o SetToSeq(rest))
    <3>1. PICK i \in 1..Len(all) : m = Scrubbed(all[i]) /\ all[i].kind = "remix"
      BY <1>19, <2>2 DEF Remixers
    <3>2. i \in 1..n \/ i \in off
      BY <1>3, <3>1
    <3>3. i \in 1..len
      BY <1>1, <1>3, <3>2
    <3>4. m = Scrubbed(marks[i]) /\ m.kind = "remix"
      BY <1>1, <1>3, <1>12, <3>1, <3>3
    <3>5. m \in ToSet(base) \cup rest
      BY <1>18, <3>2, <3>4 DEF rest
    <3>. QED  BY <1>17, <3>4, <3>5 DEF Credits
  <2>. QED  BY <2>1, <2>2
<1>21. Credits(base \o SetToSeq(rest)) = Remixers(all)
  <2>1. /\ Credits(base \o SetToSeq(rest)) \subseteq Remixers(all)
        /\ Remixers(all) \subseteq Credits(base \o SetToSeq(rest))
    BY <1>20
  <2>. QED  BY <2>1
<1>. QED  BY <1>2, <1>21 DEF all

(* The heuristic unites no remix with a track whose remixers read           *)
(* differently, its original included, in titles that swallow no credit.    *)
THEOREM RemixesStayApart == Spec => []RemixesApart
<1>. DEFINE marks(t) == track[t].title.marks
<1>1. ASSUME TypeOK, NEW p \in HeuristicUnions,
             ~Swallows(marks(p[1])), ~Swallows(marks(p[2]))
      PROVE  Remixers(marks(p[1])) = Remixers(marks(p[2]))
  <2>1. PICK t \in Known : p \in Neighbours({u \in Known : SameTitle(t, u)})
    BY DEF HeuristicUnions
  <2>2. p[1] \in Known /\ p[2] \in Known /\ SameTitle(t, p[1]) /\ SameTitle(t, p[2])
    BY <2>1 DEF Neighbours
  <2>3. Norm(p[1]).text = Norm(p[2]).text
    BY <2>2 DEF SameTitle
  <2>4. \A u \in Known : track[u].title \in Title
    BY <1>1, MasteringAssumption DEF TypeOK, Known, Record, Title
  <2>5. \A u \in Known : ~Swallows(marks(u)) => Credits(Norm(u).text.marks) = Remixers(marks(u))
    BY <2>4, NormalizeKeeps DEF Norm
  <2>. QED  BY <1>1, <2>2, <2>3, <2>5
<1>2. TypeOK => RemixesApart
  BY <1>1 DEF RemixesApart
<1>. QED  BY <1>2, MasteringTypes, PTL
=============================================================================
