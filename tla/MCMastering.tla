----------------------------- MODULE MCMastering -----------------------------
(***************************************************************************)
(* Four tracks of two artists: the song foo in up to three takes whose     *)
(* durations form a chain and whose titles are marked in different ways,   *)
(* the song bar, and remixes of both, which may be one recording under one *)
(* ISRC, or a remix of a remix.                                            *)
(***************************************************************************)
EXTENDS Mastering

CONSTANTS A, B, C, I, J, K, foo, bar

(* C is written in letters that _scrub does not keep.                      *)
MCScrub == [a \in {A, B, C, NoArtist} |-> IF a = C THEN NoArtist ELSE a]

Decoration == [kind |-> "decoration", by |-> NoArtist]
Remix(a)   == [kind |-> "remix", by |-> a]
Feat(a)    == [kind |-> "feat", by |-> a]
OpenFeat(a) == [kind |-> "open_feat", by |-> a]
LiveAt     == [kind |-> "live_at", by |-> NoArtist]

Foo(marks) == [name |-> foo, marks |-> marks]
Bar(marks) == [name |-> bar, marks |-> marks]

MCTitles ==
  {Foo(<<>>), Foo(<<Decoration>>), Foo(<<LiveAt, Remix(B)>>), Foo(<<OpenFeat(B), Decoration>>),
   Foo(<<Remix(B)>>), Foo(<<Feat(A), Remix(B), Remix(A), Decoration>>),
   Foo(<<OpenFeat(B), Remix(C), Remix(B)>>), Bar(<<>>), Bar(<<Remix(B)>>)}

Rec(title, artist, credited, ms, isrc, linked) ==
  [title |-> title, artist |-> artist, credited |-> credited, ms |-> ms,
   isrc |-> isrc, linked |-> linked]

MCPayloads ==
  <<{Rec(Foo(<<>>), A, {A}, 1, NoIsrc, NoTrack),
     Rec(Foo(<<>>), A, {A}, 1, I, NoTrack)},
    {Rec(Foo(<<Decoration>>), A, {A}, 2, NoIsrc, NoTrack),
     Rec(Foo(<<LiveAt, Remix(B)>>), A, {A, B}, 2, J, NoTrack),
     Rec(Bar(<<>>), B, {B}, 2, I, NoTrack)},
    {Rec(Foo(<<OpenFeat(B), Decoration>>), A, {A, B}, 3, NoIsrc, NoTrack),
     Rec(Foo(<<>>), A, {A, B}, Unknown, I, NoTrack),
     Rec(Foo(<<Remix(B)>>), A, {A}, 3, K, NoTrack)},
    {Rec(Bar(<<Remix(B)>>), B, {B}, 3, K, NoTrack),
     Rec(Foo(<<OpenFeat(B), Remix(C), Remix(B)>>), A, {A, B}, 3, NoIsrc, NoTrack),
     Rec(Foo(<<Feat(A), Remix(B), Remix(A), Decoration>>), A, {A}, 3, NoIsrc, 1)}>>

(* Track 1 has its ISRC only from the backfill, track 4 may not be there.  *)
MCLibraries ==
  {l \in [Tracks -> (UNION {MCPayloads[t] : t \in Tracks}) \cup {Absent}] :
     \A t \in Tracks : l[t] \in {r \in MCPayloads[t] : t = 1 => r.isrc = NoIsrc}
                                   \cup (IF t = 4 THEN {Absent} ELSE {})}

MCOverrideFiles ==
  {[merges |-> {}, splits |-> <<>>],
   [merges |-> {{1, 2}, {3, 4}}, splits |-> <<{3}, {4}>>],
   [merges |-> {{2, 3}, {3, 4}}, splits |-> <<{1, 2}, {2, 3}>>]}
=============================================================================
