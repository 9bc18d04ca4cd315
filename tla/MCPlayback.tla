----------------------------- MODULE MCPlayback -----------------------------
(***************************************************************************)
(* Two songs, so that one can be in the graph and the other not.           *)
(***************************************************************************)
EXTENDS Playback, TLC

CONSTANTS a, b

SongSymmetry == Permutations(Songs)
=============================================================================
