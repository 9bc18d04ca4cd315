------------------------------ MODULE MCLibrary ------------------------------
(***************************************************************************)
(* Two users, one of them the owner of the legacy dataset, and two tracks. *)
(***************************************************************************)
EXTENDS LibraryGraph, TLC

CONSTANTS Alice, Bob, t1, t2

TrackSymmetry == Permutations(Tracks)
=============================================================================
