----------------------------- MODULE MCPlaylist -----------------------------
(* Instances of PlaylistSync: two generators, the second not order-significant. *)
EXTENDS PlaylistSync, TLC

CONSTANTS discoveries, queue, first, second, a, b, c, u

(* Removals, reorderings, a repeated track, and two targets that one       *)
(* playlist realizes because u is not playable.                            *)
MCTargets == {<<a, b, c>>, <<c, a, c>>, <<a, u, b>>, <<b, a>>, <<a, b>>}

IdSymmetry == Permutations(Ids)

(* One process per generator.                                              *)
MCApart == [p \in Syncs |-> IF p = first THEN {discoveries} ELSE {queue}]
=============================================================================
