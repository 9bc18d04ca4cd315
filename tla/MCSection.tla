------------------------------ MODULE MCSection ------------------------------
(* listen and annotate at once, one after the other in each terminal.       *)
EXTENDS SectionChain, TLC

CONSTANTS listen, annotate, s1, s2, s3

IdSymmetry == Permutations(Ids)
=============================================================================
