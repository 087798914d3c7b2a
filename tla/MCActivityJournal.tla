-------------------------- MODULE MCActivityJournal --------------------------
(* Two ends of paid activities (expensive) and a start of another (cheap). *)
EXTENDS ActivityJournal, TLC

CONSTANTS end1, end2, start3

RecordSymmetry == Permutations({end1, end2})
=============================================================================
