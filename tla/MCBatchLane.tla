---------------------------- MODULE MCBatchLane ----------------------------
(* One or two items that may share a submission, and a process that stops. *)
EXTENDS BatchLane, TLC

CONSTANTS i1, i2

Items == Permutations(Item)
=============================================================================
