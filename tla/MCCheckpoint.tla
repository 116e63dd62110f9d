---------------------------- MODULE MCCheckpoint ----------------------------
(* Instances of Checkpoint for TLC: the threads of a small guest.           *)
EXTENDS Checkpoint, TLC

(* The threads other than the main one play the same part.                  *)
Symmetry == Permutations(Thread \ {Main})
=============================================================================
