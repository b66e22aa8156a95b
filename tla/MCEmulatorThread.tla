------------------------- MODULE MCEmulatorThread ---------------------------
(***************************************************************************)
(* EmulatorThread for TLC with several workers.  They are coroutines that  *)
(* nothing tells apart, so that states which differ only by a permutation  *)
(* of them are one.                                                        *)
(***************************************************************************)
EXTENDS EmulatorThread, TLC

WorkerSymmetry == Permutations(Workers)

=============================================================================
