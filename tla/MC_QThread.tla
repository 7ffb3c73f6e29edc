----------------------------- MODULE MC_QThread -----------------------------
(* Model-checking instance of QThread: the constants are model values or  *)
(* small numbers given in the .cfg files.                                  *)
EXTENDS QThread, TLC

ThreadSymmetry == Permutations(Threads)
=============================================================================
