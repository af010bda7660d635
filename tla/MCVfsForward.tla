------------------------------ MODULE MCVfsForward -----------------------------
(* Small instances of VfsForward: tables of no version and of this one,    *)
(* with the last field missing, with all, and with one more.               *)
EXTENDS VfsForward, TLC

ThreadSymmetry == Permutations(Threads)
=============================================================================
