------------------------------- MODULE MCImages -------------------------------
(* A few dabs processes around one image.                                     *)
EXTENDS ImageStore, TLC

Symmetric == Permutations(Procs)
=============================================================================
