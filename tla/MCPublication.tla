----------------------------- MODULE MCPublication -----------------------------
(* Publication for TLC: three crossings racing for three names, and a host   *)
(* scanning the directory.  Crossings and names are interchangeable, and     *)
(* nothing but safety is checked here, so the reduction by symmetry is sound. *)
EXTENDS RegistryScan, TLC

Symmetry == Permutations(Crossings) \cup Permutations(Names)
================================================================================
