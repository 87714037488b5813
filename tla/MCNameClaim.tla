------------------------------ MODULE MCNameClaim ------------------------------
(* NameClaim for TLC. *)
EXTENDS NameClaim
================================================================================
