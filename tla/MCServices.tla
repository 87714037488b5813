------------------------------- MODULE MCServices -------------------------------
(* ServiceServer for TLC: two boxes with a name each, for what two names' ports   *)
(* and saves do to one another; and two boxes with one name, for who owns it.     *)
(* Other programs take and leave host ports in both.                              *)
EXTENDS ServiceServer

CONSTANTS n1, n2

NameEach == {<<1, n1>>, <<2, n2>>}
OneName == {<<b, n1>> : b \in Boxes}
================================================================================
