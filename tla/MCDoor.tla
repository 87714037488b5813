-------------------------------- MODULE MCDoor --------------------------------
(* Two relays aimed at one door, two publishers of one name and a crossing.   *)
EXTENDS Door
=============================================================================
