---------------------------- MODULE ServiceRegistry ----------------------------
(***************************************************************************)
(* What one box's door promises of its registry directory, with the files  *)
(* and the goroutines left out: which crossing holds each service name,    *)
(* and which crossing's service the directory has, at each instant, behind *)
(* the name.  A name passes from one crossing to another only through      *)
(* "nobody", and it is given up only once nothing of it is in the          *)
(* directory; a registry that stops lets the publications that were half   *)
(* way in finish appearing, and takes in nobody new.                       *)
(*                                                                         *)
(* Publication.tla is the relay that is to keep this promise.              *)
(***************************************************************************)
CONSTANTS Crossings,  \* connections a box can open to its door
          Names,      \* service names
          None        \* nobody

VARIABLES holder,   \* holder[n]: the crossing that holds the name n
          visible,  \* visible[n]: the crossing whose service the directory has behind n
          open,     \* the registry still takes publications
          late      \* <<n, c>>: registered when the registry stopped, not seen since

vars == <<holder, visible, open, late>>

Init ==
    /\ holder = [n \in Names |-> None]
    /\ visible = [n \in Names |-> None]
    /\ open = TRUE
    /\ late = {}

\* c becomes the holder of a free name.
Register(n, c) ==
    /\ open
    /\ holder[n] = None
    /\ \A m \in Names : holder[m] # c
    /\ holder' = [holder EXCEPT ![n] = c]
    /\ UNCHANGED <<visible, open, late>>

\* A publication appears: its holder's, or one the stop overtook.
Show(n, c) ==
    /\ visible[n] = None
    /\ \A m \in Names : visible[m] # c
    /\ IF open THEN holder[n] = c ELSE <<n, c>> \in late
    /\ visible' = [visible EXCEPT ![n] = c]
    /\ late' = late \ {<<n, c>>}
    /\ UNCHANGED <<holder, open>>

\* A publication disappears.
Hide(n) ==
    /\ visible[n] # None
    /\ visible' = [visible EXCEPT ![n] = None]
    /\ UNCHANGED <<holder, open, late>>

\* A name is given up, and while the registry is open only once it is not seen.
Release(n) ==
    /\ holder[n] # None
    /\ open => visible[n] = None
    /\ holder' = [holder EXCEPT ![n] = None]
    /\ UNCHANGED <<visible, open, late>>

\* The registry stops; what was registered and not yet seen may still appear.
Stop ==
    /\ open
    /\ open' = FALSE
    /\ late' \in SUBSET {<<n, holder[n]>> : n \in {m \in Names : visible[m] = None}}
    /\ UNCHANGED <<holder, visible>>

\* A publication that was to appear late never will.
Abandon(n, c) ==
    /\ <<n, c>> \in late
    /\ late' = late \ {<<n, c>>}
    /\ UNCHANGED <<holder, visible, open>>

Next ==
    \/ \E n \in Names, c \in Crossings : Register(n, c) \/ Show(n, c) \/ Abandon(n, c)
    \/ \E n \in Names : Hide(n) \/ Release(n)
    \/ Stop

Spec == Init /\ [][Next]_vars
================================================================================
