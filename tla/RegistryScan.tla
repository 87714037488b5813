------------------------------ MODULE RegistryScan ------------------------------
(***************************************************************************)
(* A host that scans a box's registry directory (src/core/services:        *)
(* ScanDir) while publications come and go in it (Publication.tla).  The   *)
(* scan lists the directory once; then, entry by entry, it reads the       *)
(* descriptor and, later, looks for the socket beside it.  Entries have    *)
(* nothing to do with one another, so the scan here follows one of them.   *)
(***************************************************************************)
EXTENDS Publication

VARIABLES
    scan,   \* where the scan stands, the entry it follows, the descriptor it read
    whole   \* history: the publication the scan began with, while it stands

scanVars == <<pubVars, scan, whole>>

Idle == [at |-> "idle", name |-> None, wrote |-> None]

\* A publication that is published, as far as its relay can tell, and not closed.
Held == {"open", "serving"}

Stands(c) == stage[c] \in Held /\ closing[c] = "no"

ScanInit == Init /\ scan = Idle /\ whole = None

--------------------------------------------------------------------------------
(* The steps of the relay.  A connection that was dialled later is another    *)
(* one than the one whose descriptor was read.                                *)

RelaySteps ==
    /\ Next
    /\ \A c \in Crossings : scan.wrote = c => stage'[c] # "opening"
    /\ whole' = IF whole # None /\ stage'[whole] \in Held /\ closing'[whole] = "no"
                THEN whole ELSE None
    /\ UNCHANGED scan

--------------------------------------------------------------------------------
(* The steps of the scan.  None of them changes anything in the directory.    *)

Follow(s) == scan' = s /\ UNCHANGED pubVars

\* The directory is listed, and an entry of it is a descriptor.
ListEntry(n) ==
    /\ scan.at = "idle"
    /\ desc[n] # None
    /\ Follow([at |-> "listed", name |-> n, wrote |-> None])
    /\ whole' = IF Stands(desc[n]) THEN desc[n] ELSE None

\* The descriptor is gone by the time it is read: the entry is passed over.
ReadFails ==
    /\ scan.at = "listed"
    /\ desc[scan.name] = None
    /\ Follow(Idle)
    /\ whole' = None

ReadDescriptor ==
    /\ scan.at = "listed"
    /\ desc[scan.name] # None
    /\ Follow([scan EXCEPT !.at = "read", !.wrote = desc[scan.name]])
    /\ UNCHANGED whole

\* No socket: the publisher of the descriptor died, and the entry is passed over.
StatFails ==
    /\ scan.at = "read"
    /\ sock[scan.name] = None
    /\ Follow(Idle)
    /\ whole' = None

\* The entry is reported: the descriptor's type and port with the socket's path.
Report ==
    /\ scan.at = "read"
    /\ sock[scan.name] # None
    /\ Follow(Idle)
    /\ whole' = None

ScanNext ==
    \/ RelaySteps
    \/ \E n \in Names : ListEntry(n)
    \/ ReadFails \/ ReadDescriptor \/ StatFails \/ Report

ScanSpec == ScanInit /\ [][ScanNext]_scanVars

--------------------------------------------------------------------------------
(* Properties.                                                              *)

\* The variables hold values of their types.
ScanTypeOK ==
    /\ scan \in [at : {"idle", "listed", "read"}, name : Names \cup {None},
                 wrote : Crossings \cup {None}]
    /\ whole \in Crossings \cup {None}

\* A row pairs a descriptor with another publication's socket only when the one
\* described was taken down altogether, its name given back included, between the
\* two looks (ScanDir's ReadFile and Stat): never while two publications have files
\* under one name.
ReportsOneService ==
    [][Report => \/ sock[scan.name] = scan.wrote
                 \/ \A n \in Names : published[n] # scan.wrote
                                     /\ sock[n] # scan.wrote /\ desc[n] # scan.wrote]_scanVars

\* A publication that stood from the listing on is reported, and as itself, though
\* others are published, refused, undone and taken down while the scan goes on.
StandingIsReported ==
    [][ /\ ReadFails => whole = None
        /\ StatFails => whole = None
        /\ Report /\ whole # None => scan.wrote = whole /\ sock[scan.name] = whole ]_scanVars
================================================================================
