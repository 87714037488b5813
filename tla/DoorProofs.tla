------------------------------- MODULE DoorProofs -------------------------------
(***************************************************************************)
(* Theorems about Door for any number of relays aimed at a door, publishers *)
(* in its box and crossings, and whatever fails.                           *)
(***************************************************************************)
EXTENDS Door, FiniteSetTheorems, TLAPS

RelayStages == {"new", "claimed", "carrying", "bound", "serving", "closed", "over"}

Sessions ==
    [at : {"new", "dialing", "opening", "held", "ended"},
     silent : Nat, to : Relays \cup {Nobody}, cut : BOOLEAN]

CrossingStates ==
    [kind : {"none", "egress", "carried", "stream"},
     at : {"away", "opening", "dialing", "answered", "coupled", "closed"},
     to : Relays \cup {Nobody}, timed : SUBSET {"relay", "box"},
     past : BOOLEAN, flows : SUBSET {"out", "in"}]

(* The variables hold values of their types.                                 *)
DoorTypeOK ==
    /\ registry \in BOOLEAN
    /\ relay \in [Relays -> RelayStages]
    /\ lock \in Relays \cup {Nobody}
    /\ door \in Relays \cup {Nobody}
    /\ mount \in Relays \cup {Nobody}
    /\ stolen \in BOOLEAN
    /\ table \in [Relays -> Publishers \cup {Nobody}]
    /\ pub \in [Publishers -> Sessions]
    /\ late \in SUBSET (Publishers \X Relays)
    /\ host \in BOOLEAN
    /\ cross \in [Crossings -> CrossingStates]

(* The claim is held from claimDoor to Close, or to the end of the process.   *)
ClaimInv ==
    \A r \in Relays : lock = r <=> relay[r] \in {"claimed", "carrying", "bound", "serving"}

(* A path is a relay's from its bind on, for as long as it has the claim: only *)
(* who has it binds or, but for the last step of a Close, unlinks.            *)
PathsInv ==
    \A r \in Relays :
        /\ relay[r] \in {"new", "claimed", "carrying"} => door # r
        /\ relay[r] \in {"carrying", "bound", "serving"} => mount = r
        /\ relay[r] \in {"bound", "serving"} => door = r \/ stolen

(* A publisher has a session of a relay that came to serve, and it is cut once *)
(* it is held.                                                               *)
SessionInv ==
    \A p \in Publishers :
        /\ pub[p].at \in {"opening", "held"} => pub[p].to \in Relays
        /\ pub[p].at = "held" => relay[pub[p].to] \in {"serving", "closed", "over"}
        /\ pub[p].cut => pub[p].at = "held"

(* What carries bytes has no deadline, and bytes to wait for.                 *)
CrossingInv ==
    \A x \in Crossings : cross[x].at = "coupled" => cross[x].timed = {} /\ cross[x].flows # {}

IInv ==
    /\ DoorTypeOK
    /\ ClaimInv
    /\ PathsInv
    /\ SessionInv
    /\ CrossingInv

--------------------------------------------------------------------------------
(* Each part of the invariant is kept by every step.                        *)

(* A connection that is closed with its relay's process keeps the rest.        *)
LEMMA SeveredType ==
  ASSUME DoorTypeOK, NEW r \in Relays
  PROVE  Severed(r) \in [Crossings -> CrossingStates]
<1>1. \A x \in Crossings : [cross[x] EXCEPT !.at = "closed"] \in CrossingStates
  BY DEF DoorTypeOK, CrossingStates
<1> QED
  BY <1>1 DEF Severed, DoorTypeOK

(* A publisher that goes on, or gives up, has no session.                      *)
LEMMA FailedType ==
  ASSUME DoorTypeOK, NEW p \in Publishers, NEW took \in Nat, Failed(p, took)
  PROVE  pub' \in [Publishers -> Sessions]
<1>1. pub[p].silent + took \in Nat
  BY DEF DoorTypeOK, Sessions
<1>2. \A at \in {"ended", "dialing"}, n \in Nat :
        [at |-> at, silent |-> n, to |-> Nobody, cut |-> FALSE] \in Sessions
  BY DEF Sessions
<1> QED
  BY <1>1, <1>2 DEF Failed, DoorTypeOK

(* Bytes flow both ways to begin with.                                         *)
LEMMA CoupledType ==
  ASSUME NEW c \in CrossingStates
  PROVE  Coupled(c) \in CrossingStates
BY DEF Coupled, CrossingStates

(* Nothing is written that is not of its type.                              *)
LEMMA DoorTypeOKStep ==
  ASSUME DoorTypeOK, SessionInv, [Next]_vars
  PROVE  DoorTypeOK'
<1> USE DoorAssumption DEF DoorTypeOK, DoorAssumption, RelayStages
<1>1. ASSUME NEW r \in Relays, Claim(r) PROVE DoorTypeOK'
  BY <1>1 DEF Claim, claim
<1>2. ASSUME NEW r \in Relays, OpenCarries(r) PROVE DoorTypeOK'
  BY <1>2 DEF OpenCarries, claim
<1>3. ASSUME NEW r \in Relays, BindDoor(r) PROVE DoorTypeOK'
  BY <1>3 DEF BindDoor, claim
<1>4. ASSUME NEW r \in Relays, Serve(r) PROVE DoorTypeOK'
  BY <1>4 DEF Serve, claim
<1>5. ASSUME NEW r \in Relays, CloseDoor(r) PROVE DoorTypeOK'
  <2>1. cross' \in [Crossings -> CrossingStates]
    BY <1>5, SeveredType DEF CloseDoor, claim
  <2> QED
    BY <1>5, <2>1 DEF CloseDoor, claim
<1>6. ASSUME NEW r \in Relays, BindFails(r) PROVE DoorTypeOK'
  <2>1. cross' \in [Crossings -> CrossingStates]
    BY <1>6, SeveredType DEF BindFails, claim
  <2> QED
    BY <1>6, <2>1 DEF BindFails, claim
<1>7. ASSUME NEW r \in Relays, Killed(r) PROVE DoorTypeOK'
  <2>1. cross' \in [Crossings -> CrossingStates]
    BY <1>7, SeveredType DEF Killed, claim
  <2> QED
    BY <1>7, <2>1 DEF Killed, claim
<1>8. ASSUME NEW r \in Relays, Close(r) PROVE DoorTypeOK'
  <2>1. \A p \in Publishers : [pub[p] EXCEPT !.cut = TRUE] \in Sessions
    BY DEF Sessions
  <2> QED
    BY <1>8, <2>1 DEF Close, claim
<1>9. ASSUME NEW r \in Relays, Drop(r) PROVE DoorTypeOK'
  BY <1>9 DEF Drop, claim
<1>10. ASSUME NEW p \in Publishers, Begin(p) PROVE DoorTypeOK'
  <2>1. [pub[p] EXCEPT !.at = "ended"] \in Sessions /\ [pub[p] EXCEPT !.at = "dialing"] \in Sessions
    BY DEF Sessions
  <2> QED
    BY <1>10, <2>1 DEF Begin, claim, Moves
<1>11. ASSUME NEW p \in Publishers, Dial(p) PROVE DoorTypeOK'
  <2>1. CASE Failed(p, 1)
    <3>1. pub' \in [Publishers -> Sessions]
      BY <2>1, FailedType
    <3> QED
      BY <1>11, <3>1 DEF Dial, Listens, Bound, claim
  <2>2. CASE pub' = [pub EXCEPT ![p].at = "opening", ![p].to = door]
    <3>1. [pub[p] EXCEPT !.at = "opening", !.to = door] \in Sessions
      BY DEF Sessions
    <3> QED
      BY <1>11, <2>2, <3>1 DEF Dial, Listens, Bound, claim
  <2> QED
    BY <1>11, <2>1, <2>2 DEF Dial, Listens, Bound, claim
<1>12. ASSUME NEW p \in Publishers, Hangs(p) PROVE DoorTypeOK'
  <2>1. pub' \in [Publishers -> Sessions]
    BY <1>12, FailedType DEF Hangs, claim
  <2> QED
    BY <1>12, <2>1 DEF SessionInv, Hangs, claim
<1>13. ASSUME NEW p \in Publishers, Busy(p) PROVE DoorTypeOK'
  <2>1. pub' \in [Publishers -> Sessions]
    BY <1>13, FailedType DEF Busy, claim
  <2> QED
    BY <1>13, <2>1 DEF Busy, claim
<1>14. ASSUME NEW p \in Publishers, Refused(p) PROVE DoorTypeOK'
  <2>1. [pub[p] EXCEPT !.at = "ended"] \in Sessions
    BY DEF Sessions
  <2> QED
    BY <1>14, <2>1 DEF Refused, claim, Moves
<1>15. ASSUME NEW p \in Publishers, Hold(p) PROVE DoorTypeOK'
  <2>1. [pub[p] EXCEPT !.at = "held", !.silent = 0] \in Sessions
    BY DEF Sessions
  <2>2. pub[p].to \in Relays
    BY <1>15 DEF Hold, claim, SessionInv
  <2> QED
    BY <1>15, <2>1, <2>2 DEF Hold, claim, SessionInv
<1>16. ASSUME NEW p \in Publishers, Cut(p) PROVE DoorTypeOK'
  <2>1. [pub[p] EXCEPT !.cut = TRUE] \in Sessions
    BY DEF Sessions
  <2> QED
    BY <1>16, <2>1 DEF Cut, claim
<1>17. ASSUME NEW p \in Publishers, Lost(p) PROVE DoorTypeOK'
  <2>1. [at |-> "dialing", silent |-> 0, to |-> Nobody, cut |-> FALSE] \in Sessions
    BY DEF Sessions
  <2> QED
    BY <1>17, <2>1 DEF Lost, claim
<1>18. ASSUME NEW p \in Publishers, NEW r \in Relays, HoldLate(p, r)
      PROVE  DoorTypeOK'
  BY <1>18 DEF HoldLate, claim
<1>19. CASE HostMoves
  BY <1>19 DEF HostMoves, claim
<1>20. ASSUME NEW x \in Crossings, Opens(x) PROVE DoorTypeOK'
  <2>1. PICK kind \in {"egress", "carried", "stream"}, to \in Relays \cup {Nobody},
              timed \in SUBSET {"relay", "box"} :
          cross' = [cross EXCEPT ![x] = [kind |-> kind,
                      at |-> IF kind = "carried" THEN "dialing" ELSE "opening", to |-> to,
                      timed |-> timed, past |-> FALSE, flows |-> {}]]
    BY <1>20 DEF Opens, claim
  <2> QED
    BY <1>20, <2>1 DEF Opens, claim, CrossingStates
<1>21. ASSUME NEW x \in Crossings, Reads(x) PROVE DoorTypeOK'
  <2>1. \A to \in {"closed", "dialing", "answered"} : [cross[x] EXCEPT !.at = to] \in CrossingStates
    BY DEF CrossingStates
  <2> QED
    BY <1>21, <2>1 DEF Reads, claim
<1>22. ASSUME NEW x \in Crossings, HostAnswers(x) PROVE DoorTypeOK'
  <2>1. [cross[x] EXCEPT !.at = "closed"] \in CrossingStates
    BY DEF CrossingStates
  <2> QED
    BY <1>22, <2>1, CoupledType DEF HostAnswers, claim
<1>23. ASSUME NEW x \in Crossings, DialGivenUp(x) PROVE DoorTypeOK'
  <2>1. [cross[x] EXCEPT !.at = "closed"] \in CrossingStates
    BY DEF CrossingStates
  <2> QED
    BY <1>23, <2>1 DEF DialGivenUp, claim
<1>24. ASSUME NEW x \in Crossings, PortDialled(x) PROVE DoorTypeOK'
  <2>1. [cross[x] EXCEPT !.at = "closed"] \in CrossingStates
    BY DEF CrossingStates
  <2> QED
    BY <1>24, <2>1, CoupledType DEF PortDialled, claim
<1>25. ASSUME NEW x \in Crossings, Expires(x) PROVE DoorTypeOK'
  <2>1. /\ [cross[x] EXCEPT !.past = TRUE, !.at = "dialing"] \in CrossingStates
        /\ [cross[x] EXCEPT !.past = TRUE, !.at = "closed"] \in CrossingStates
    BY ZenonT(40) DEF CrossingStates
  <2>2. \E c \in {[cross[x] EXCEPT !.past = TRUE, !.at = "dialing"],
               [cross[x] EXCEPT !.past = TRUE, !.at = "closed"]} :
          cross' = [cross EXCEPT ![x] = c]
    BY <1>25 DEF Expires, claim
  <2> QED
    BY <1>25, <2>1, <2>2 DEF Expires, claim
<1>26. ASSUME NEW x \in Crossings, Ends(x) PROVE DoorTypeOK'
  <2>1. \A flow : [cross[x] EXCEPT !.flows = @ \ {flow}] \in CrossingStates
    BY DEF CrossingStates
  <2>2. \A flow : [cross[x] EXCEPT !.flows = @ \ {flow}, !.at = "closed"] \in CrossingStates
    BY ZenonT(40) DEF CrossingStates
  <2>3. PICK flow \in cross[x].flows :
          cross' = [cross EXCEPT ![x].flows = @ \ {flow},
                                 ![x].at = IF cross[x].flows = {flow} THEN "closed" ELSE @]
    BY <1>26 DEF Ends, claim
  <2>4. cross' \in [Crossings -> CrossingStates]
    BY <2>1, <2>2, <2>3
  <2> QED
    BY <1>26, <2>4 DEF Ends, claim
<1>27. CASE UNCHANGED vars
  BY <1>27 DEF vars, claim
<1> QED
  BY <1>1, <1>2, <1>3, <1>4, <1>5, <1>6, <1>7, <1>8, <1>9, <1>10, <1>11, <1>12,
     <1>13, <1>14, <1>15, <1>16, <1>17, <1>18, <1>19, <1>20, <1>21, <1>22, <1>23,
     <1>24, <1>25, <1>26, <1>27 DEF Next, RelayStep, CrossingStep

(* The kernel gives the lock to one, and a relay lets go of its own only.   *)
LEMMA ClaimInvStep ==
  ASSUME DoorTypeOK, ClaimInv, [Next]_vars
  PROVE  ClaimInv'
<1> USE DoorAssumption DEF DoorTypeOK, ClaimInv, DoorAssumption, RelayStages
<1>1. ASSUME NEW r \in Relays, Claim(r) PROVE ClaimInv'
  BY <1>1 DEF Claim, claim
<1>2. ASSUME NEW r \in Relays, OpenCarries(r) PROVE ClaimInv'
  BY <1>2 DEF OpenCarries, claim
<1>3. ASSUME NEW r \in Relays, BindDoor(r) PROVE ClaimInv'
  BY <1>3 DEF BindDoor, claim
<1>4. ASSUME NEW r \in Relays, Serve(r) PROVE ClaimInv'
  BY <1>4 DEF Serve, claim
<1>5. ASSUME NEW r \in Relays, CloseDoor(r) PROVE ClaimInv'
  BY <1>5 DEF CloseDoor, Severed, claim
<1>6. ASSUME NEW r \in Relays, BindFails(r) PROVE ClaimInv'
  BY <1>6 DEF BindFails, Severed, claim
<1>7. ASSUME NEW r \in Relays, Killed(r) PROVE ClaimInv'
  BY <1>7 DEF Killed, Severed, claim
<1>8. ASSUME NEW r \in Relays, Close(r) PROVE ClaimInv'
  BY <1>8 DEF Close, claim
<1>9. ASSUME NEW r \in Relays, Drop(r) PROVE ClaimInv'
  BY <1>9 DEF Drop, claim
<1>10. ASSUME NEW p \in Publishers, Begin(p) \/ Dial(p) \/ Hangs(p) \/ Busy(p) \/
             Refused(p) \/ Hold(p) \/ Cut(p) \/ Lost(p)
      PROVE  ClaimInv'
  BY <1>10 DEF Begin, Moves, Dial, Failed, Listens, Bound, Hangs, Busy, Refused,
     Hold, Cut, Lost, claim
<1>11. ASSUME NEW p \in Publishers, NEW r \in Relays, HoldLate(p, r)
      PROVE  ClaimInv'
  BY <1>11 DEF HoldLate, claim
<1>12. CASE HostMoves
  BY <1>12 DEF HostMoves, claim
<1>13. ASSUME NEW x \in Crossings, Opens(x) \/ Reads(x) \/ HostAnswers(x) \/
             DialGivenUp(x) \/ PortDialled(x) \/ Expires(x) \/ Ends(x)
      PROVE  ClaimInv'
  BY <1>13 DEF Opens, Reads, HostAnswers, Coupled, DialGivenUp, PortDialled,
     Expires, Ends, claim
<1>14. CASE UNCHANGED vars
  BY <1>14 DEF vars, claim
<1> QED
  BY <1>1, <1>2, <1>3, <1>4, <1>5, <1>6, <1>7, <1>8, <1>9, <1>10, <1>11, <1>12,
     <1>13, <1>14 DEF Next, RelayStep, CrossingStep

(* Who has no claim touches no path, but for the last step of a Close.      *)
LEMMA PathsInvStep ==
  ASSUME DoorTypeOK, ClaimInv, PathsInv, [Next]_vars
  PROVE  PathsInv'
<1> USE DoorAssumption DEF DoorTypeOK, ClaimInv, PathsInv, DoorAssumption,
   RelayStages
<1>1. ASSUME NEW r \in Relays, Claim(r) PROVE PathsInv'
  BY <1>1 DEF Claim, claim
<1>2. ASSUME NEW r \in Relays, OpenCarries(r) PROVE PathsInv'
  BY <1>2 DEF OpenCarries, claim
<1>3. ASSUME NEW r \in Relays, BindDoor(r) PROVE PathsInv'
  BY <1>3 DEF BindDoor, claim
<1>4. ASSUME NEW r \in Relays, Serve(r) PROVE PathsInv'
  BY <1>4 DEF Serve, claim
<1>5. ASSUME NEW r \in Relays, CloseDoor(r) PROVE PathsInv'
  BY <1>5 DEF CloseDoor, Severed, claim
<1>6. ASSUME NEW r \in Relays, BindFails(r) PROVE PathsInv'
  BY <1>6 DEF BindFails, Severed, claim
<1>7. ASSUME NEW r \in Relays, Killed(r) PROVE PathsInv'
  BY <1>7 DEF Killed, Severed, claim
<1>8. ASSUME NEW r \in Relays, Close(r) PROVE PathsInv'
  BY <1>8 DEF Close, claim
<1>9. ASSUME NEW r \in Relays, Drop(r) PROVE PathsInv'
  BY <1>9 DEF Drop, claim
<1>10. ASSUME NEW p \in Publishers, Begin(p) \/ Dial(p) \/ Hangs(p) \/ Busy(p) \/
             Refused(p) \/ Hold(p) \/ Cut(p) \/ Lost(p)
      PROVE  PathsInv'
  BY <1>10 DEF Begin, Moves, Dial, Failed, Listens, Bound, Hangs, Busy, Refused,
     Hold, Cut, Lost, claim
<1>11. ASSUME NEW p \in Publishers, NEW r \in Relays, HoldLate(p, r)
      PROVE  PathsInv'
  BY <1>11 DEF HoldLate, claim
<1>12. CASE HostMoves
  BY <1>12 DEF HostMoves, claim
<1>13. ASSUME NEW x \in Crossings, Opens(x) \/ Reads(x) \/ HostAnswers(x) \/
             DialGivenUp(x) \/ PortDialled(x) \/ Expires(x) \/ Ends(x)
      PROVE  PathsInv'
  BY <1>13 DEF Opens, Reads, HostAnswers, Coupled, DialGivenUp, PortDialled,
     Expires, Ends, claim
<1>14. CASE UNCHANGED vars
  BY <1>14 DEF vars, claim
<1> QED
  BY <1>1, <1>2, <1>3, <1>4, <1>5, <1>6, <1>7, <1>8, <1>9, <1>10, <1>11, <1>12,
     <1>13, <1>14 DEF Next, RelayStep, CrossingStep

(* A relay that came to serve does not go back.                             *)
LEMMA SessionInvStep ==
  ASSUME DoorTypeOK, SessionInv, [Next]_vars
  PROVE  SessionInv'
<1> USE DoorAssumption DEF DoorTypeOK, SessionInv, DoorAssumption, RelayStages,
   Sessions
<1>1. ASSUME NEW r \in Relays, Claim(r) PROVE SessionInv'
  BY <1>1 DEF Claim, claim
<1>2. ASSUME NEW r \in Relays, OpenCarries(r) PROVE SessionInv'
  BY <1>2 DEF OpenCarries, claim
<1>3. ASSUME NEW r \in Relays, BindDoor(r) PROVE SessionInv'
  BY <1>3 DEF BindDoor, claim
<1>4. ASSUME NEW r \in Relays, Serve(r) PROVE SessionInv'
  BY <1>4 DEF Serve, claim
<1>5. ASSUME NEW r \in Relays, CloseDoor(r) PROVE SessionInv'
  BY <1>5 DEF CloseDoor, Severed, claim
<1>6. ASSUME NEW r \in Relays, BindFails(r) PROVE SessionInv'
  BY <1>6 DEF BindFails, Severed, claim
<1>7. ASSUME NEW r \in Relays, Killed(r) PROVE SessionInv'
  BY <1>7 DEF Killed, Severed, claim
<1>8. ASSUME NEW r \in Relays, Close(r) PROVE SessionInv'
  BY <1>8 DEF Close, claim, Holds
<1>9. ASSUME NEW r \in Relays, Drop(r) PROVE SessionInv'
  BY <1>9 DEF Drop, claim
<1>10. ASSUME NEW p \in Publishers, Begin(p) PROVE SessionInv'
  BY <1>10 DEF Begin, Moves, claim
<1>11. ASSUME NEW p \in Publishers, Dial(p) PROVE SessionInv'
  <2>1. CASE Failed(p, 1)
    BY <1>11, <2>1 DEF Dial, Failed, Listens, Bound, claim
  <2>2. CASE Listens(door) /\ pub' = [pub EXCEPT ![p].at = "opening", ![p].to = door]
    BY <1>11, <2>2 DEF Dial, Failed, Listens, Bound, claim
  <2> QED
    BY <1>11, <2>1, <2>2 DEF Dial
<1>12. ASSUME NEW p \in Publishers, Hangs(p) PROVE SessionInv'
  BY <1>12 DEF Hangs, Failed, claim
<1>13. ASSUME NEW p \in Publishers, Busy(p) PROVE SessionInv'
  BY <1>13 DEF Busy, Failed, claim
<1>14. ASSUME NEW p \in Publishers, Refused(p) PROVE SessionInv'
  BY <1>14 DEF Refused, Moves, claim
<1>15. ASSUME NEW p \in Publishers, Hold(p) PROVE SessionInv'
  BY <1>15 DEF Hold, claim
<1>16. ASSUME NEW p \in Publishers, Cut(p) PROVE SessionInv'
  BY <1>16 DEF Cut, claim
<1>17. ASSUME NEW p \in Publishers, Lost(p) PROVE SessionInv'
  BY <1>17 DEF Lost, claim
<1>18. ASSUME NEW p \in Publishers, NEW r \in Relays, HoldLate(p, r)
      PROVE  SessionInv'
  BY <1>18 DEF HoldLate, claim
<1>19. CASE HostMoves
  BY <1>19 DEF HostMoves, claim
<1>20. ASSUME NEW x \in Crossings, Opens(x) \/ Reads(x) \/ HostAnswers(x) \/
             DialGivenUp(x) \/ PortDialled(x) \/ Expires(x) \/ Ends(x)
      PROVE  SessionInv'
  BY <1>20 DEF Opens, Reads, HostAnswers, Coupled, DialGivenUp, PortDialled,
     Expires, Ends, claim
<1>21. CASE UNCHANGED vars
  BY <1>21 DEF vars, claim
<1> QED
  BY <1>1, <1>2, <1>3, <1>4, <1>5, <1>6, <1>7, <1>8, <1>9, <1>10, <1>11, <1>12,
     <1>13, <1>14, <1>15, <1>16, <1>17, <1>18, <1>19, <1>20, <1>21 DEF Next,
     RelayStep, CrossingStep

(* The deadlines of an opening are taken off before bytes flow.             *)
LEMMA CrossingInvStep ==
  ASSUME DoorTypeOK, CrossingInv, [Next]_vars
  PROVE  CrossingInv'
<1> USE DEF DoorTypeOK, CrossingInv, CrossingStates
<1>1. ASSUME NEW r \in Relays, Claim(r) PROVE CrossingInv'
  BY <1>1 DEF Claim, claim
<1>2. ASSUME NEW r \in Relays, OpenCarries(r) PROVE CrossingInv'
  BY <1>2 DEF OpenCarries, claim
<1>3. ASSUME NEW r \in Relays, BindDoor(r) PROVE CrossingInv'
  BY <1>3 DEF BindDoor, claim
<1>4. ASSUME NEW r \in Relays, Serve(r) PROVE CrossingInv'
  BY <1>4 DEF Serve, claim
<1>5. ASSUME NEW r \in Relays, CloseDoor(r) PROVE CrossingInv'
  BY <1>5 DEF CloseDoor, Severed, claim
<1>6. ASSUME NEW r \in Relays, BindFails(r) PROVE CrossingInv'
  BY <1>6 DEF BindFails, Severed, claim
<1>7. ASSUME NEW r \in Relays, Killed(r) PROVE CrossingInv'
  BY <1>7 DEF Killed, Severed, claim
<1>8. ASSUME NEW r \in Relays, Close(r) PROVE CrossingInv'
  BY <1>8 DEF Close, claim
<1>9. ASSUME NEW r \in Relays, Drop(r) PROVE CrossingInv'
  BY <1>9 DEF Drop, claim
<1>10. ASSUME NEW p \in Publishers, Begin(p) \/ Dial(p) \/ Hangs(p) \/ Busy(p) \/
             Refused(p) \/ Hold(p) \/ Cut(p) \/ Lost(p)
      PROVE  CrossingInv'
  BY <1>10 DEF Begin, Moves, Dial, Failed, Listens, Bound, Hangs, Busy, Refused,
     Hold, Cut, Lost, claim
<1>11. ASSUME NEW p \in Publishers, NEW r \in Relays, HoldLate(p, r)
      PROVE  CrossingInv'
  BY <1>11 DEF HoldLate, claim
<1>12. CASE HostMoves
  BY <1>12 DEF HostMoves, claim
<1>13. ASSUME NEW x \in Crossings, Opens(x) PROVE CrossingInv'
  BY <1>13 DEF Opens, claim
<1>14. ASSUME NEW x \in Crossings, Reads(x) PROVE CrossingInv'
  BY <1>14 DEF Reads, claim
<1>15. ASSUME NEW x \in Crossings, HostAnswers(x) PROVE CrossingInv'
  BY <1>15, SMTT(30) DEF HostAnswers, Coupled, claim
<1>16. ASSUME NEW x \in Crossings, DialGivenUp(x) PROVE CrossingInv'
  BY <1>16 DEF DialGivenUp, claim
<1>17. ASSUME NEW x \in Crossings, PortDialled(x) PROVE CrossingInv'
  <2>1. CASE cross' = [cross EXCEPT ![x] = Coupled(@)]
    BY <1>17, <2>1 DEF PortDialled, Coupled, claim
  <2>2. CASE cross' = [cross EXCEPT ![x].at = "closed"]
    BY <1>17, <2>2 DEF PortDialled, Coupled, claim
  <2> QED
    BY <1>17, <2>1, <2>2 DEF PortDialled
<1>18. ASSUME NEW x \in Crossings, Expires(x) PROVE CrossingInv'
  BY <1>18 DEF Expires, claim
<1>19. ASSUME NEW x \in Crossings, Ends(x) PROVE CrossingInv'
  BY <1>19 DEF Ends, claim
<1>20. CASE UNCHANGED vars
  BY <1>20 DEF vars, claim
<1> QED
  BY <1>1, <1>2, <1>3, <1>4, <1>5, <1>6, <1>7, <1>8, <1>9, <1>10, <1>11, <1>12,
     <1>13, <1>14, <1>15, <1>16, <1>17, <1>18, <1>19, <1>20 DEF Next, RelayStep,
     CrossingStep

--------------------------------------------------------------------------------
(* Nobody has the door, the mount or the name to begin with.                *)
LEMMA InitIInv == Init => IInv
<1> SUFFICES ASSUME Init PROVE IInv
  OBVIOUS
<1>1. Fresh \in Sessions /\ NoCrossing \in CrossingStates
  BY DEF Fresh, NoCrossing, Sessions, CrossingStates
<1>2. DoorTypeOK
  BY <1>1, DoorAssumption DEF Init, DoorTypeOK, RelayStages
<1>3. ClaimInv /\ PathsInv
  BY DoorAssumption DEF Init, ClaimInv, PathsInv, DoorAssumption
<1>4. SessionInv
  BY DEF Init, SessionInv, Fresh
<1>5. CrossingInv
  BY DEF Init, CrossingInv, NoCrossing
<1> QED
  BY <1>2, <1>3, <1>4, <1>5 DEF IInv

LEMMA NextIInv == IInv /\ [Next]_vars => IInv'
BY DoorTypeOKStep, ClaimInvStep, PathsInvStep, SessionInvStep, CrossingInvStep
   DEF IInv

(* The inductive invariant of a door, for any number of relays, publishers    *)
(* and crossings, any waits and any faults.                                  *)
THEOREM Invariance == Spec => []IInv
BY InitIInv, NextIInv, PTL DEF Spec

--------------------------------------------------------------------------------
(* What the invariant gives.                                                *)

(* However many relays are aimed at a door, whichever bind fails and whoever*)
(* is killed between two of its steps, a relay that serves has the claim and*)
(* is the one that the door and the mount lead to, unless a closing relay   *)
(* has unlinked another's door (Relay.Open, Close).                         *)
THEOREM OneDoorOneRelay == Spec => []DoorIsTheClaimants
<1>1. IInv => DoorIsTheClaimants
  BY DEF IInv, ClaimInv, PathsInv, DoorIsTheClaimants
<1> QED
  BY Invariance, <1>1, PTL

(* A boot that finds the door's path finds the mount's too, if the relay the*)
(* door leads to still stands (Relay.Open binds the door last).             *)
THEOREM MountsFirst == Spec => []MountsStandFirst
<1>1. IInv => MountsStandFirst
  BY DEF IInv, PathsInv, MountsStandFirst
<1> QED
  BY Invariance, <1>1, PTL

(* Only an end that is through, both having ended, or the death of the relay  *)
(* stops bytes that flow: a deadline set for the header is off by then        *)
(* (egress.go, Relay.stream, publish.go carry).                              *)
THEOREM FlowsAreNotCut == Spec => NothingIsCut
<1> DEFINE Spared ==
      \A x \in Crossings :
          cross[x].at = "coupled" /\ cross'[x].at = "closed"
            => Cardinality(cross[x].flows) = 1 \/ relay'[cross[x].to] = "over"
<1>1. ASSUME IInv, [Next]_vars PROVE Spared
  <2> SUFFICES ASSUME NEW x \in Crossings, cross[x].at = "coupled", cross'[x].at = "closed"
               PROVE  Cardinality(cross[x].flows) = 1 \/ relay'[cross[x].to] = "over"
    OBVIOUS
  <2> USE <1>1 DEF IInv, DoorTypeOK, CrossingInv
  <2>1. ASSUME NEW r \in Relays, CloseDoor(r) \/ BindFails(r) \/ Killed(r)
        PROVE  relay'[cross[x].to] = "over"
    BY <2>1 DEF CloseDoor, BindFails, Killed, Severed
  <2>2. ASSUME Ends(x) PROVE Cardinality(cross[x].flows) = 1
    <3>1. PICK flow \in cross[x].flows : cross[x].flows = {flow}
      BY <2>2 DEF Ends
    <3> QED
      BY <3>1, FS_Singleton
  <2>3. ASSUME NEW y \in Crossings, y # x, Opens(y) \/ CrossingStep(y) \/ Ends(y)
        PROVE  FALSE
    BY <2>3 DEF Opens, CrossingStep, Reads, HostAnswers, DialGivenUp, PortDialled, Expires, Ends
  <2>4. ASSUME Opens(x) \/ CrossingStep(x) PROVE FALSE
    BY <2>4 DEF Opens, CrossingStep, Reads, HostAnswers, DialGivenUp, PortDialled, Expires
  <2>5. CASE UNCHANGED cross
    BY <2>5
  <2>6. ASSUME NEW r \in Relays,
               Claim(r) \/ OpenCarries(r) \/ BindDoor(r) \/ Serve(r) \/ Close(r) \/ Drop(r)
        PROVE  UNCHANGED cross
    BY <2>6 DEF Claim, OpenCarries, BindDoor, Serve, Close, Drop
  <2>7. ASSUME NEW p \in Publishers,
               \/ Begin(p) \/ Dial(p) \/ Hangs(p) \/ Busy(p) \/ Refused(p) \/ Hold(p) \/ Cut(p) \/ Lost(p)
               \/ \E r \in Relays : HoldLate(p, r)
        PROVE  UNCHANGED cross
    BY <2>7 DEF Begin, Dial, Hangs, Busy, Refused, Hold, Cut, Lost, HoldLate
  <2>8. HostMoves \/ UNCHANGED vars => UNCHANGED cross
    BY DEF HostMoves, vars
  <2> QED
    BY <2>1, <2>2, <2>3, <2>4, <2>5, <2>6, <2>7, <2>8 DEF Next, RelayStep
<1>2. IInv /\ [Next]_vars => [Spared]_vars
  BY <1>1
<1> QED
  BY Invariance, <1>2, PTL DEF Spec, NothingIsCut
================================================================================
