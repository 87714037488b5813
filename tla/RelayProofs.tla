----------------------------- MODULE RelayProofs -----------------------------
(***************************************************************************)
(* Theorems about a box's publications, for any number of crossings and    *)
(* names (Publication), and about the same relay with any number of        *)
(* clients and STREAM crossings at work (Streams): the clients' own        *)
(* invariants, and Publication's, which the composition keeps; and about a *)
(* host's scan of the registry directory meanwhile (RegistryScan).         *)
(***************************************************************************)
EXTENDS Streams, RegistryScan, FiniteSetTheorems, TLAPS

(***************************************************************************)
(* Publication.                                                            *)
(***************************************************************************)
(* The crossings that have yet to say what they are.                        *)
Undeclared == {c \in Crossings : stage[c] = "opening"}

SlotsInv == IsFiniteSet(Undeclared) /\ opening = Cardinality(Undeclared)

(* What the type of the count rests on, whatever else takes slots.          *)
SlotInHand == \A c \in Crossings : stage[c] = "opening" => opening # 0

(* c has files under its name, may yet make some, or has yet to remove them. *)
Active(c) ==
    \/ stage[c] \in Opening
    \/ closing[c] \in Closing
    \/ stage[c] \in Stood /\ closing[c] = "no"
    \/ c \in todo
    \/ at = c /\ closing[c] = "no"

(* Before its name is claimed a crossing is nobody's business.              *)
FreshInv ==
    \A c \in Crossings : stage[c] \in {"opening", "declared"} =>
        closing[c] = "no" /\ c \notin todo /\ at # c

NamedInv ==
    \A c \in Crossings :
        /\ stage[c] = "declared" => nameOf[c] \in Names
        /\ Active(c) => nameOf[c] \in Names

(* Only a relay that closes takes down what does not stand yet.             *)
UpInv ==
    relay = "up" =>
        /\ todo = {} /\ at = None
        /\ \A c \in Crossings :
              /\ stage[c] \in Opening => closing[c] = "no"
              /\ closing[c] \in Closing => stage[c] \in Stood

UniqueInv ==
    \A c, d \in Crossings : Active(c) /\ Active(d) /\ nameOf[c] = nameOf[d] => c = d

(* The table, both ways.                                                    *)
TableInv ==
    /\ \A n \in Names : published[n] # None =>
          /\ nameOf[published[n]] = n
          /\ stage[published[n]] \in Opening \cup Stood
          /\ closing[published[n]] # "done"
    /\ \A c \in Crossings :
          stage[c] \in Opening \cup Stood /\ closing[c] # "done" => published[nameOf[c]] = c

(* The socket files, both ways.                                             *)
Listens(c) ==
    \/ stage[c] \in {"listening", "described", "undoing"}
    \/ stage[c] \in Stood /\ closing[c] \in {"no", "shut"}

SocketInv ==
    /\ \A c \in Crossings : listening[c] <=> Listens(c)
    /\ \A c \in Crossings : listening[c] => sock[nameOf[c]] = c
    /\ \A n \in Names : sock[n] # None => listening[sock[n]] /\ nameOf[sock[n]] = n

(* The descriptor files, both ways.                                         *)
DescriptorInv ==
    /\ \A n \in Names : desc[n] # None =>
          /\ nameOf[desc[n]] = n
          /\ \/ stage[desc[n]] \in {"described", "undoing", "undescribing"}
             \/ stage[desc[n]] \in Stood /\ closing[desc[n]] \in {"no", "shut", "unlistened"}
    /\ \A c \in Crossings :
          stage[c] \in {"described"} \cup Stood /\ closing[c] = "no" => desc[nameOf[c]] = c

(* A crossing that leaves is taken down, and one that stands was not begun   *)
(* to be taken down before it stood.                                        *)
PubInv ==
    /\ TypeOK
    /\ FreshInv
    /\ NamedInv
    /\ UpInv
    /\ UniqueInv
    /\ TableInv
    /\ SocketInv
    /\ DescriptorInv

IInv == PubInv /\ SlotsInv

--------------------------------------------------------------------------------
(* Each part of the invariant is kept by every step.                        *)

(* A slot is given back by a crossing that has one, so the count stays natural.*)
LEMMA TypeOKStep == ASSUME TypeOK, SlotInHand, NamedInv, [Next]_pubVars PROVE
   TypeOK'
<1> USE PublicationAssumption DEF TypeOK, Stages, Opening, Stood, Closing
<1>1. ASSUME NEW c \in Crossings, Arrive(c) \/ TurnAway(c) PROVE TypeOK'
  BY <1>1 DEF Arrive, Dialled, Quiet, TurnAway
<1>2. ASSUME NEW c \in Crossings, HeaderBad(c) PROVE TypeOK'
  <2>1. opening \in Nat /\ opening # 0
    BY <1>2 DEF HeaderBad, SlotInHand
  <2> QED
    BY <1>2, <2>1 DEF HeaderBad
<1>3. ASSUME NEW c \in Crossings, NEW n \in Names, HeaderRead(c, n)
      PROVE  TypeOK'
  <2>1. opening \in Nat /\ opening # 0
    BY <1>3 DEF HeaderRead, SlotInHand
  <2> QED
    BY <1>3, <2>1 DEF HeaderRead
<1>4. ASSUME NEW c \in Crossings, HoldBusy(c) \/ HoldTaken(c) \/ HoldName(c)
      PROVE  TypeOK'
  BY <1>4 DEF HoldBusy, HoldRefused, HoldTaken, HoldName, TakeName
<1>5. ASSUME NEW c \in Crossings, ListenFails(c) \/ Describe(c) PROVE TypeOK'
  BY <1>5 DEF ListenFails, Describe
<1>6. ASSUME NEW c \in Crossings, Listen(c) PROVE TypeOK'
  BY <1>6 DEF Listen
<1>7. ASSUME NEW c \in Crossings, DescribeFails(c) PROVE TypeOK'
  BY <1>7 DEF DescribeFails, CloseListener
<1>8. ASSUME NEW c \in Crossings, Stand(c) \/ StandTooLate(c) \/ UndoListener(c)
                \/ UndoDescriptor(c) \/ GiveUp(c)
      PROVE  TypeOK'
  BY <1>8 DEF Stand, StandTooLate, UndoListener, CloseListener, UndoDescriptor,
     GiveUp, DropName
<1>9. ASSUME NEW c \in Crossings, Reply(c) \/ Lose(c) \/ Leave(c) \/
                AcceptFails(c)
      PROVE  TypeOK'
  BY <1>9 DEF Reply, Lose, Leave, AcceptFails
<1>10. ASSUME NEW c \in Crossings, Shut(c) \/ Unlisten(c) PROVE TypeOK'
  BY <1>10 DEF Shut, Unlisten, CloseListener
<1>11. ASSUME NEW c \in Crossings, Undescribe(c) \/ HangUp(c) \/ Drop(c)
      PROVE  TypeOK'
  BY <1>11 DEF Undescribe, HangUp, Drop, DropName
<1>12. CASE CloseRelay
  BY <1>12 DEF CloseRelay
<1>13. ASSUME NEW c \in Crossings, ClosePublication(c) PROVE TypeOK'
  BY <1>13 DEF ClosePublication, TurnDone
<1>14. CASE CloseDoor
  BY <1>14 DEF CloseDoor, TurnDone
<1>15. CASE UNCHANGED pubVars
  BY <1>15 DEF pubVars
<1> QED
  BY <1>1, <1>2, <1>3, <1>4, <1>5, <1>6, <1>7, <1>8, <1>9, <1>10, <1>11, <1>12,
     <1>13, <1>14, <1>15 DEF Next, Work, CloseStep, RelayCloseStep, Stopped

(* Only a crossing that gets a slot, or says what it is, moves the count: what *)
(* others hold of it stays theirs.                                           *)
LEMMA SlotsMove ==
    ASSUME TypeOK, IsFiniteSet(Undeclared), [Next]_pubVars
    PROVE  /\ IsFiniteSet(Undeclared') /\ opening' \in Int
           /\ opening' - Cardinality(Undeclared') = opening - Cardinality(Undeclared)
<1> DEFINE Goal == /\ IsFiniteSet(Undeclared') /\ opening' \in Int
                   /\ opening' - Cardinality(Undeclared') = opening - Cardinality(Undeclared)
           Same == Undeclared' = Undeclared /\ opening' = opening
<1>a. opening \in Nat /\ Cardinality(Undeclared) \in Nat
  BY FS_CardinalityType DEF TypeOK
<1>b. Same => Goal
  BY <1>a
<1> SUFFICES Goal
  OBVIOUS
<1>2. ASSUME NEW c \in Crossings, Arrive(c) PROVE Goal
  <2>1. Undeclared' = Undeclared \cup {c} /\ c \notin Undeclared
    BY <1>2 DEF Arrive, Dialled, Quiet, Undeclared, TypeOK
  <2>2. opening' = opening + 1
    BY <1>2 DEF Arrive
  <2>3. Cardinality(Undeclared') = Cardinality(Undeclared) + 1 /\ IsFiniteSet(Undeclared')
    BY <2>1, FS_AddElement
  <2> QED
    BY <1>a, <2>2, <2>3
<1>3. ASSUME NEW c \in Crossings, HeaderBad(c) \/ \E n \in Names : HeaderRead(c, n) PROVE Goal
  <2>1. Undeclared' = Undeclared \ {c} /\ c \in Undeclared
    BY <1>3 DEF HeaderBad, HeaderRead, Undeclared, TypeOK
  <2>2. opening' = opening - 1
    BY <1>3 DEF HeaderBad, HeaderRead
  <2>3. Cardinality(Undeclared') = Cardinality(Undeclared) - 1 /\ IsFiniteSet(Undeclared')
    BY <2>1, FS_RemoveElement
  <2> QED
    BY <1>a, <2>2, <2>3
<1> USE DEF TypeOK, Undeclared
<1>4. ASSUME NEW c \in Crossings, TurnAway(c) \/ HoldBusy(c) \/ HoldTaken(c) \/ HoldName(c) PROVE Same
  BY <1>4 DEF TurnAway, Dialled, Quiet, HoldBusy, HoldRefused, HoldTaken, HoldName, TakeName
<1>5. ASSUME NEW c \in Crossings,
             Listen(c) \/ ListenFails(c) \/ Describe(c) \/ DescribeFails(c) PROVE Same
  BY <1>5 DEF Listen, ListenFails, Describe, DescribeFails, CloseListener
<1>6. ASSUME NEW c \in Crossings, Stand(c) \/ StandTooLate(c) \/ UndoListener(c) \/
                UndoDescriptor(c) \/ GiveUp(c)
      PROVE  Same
  BY <1>6 DEF Stand, StandTooLate, UndoListener, CloseListener, UndoDescriptor, GiveUp
<1>7. ASSUME NEW c \in Crossings, Reply(c) \/ Lose(c) \/ Leave(c) \/ AcceptFails(c) PROVE Same
  BY <1>7 DEF Reply, Lose, Leave, AcceptFails
<1>8. ASSUME NEW c \in Crossings,
             Shut(c) \/ Unlisten(c) \/ Undescribe(c) \/ HangUp(c) \/ Drop(c) PROVE Same
  BY <1>8 DEF Shut, Unlisten, Undescribe, HangUp, Drop
<1>9. ASSUME \/ CloseRelay \/ CloseDoor \/ (\E c \in Crossings : ClosePublication(c))
             \/ UNCHANGED pubVars
      PROVE  Same
  BY <1>9 DEF CloseRelay, CloseDoor, ClosePublication, pubVars
<1> HIDE DEF Goal, Same, TypeOK, Undeclared
<1> QED
  BY <1>b, <1>2, <1>3, <1>4, <1>5, <1>6, <1>7, <1>8, <1>9 DEF
     Next, Work, CloseStep, RelayCloseStep, Stopped

LEMMA SlotsInvStep == ASSUME TypeOK, SlotsInv, [Next]_pubVars PROVE SlotsInv'
BY SlotsMove, FS_CardinalityType DEF SlotsInv, TypeOK

(* Close takes down registered publications only, and those are past hold.  *)
LEMMA FreshInvStep == ASSUME TypeOK, FreshInv, UpInv, TableInv, [Next]_pubVars
   PROVE FreshInv'
<1> USE PublicationAssumption DEF FreshInv, TypeOK, Stages, Opening, Stood,
   Closing
<1>1. ASSUME NEW c \in Crossings, Arrive(c) \/ TurnAway(c) \/ HeaderBad(c)
      PROVE  FreshInv'
  BY <1>1 DEF Arrive, Dialled, Quiet, TurnAway, HeaderBad
<1>2. ASSUME NEW c \in Crossings, NEW n \in Names, HeaderRead(c, n)
      PROVE  FreshInv'
  BY <1>2 DEF HeaderRead
<1>3. ASSUME NEW c \in Crossings, HoldBusy(c) \/ HoldTaken(c) \/ HoldName(c)
      PROVE  FreshInv'
  BY <1>3 DEF HoldBusy, HoldRefused, HoldTaken, HoldName, TakeName
<1>4. ASSUME NEW c \in Crossings, Listen(c) \/ ListenFails(c) \/ Describe(c) \/
                DescribeFails(c)
      PROVE  FreshInv'
  BY <1>4 DEF Listen, ListenFails, Describe, DescribeFails, CloseListener
<1>5. ASSUME NEW c \in Crossings, Stand(c) \/ StandTooLate(c) \/ UndoListener(c)
                \/ UndoDescriptor(c) \/ GiveUp(c)
      PROVE  FreshInv'
  BY <1>5 DEF Stand, StandTooLate, UndoListener, CloseListener, UndoDescriptor,
     GiveUp, DropName
<1>6. ASSUME NEW c \in Crossings, Reply(c) \/ Lose(c) \/ Leave(c) \/
                AcceptFails(c)
      PROVE  FreshInv'
  BY <1>6 DEF Reply, Lose, Leave, AcceptFails
<1>7. ASSUME NEW c \in Crossings, Shut(c) \/ Unlisten(c) PROVE FreshInv'
  BY <1>7 DEF Shut, Unlisten, CloseListener
<1>8. ASSUME NEW c \in Crossings, Undescribe(c) \/ HangUp(c) \/ Drop(c)
      PROVE  FreshInv'
  BY <1>8 DEF Undescribe, HangUp, Drop, DropName
<1>9. CASE CloseRelay
  <2>1. \A c \in todo' : stage[c] \in Opening \cup Stood
    BY <1>9 DEF CloseRelay, TableInv
  <2> QED
    BY <1>9, <2>1 DEF CloseRelay
<1>10. ASSUME NEW c \in Crossings, ClosePublication(c) PROVE FreshInv'
  BY <1>10 DEF ClosePublication, TurnDone
<1>11. CASE CloseDoor
  BY <1>11 DEF CloseDoor, TurnDone
<1>12. CASE UNCHANGED pubVars
  BY <1>12 DEF pubVars
<1> QED
  BY <1>1, <1>2, <1>3, <1>4, <1>5, <1>6, <1>7, <1>8, <1>9, <1>10, <1>11, <1>12
     DEF Next, Work, CloseStep, RelayCloseStep, Stopped

(* While the relay is up close is called by crossings that stand.           *)
LEMMA UpInvStep == ASSUME TypeOK, FreshInv, UpInv, [Next]_pubVars PROVE UpInv'
<1> USE PublicationAssumption DEF UpInv, TypeOK, Stages, Opening, Stood, Closing
<1>1. ASSUME NEW c \in Crossings, Arrive(c) \/ TurnAway(c) \/ HeaderBad(c)
      PROVE  UpInv'
  BY <1>1 DEF Arrive, Dialled, Quiet, TurnAway, HeaderBad
<1>2. ASSUME NEW c \in Crossings, NEW n \in Names, HeaderRead(c, n) PROVE UpInv'
  BY <1>2 DEF HeaderRead
<1>3. ASSUME NEW c \in Crossings, HoldBusy(c) \/ HoldTaken(c) PROVE UpInv'
  BY <1>3 DEF HoldBusy, HoldRefused, HoldTaken
<1>4. ASSUME NEW c \in Crossings, HoldName(c) PROVE UpInv'
  <2>1. closing[c] = "no"
    BY <1>4 DEF HoldName, TakeName, FreshInv
  <2> QED
    BY <1>4, <2>1 DEF HoldName, TakeName
<1>5. ASSUME NEW c \in Crossings, Listen(c) \/ ListenFails(c) \/ Describe(c) \/
                DescribeFails(c)
      PROVE  UpInv'
  BY <1>5 DEF Listen, ListenFails, Describe, DescribeFails, CloseListener
<1>6. ASSUME NEW c \in Crossings, Stand(c) \/ StandTooLate(c) \/ UndoListener(c)
                \/ UndoDescriptor(c) \/ GiveUp(c)
      PROVE  UpInv'
  BY <1>6 DEF Stand, StandTooLate, UndoListener, CloseListener, UndoDescriptor,
     GiveUp, DropName
<1>7. ASSUME NEW c \in Crossings, Reply(c) \/ Lose(c) \/ Leave(c) \/
                AcceptFails(c)
      PROVE  UpInv'
  BY <1>7 DEF Reply, Lose, Leave, AcceptFails
<1>8. ASSUME NEW c \in Crossings, Shut(c) \/ Unlisten(c) PROVE UpInv'
  BY <1>8 DEF Shut, Unlisten, CloseListener
<1>9. ASSUME NEW c \in Crossings, Undescribe(c) \/ HangUp(c) \/ Drop(c)
      PROVE  UpInv'
  BY <1>9 DEF Undescribe, HangUp, Drop, DropName
<1>10. CASE CloseRelay
  BY <1>10 DEF CloseRelay
<1>11. ASSUME NEW c \in Crossings, ClosePublication(c) PROVE UpInv'
  BY <1>11 DEF ClosePublication, TurnDone
<1>12. CASE CloseDoor
  BY <1>12 DEF CloseDoor, TurnDone
<1>13. CASE UNCHANGED pubVars
  BY <1>13 DEF pubVars
<1> QED
  BY <1>1, <1>2, <1>3, <1>4, <1>5, <1>6, <1>7, <1>8, <1>9, <1>10, <1>11, <1>12,
     <1>13 DEF Next, Work, CloseStep, RelayCloseStep, Stopped

(* A crossing is named before it is registered.                             *)
LEMMA NamedInvStep == ASSUME TypeOK, FreshInv, UpInv, TableInv, NamedInv,
   [Next]_pubVars PROVE NamedInv'
<1> USE PublicationAssumption DEF NamedInv, TypeOK, Stages, Opening, Stood,
   Closing, Active
<1>1. ASSUME NEW c \in Crossings, Arrive(c) \/ TurnAway(c) \/ HeaderBad(c)
      PROVE  NamedInv'
  BY <1>1 DEF Arrive, Dialled, Quiet, TurnAway, HeaderBad
<1>2. ASSUME NEW c \in Crossings, NEW n \in Names, HeaderRead(c, n)
      PROVE  NamedInv'
  BY <1>2 DEF HeaderRead
<1>3. ASSUME NEW c \in Crossings, HoldBusy(c) \/ HoldTaken(c) \/ HoldName(c)
      PROVE  NamedInv'
  BY <1>3 DEF HoldBusy, HoldRefused, HoldTaken, HoldName, TakeName
<1>4. ASSUME NEW c \in Crossings, Listen(c) \/ ListenFails(c) \/ Describe(c) \/
                DescribeFails(c)
      PROVE  NamedInv'
  BY <1>4 DEF Listen, ListenFails, Describe, DescribeFails, CloseListener
<1>5. ASSUME NEW c \in Crossings, Stand(c) \/ StandTooLate(c) \/ UndoListener(c)
                \/ UndoDescriptor(c) \/ GiveUp(c)
      PROVE  NamedInv'
  BY <1>5 DEF Stand, StandTooLate, UndoListener, CloseListener, UndoDescriptor,
     GiveUp, DropName
<1>6. ASSUME NEW c \in Crossings, Reply(c) \/ Lose(c) \/ Leave(c) \/
                AcceptFails(c)
      PROVE  NamedInv'
  BY <1>6 DEF Reply, Lose, Leave, AcceptFails
<1>7. ASSUME NEW c \in Crossings, Shut(c) \/ Unlisten(c) PROVE NamedInv'
  BY <1>7 DEF Shut, Unlisten, CloseListener
<1>8. ASSUME NEW c \in Crossings, Undescribe(c) \/ HangUp(c) \/ Drop(c)
      PROVE  NamedInv'
  BY <1>8 DEF Undescribe, HangUp, Drop, DropName
<1>9. CASE CloseRelay
  <2>1. \A c \in todo' : stage[c] \in Opening \cup Stood /\ nameOf[c] \in Names
    BY <1>9 DEF CloseRelay, TableInv
  <2> QED
    BY <1>9, <2>1 DEF CloseRelay
<1>10. ASSUME NEW c \in Crossings, ClosePublication(c) PROVE NamedInv'
  BY <1>10 DEF ClosePublication, TurnDone
<1>11. CASE CloseDoor
  BY <1>11 DEF CloseDoor, TurnDone
<1>12. CASE UNCHANGED pubVars
  BY <1>12 DEF pubVars
<1> QED
  BY <1>1, <1>2, <1>3, <1>4, <1>5, <1>6, <1>7, <1>8, <1>9, <1>10, <1>11, <1>12
     DEF Next, Work, CloseStep, RelayCloseStep, Stopped

(* hold lets a name go to one crossing, and drop frees it only when that one
   has no step left that touches its files.*)
LEMMA UniqueInvStep == ASSUME TypeOK, FreshInv, NamedInv, UpInv, TableInv,
   UniqueInv, [Next]_pubVars PROVE UniqueInv'
<1> USE PublicationAssumption DEF UniqueInv, TypeOK, Stages, Opening, Stood,
   Closing, Active
<1>1. ASSUME NEW c \in Crossings, Arrive(c) \/ TurnAway(c) \/ HeaderBad(c)
      PROVE  UniqueInv'
  BY <1>1 DEF Arrive, Dialled, Quiet, TurnAway, HeaderBad
<1>2. ASSUME NEW c \in Crossings, NEW n \in Names, HeaderRead(c, n)
      PROVE  UniqueInv'
  <2>1. \A d \in Crossings : Active(d)' <=> Active(d)
    BY <1>2 DEF HeaderRead
  <2>2. ~Active(c)
    BY <1>2 DEF HeaderRead, FreshInv
  <2>3. \A d \in Crossings : d # c => nameOf'[d] = nameOf[d]
    BY <1>2 DEF HeaderRead
  <2> HIDE DEF Active
  <2> QED
    BY <2>1, <2>2, <2>3
<1>3. ASSUME NEW c \in Crossings, HoldBusy(c) \/ HoldTaken(c) PROVE UniqueInv'
  BY <1>3 DEF HoldBusy, HoldRefused, HoldTaken
<1>4. ASSUME NEW c \in Crossings, HoldName(c) PROVE UniqueInv'
  <2>1. \A d \in Crossings : Active(d) => stage[d] \in Opening \cup Stood /\ closing[d] # "done"
    BY <1>4 DEF HoldName, TakeName, UpInv
  <2>2. \A d \in Crossings : Active(d) => nameOf[d] # nameOf[c]
    BY <1>4, <2>1 DEF HoldName, TakeName, TableInv
  <2>3. \A d \in Crossings : d # c => (Active(d)' <=> Active(d))
    BY <1>4 DEF HoldName, TakeName
  <2> QED
    BY <1>4, <2>2, <2>3 DEF HoldName, TakeName
<1>5. ASSUME NEW c \in Crossings, Listen(c) \/ ListenFails(c) \/ Describe(c) \/
                DescribeFails(c)
      PROVE  UniqueInv'
  BY <1>5 DEF Listen, ListenFails, Describe, DescribeFails, CloseListener
<1>6. ASSUME NEW c \in Crossings, Stand(c) \/ StandTooLate(c) \/ UndoListener(c)
                \/ UndoDescriptor(c) \/ GiveUp(c)
      PROVE  UniqueInv'
  BY <1>6 DEF Stand, StandTooLate, UndoListener, CloseListener, UndoDescriptor,
     GiveUp, DropName
<1>7. ASSUME NEW c \in Crossings, Reply(c) \/ Lose(c) \/ Leave(c) \/
                AcceptFails(c)
      PROVE  UniqueInv'
  BY <1>7 DEF Reply, Lose, Leave, AcceptFails
<1>8. ASSUME NEW c \in Crossings, Shut(c) \/ Unlisten(c) PROVE UniqueInv'
  BY <1>8 DEF Shut, Unlisten, CloseListener
<1>9. ASSUME NEW c \in Crossings, Undescribe(c) \/ HangUp(c) \/ Drop(c)
      PROVE  UniqueInv'
  BY <1>9 DEF Undescribe, HangUp, Drop, DropName
<1>10. CASE CloseRelay
  <2>1. \A d \in todo' : stage[d] \in Opening \cup Stood /\ closing[d] # "done"
    BY <1>10 DEF CloseRelay, TableInv
  <2>2. \A d \in Crossings : Active(d)' => Active(d)
    BY <1>10, <2>1 DEF CloseRelay
  <2>3. nameOf' = nameOf
    BY <1>10 DEF CloseRelay
  <2> HIDE DEF Active
  <2> QED
    BY <2>2, <2>3
<1>11. ASSUME NEW c \in Crossings, ClosePublication(c) PROVE UniqueInv'
  BY <1>11 DEF ClosePublication, TurnDone
<1>12. CASE CloseDoor
  BY <1>12 DEF CloseDoor, TurnDone
<1>13. CASE UNCHANGED pubVars
  BY <1>13 DEF pubVars
<1> QED
  BY <1>1, <1>2, <1>3, <1>4, <1>5, <1>6, <1>7, <1>8, <1>9, <1>10, <1>11, <1>12,
     <1>13 DEF Next, Work, CloseStep, RelayCloseStep, Stopped

(* hold and drop keep the table and the crossings in step.                  *)
LEMMA TableInvStep == ASSUME TypeOK, FreshInv, NamedInv, UpInv, TableInv,
   [Next]_pubVars PROVE TableInv'
<1> USE PublicationAssumption DEF TableInv, TypeOK, Stages, Opening, Stood,
   Closing
<1>1. ASSUME NEW c \in Crossings, Arrive(c) \/ TurnAway(c) \/ HeaderBad(c)
      PROVE  TableInv'
  BY <1>1 DEF Arrive, Dialled, Quiet, TurnAway, HeaderBad
<1>2. ASSUME NEW c \in Crossings, NEW n \in Names, HeaderRead(c, n)
      PROVE  TableInv'
  BY <1>2 DEF HeaderRead
<1>3. ASSUME NEW c \in Crossings, HoldBusy(c) \/ HoldTaken(c) PROVE TableInv'
  BY <1>3 DEF HoldBusy, HoldRefused, HoldTaken
<1>4. ASSUME NEW c \in Crossings, HoldName(c) PROVE TableInv'
  <2>1. nameOf[c] \in Names /\ closing[c] = "no"
    BY <1>4 DEF HoldName, TakeName, NamedInv, FreshInv
  <2>2. published' = [published EXCEPT ![nameOf[c]] = c] /\ nameOf' = nameOf
        /\ closing' = closing /\ stage' = [stage EXCEPT ![c] = "held"]
    BY <1>4 DEF HoldName, TakeName
  <2>3. \A d \in Crossings : d # c /\ stage[d] \in Opening \cup Stood /\ closing[d] # "done" =>
          nameOf[d] # nameOf[c]
    BY <1>4 DEF HoldName, TakeName
  <2> QED
    BY <2>1, <2>2, <2>3
<1>5. ASSUME NEW c \in Crossings, Listen(c) \/ ListenFails(c) \/ Describe(c) \/
                DescribeFails(c)
      PROVE  TableInv'
  BY <1>5 DEF Listen, ListenFails, Describe, DescribeFails, CloseListener
<1>6. ASSUME NEW c \in Crossings, Stand(c) \/ StandTooLate(c) \/
                UndoDescriptor(c)
      PROVE  TableInv'
  BY <1>6 DEF Stand, StandTooLate, UndoDescriptor
<1>7. ASSUME NEW c \in Crossings, UndoListener(c) PROVE TableInv'
  BY <1>7 DEF UndoListener, CloseListener
<1>8. ASSUME NEW c \in Crossings, GiveUp(c) PROVE TableInv'
  BY <1>8 DEF GiveUp, DropName
<1>9. ASSUME NEW c \in Crossings, Reply(c) \/ Lose(c) \/ Leave(c) \/
                AcceptFails(c)
      PROVE  TableInv'
  BY <1>9 DEF Reply, Lose, Leave, AcceptFails
<1>10. ASSUME NEW c \in Crossings, Shut(c) \/ Unlisten(c) PROVE TableInv'
  BY <1>10 DEF Shut, Unlisten, CloseListener
<1>11. ASSUME NEW c \in Crossings, Undescribe(c) \/ HangUp(c) PROVE TableInv'
  BY <1>11 DEF Undescribe, HangUp
<1>12. ASSUME NEW c \in Crossings, Drop(c) PROVE TableInv'
  BY <1>12 DEF Drop, DropName
<1>13. CASE CloseRelay
  BY <1>13 DEF CloseRelay
<1>14. ASSUME NEW c \in Crossings, ClosePublication(c) PROVE TableInv'
  BY <1>14 DEF ClosePublication, TurnDone
<1>15. CASE CloseDoor
  BY <1>15 DEF CloseDoor, TurnDone
<1>16. CASE UNCHANGED pubVars
  BY <1>16 DEF pubVars
<1> QED
  BY <1>1, <1>2, <1>3, <1>4, <1>5, <1>6, <1>7, <1>8, <1>9, <1>10, <1>11, <1>12,
     <1>13, <1>14, <1>15, <1>16 DEF Next, Work, CloseStep, RelayCloseStep,
     Stopped

(* Bind and unlink touch the path of a crossing that has it to itself.      *)
LEMMA SocketInvStep == ASSUME TypeOK, FreshInv, NamedInv, UniqueInv, SocketInv,
   [Next]_pubVars PROVE SocketInv'
<1> USE PublicationAssumption DEF SocketInv, TypeOK, Stages, Opening, Stood,
   Closing, Listens
<1>1. ASSUME NEW c \in Crossings, Arrive(c) \/ TurnAway(c) \/ HeaderBad(c)
      PROVE  SocketInv'
  BY <1>1 DEF Arrive, Dialled, Quiet, TurnAway, HeaderBad
<1>2. ASSUME NEW c \in Crossings, NEW n \in Names, HeaderRead(c, n)
      PROVE  SocketInv'
  BY <1>2 DEF HeaderRead
<1>3. ASSUME NEW c \in Crossings, HoldBusy(c) \/ HoldTaken(c) \/ HoldName(c)
      PROVE  SocketInv'
  BY <1>3 DEF HoldBusy, HoldRefused, HoldTaken, HoldName, TakeName
<1>4. ASSUME NEW c \in Crossings, Describe(c) PROVE SocketInv'
  BY <1>4 DEF Describe
<1>5. ASSUME NEW c \in Crossings, DescribeFails(c) PROVE SocketInv'
  BY <1>5 DEF DescribeFails, CloseListener
<1>6. ASSUME NEW c \in Crossings, Listen(c) PROVE SocketInv'
  <2>1. \A d \in Crossings : listening[d] /\ d # c => nameOf[d] # nameOf[c]
    BY <1>6 DEF Listen, UniqueInv, Active, Listens
  <2>2. nameOf[c] \in Names
    BY <1>6 DEF Listen, NamedInv, Active
  <2> QED
    BY <1>6, <2>1, <2>2 DEF Listen, Listens
<1>7. ASSUME NEW c \in Crossings, ListenFails(c) PROVE SocketInv'
  <2>1. \A d \in Crossings : listening[d] /\ d # c => nameOf[d] # nameOf[c]
    BY <1>7 DEF ListenFails, UniqueInv, Active, Listens
  <2>2. nameOf[c] \in Names
    BY <1>7 DEF ListenFails, NamedInv, Active
  <2> QED
    BY <1>7, <2>1, <2>2 DEF ListenFails, Listens
<1>8. ASSUME NEW c \in Crossings, Stand(c) \/ StandTooLate(c) \/
                UndoDescriptor(c)
      PROVE  SocketInv'
  BY <1>8 DEF Stand, StandTooLate, UndoDescriptor
<1>9. ASSUME NEW c \in Crossings, UndoListener(c) PROVE SocketInv'
  BY <1>9 DEF UndoListener, CloseListener
<1>10. ASSUME NEW c \in Crossings, GiveUp(c) PROVE SocketInv'
  BY <1>10 DEF GiveUp, DropName
<1>11. ASSUME NEW c \in Crossings, Reply(c) \/ Lose(c) \/ Leave(c) \/
                AcceptFails(c)
      PROVE  SocketInv'
  BY <1>11 DEF Reply, Lose, Leave, AcceptFails
<1>12. ASSUME NEW c \in Crossings, Shut(c) PROVE SocketInv'
  BY <1>12 DEF Shut
<1>13. ASSUME NEW c \in Crossings, Unlisten(c) PROVE SocketInv'
  <2>1. \A d \in Crossings : listening[d] /\ d # c => nameOf[d] # nameOf[c]
    BY <1>13 DEF Unlisten, UniqueInv, Active, Listens
  <2>2. nameOf[c] \in Names
    BY <1>13 DEF Unlisten, NamedInv, Active
  <2>3. \A d \in Crossings : d # c => (Listens(d)' <=> Listens(d))
    BY <1>13 DEF Unlisten
  <2>4. CASE stage[c] \in Stood
    <3>1. listening' = [listening EXCEPT ![c] = FALSE] /\ sock' = [sock EXCEPT ![nameOf[c]] = None]
      BY <1>13, <2>4 DEF Unlisten, CloseListener
    <3>2. ~Listens(c)'
      BY <1>13, <2>4 DEF Unlisten
    <3>3. nameOf' = nameOf
      BY <1>13 DEF Unlisten
    <3>4. \A d \in Crossings : listening'[d] <=> Listens(d)'
      BY <2>3, <3>1, <3>2
    <3>5. \A d \in Crossings : listening'[d] => sock'[nameOf'[d]] = d
      BY <2>1, <2>2, <3>1, <3>3
    <3>6. \A n \in Names : sock'[n] # None => listening'[sock'[n]] /\ nameOf'[sock'[n]] = n
      BY <2>1, <2>2, <3>1, <3>3
    <3> QED
      BY <3>4, <3>5, <3>6
  <2>5. CASE stage[c] \notin Stood
    BY <1>13, <2>3, <2>5 DEF Unlisten, UniqueInv
  <2> QED
    BY <2>4, <2>5
<1>14. ASSUME NEW c \in Crossings, Undescribe(c) \/ HangUp(c) \/ Drop(c)
      PROVE  SocketInv'
  BY <1>14 DEF Undescribe, HangUp, Drop, DropName
<1>15. CASE CloseRelay
  BY <1>15 DEF CloseRelay
<1>16. ASSUME NEW c \in Crossings, ClosePublication(c) PROVE SocketInv'
  BY <1>16 DEF ClosePublication, TurnDone
<1>17. CASE CloseDoor
  BY <1>17 DEF CloseDoor, TurnDone
<1>18. CASE UNCHANGED pubVars
  BY <1>18 DEF pubVars
<1> QED
  BY <1>1, <1>2, <1>3, <1>4, <1>5, <1>6, <1>7, <1>8, <1>9, <1>10, <1>11, <1>12,
     <1>13, <1>14, <1>15, <1>16, <1>17, <1>18 DEF Next, Work, CloseStep,
     RelayCloseStep, Stopped

(* So do the rename and the removal of a descriptor.                        *)
LEMMA DescriptorInvStep == ASSUME TypeOK, FreshInv, NamedInv, UniqueInv,
   DescriptorInv, [Next]_pubVars PROVE DescriptorInv'
<1> USE PublicationAssumption DEF DescriptorInv, TypeOK, Stages, Opening, Stood,
   Closing
<1>1. ASSUME NEW c \in Crossings, Arrive(c) \/ TurnAway(c) \/ HeaderBad(c)
      PROVE  DescriptorInv'
  BY <1>1 DEF Arrive, Dialled, Quiet, TurnAway, HeaderBad
<1>2. ASSUME NEW c \in Crossings, NEW n \in Names, HeaderRead(c, n)
      PROVE  DescriptorInv'
  BY <1>2 DEF HeaderRead
<1>3. ASSUME NEW c \in Crossings, HoldBusy(c) \/ HoldTaken(c) \/ HoldName(c)
      PROVE  DescriptorInv'
  BY <1>3 DEF HoldBusy, HoldRefused, HoldTaken, HoldName, TakeName
<1>4. ASSUME NEW c \in Crossings, Listen(c) \/ ListenFails(c) \/
                DescribeFails(c)
      PROVE  DescriptorInv'
  BY <1>4 DEF Listen, ListenFails, DescribeFails, CloseListener
<1>5. ASSUME NEW c \in Crossings, Describe(c) PROVE DescriptorInv'
  <2>1. \A n \in Names : desc[n] # None => Active(desc[n])
    BY DEF Active
  <2>2. \A d \in Crossings : stage[d] \in {"described"} \cup Stood /\ closing[d] = "no" => Active(d)
    BY DEF Active
  <2>3. nameOf[c] \in Names /\ Active(c)
    BY <1>5 DEF Describe, NamedInv, Active
  <2>4. \A d \in Crossings : Active(d) /\ d # c => nameOf[d] # nameOf[c]
    BY <2>3 DEF UniqueInv
  <2> QED
    BY <1>5, <2>1, <2>2, <2>3, <2>4 DEF Describe
<1>6. ASSUME NEW c \in Crossings, Stand(c) \/ StandTooLate(c) \/ UndoListener(c)
                \/ GiveUp(c)
      PROVE  DescriptorInv'
  BY <1>6 DEF Stand, StandTooLate, UndoListener, CloseListener, GiveUp, DropName
<1>7. ASSUME NEW c \in Crossings, UndoDescriptor(c) PROVE DescriptorInv'
  <2>1. \A n \in Names : desc[n] # None => Active(desc[n])
    BY DEF Active
  <2>2. \A d \in Crossings : stage[d] \in {"described"} \cup Stood /\ closing[d] = "no" => Active(d)
    BY DEF Active
  <2>3. nameOf[c] \in Names /\ Active(c)
    BY <1>7 DEF UndoDescriptor, NamedInv, Active
  <2>4. \A d \in Crossings : Active(d) /\ d # c => nameOf[d] # nameOf[c]
    BY <2>3 DEF UniqueInv
  <2> QED
    BY <1>7, <2>1, <2>2, <2>3, <2>4 DEF UndoDescriptor
<1>8. ASSUME NEW c \in Crossings, Reply(c) \/ Lose(c) \/ Leave(c) \/
                AcceptFails(c)
      PROVE  DescriptorInv'
  BY <1>8 DEF Reply, Lose, Leave, AcceptFails
<1>9. ASSUME NEW c \in Crossings, Shut(c) \/ Unlisten(c) PROVE DescriptorInv'
  BY <1>9 DEF Shut, Unlisten, CloseListener
<1>10. ASSUME NEW c \in Crossings, HangUp(c) \/ Drop(c) PROVE DescriptorInv'
  BY <1>10 DEF HangUp, Drop, DropName
<1>11. ASSUME NEW c \in Crossings, Undescribe(c) PROVE DescriptorInv'
  <2>1. \A n \in Names : desc[n] # None => Active(desc[n])
    BY DEF Active
  <2>2. \A d \in Crossings : stage[d] \in {"described"} \cup Stood /\ closing[d] = "no" => Active(d)
    BY DEF Active
  <2>3. nameOf[c] \in Names /\ Active(c)
    BY <1>11 DEF Undescribe, NamedInv, Active
  <2>4. \A d \in Crossings : Active(d) /\ d # c => nameOf[d] # nameOf[c]
    BY <2>3 DEF UniqueInv
  <2> QED
    BY <1>11, <2>1, <2>2, <2>3, <2>4 DEF Undescribe
<1>12. CASE CloseRelay
  BY <1>12 DEF CloseRelay
<1>13. ASSUME NEW c \in Crossings, ClosePublication(c) PROVE DescriptorInv'
  BY <1>13 DEF ClosePublication, TurnDone
<1>14. CASE CloseDoor
  BY <1>14 DEF CloseDoor, TurnDone
<1>15. CASE UNCHANGED pubVars
  BY <1>15 DEF pubVars
<1> QED
  BY <1>1, <1>2, <1>3, <1>4, <1>5, <1>6, <1>7, <1>8, <1>9, <1>10, <1>11, <1>12,
     <1>13, <1>14, <1>15 DEF Next, Work, CloseStep, RelayCloseStep, Stopped

--------------------------------------------------------------------------------
(* The initial state satisfies the invariant: nothing is registered and no  *)
(* slot is in use.                                                          *)
LEMMA InitIInv == Init => IInv
<1> SUFFICES ASSUME Init PROVE IInv
  OBVIOUS
<1> USE PublicationAssumption DEF Init
<1>1. Undeclared = {}
  BY DEF Undeclared
<1>2. SlotsInv
  BY <1>1, FS_EmptySet DEF SlotsInv
<1>3. TypeOK
  BY DEF TypeOK, Stages
<1>4. FreshInv /\ NamedInv /\ UpInv /\ UniqueInv
  BY DEF FreshInv, NamedInv, UpInv, UniqueInv, Active, Opening, Stood, Closing
<1>5. TableInv /\ SocketInv /\ DescriptorInv
  BY DEF TableInv, SocketInv, DescriptorInv, Listens, Opening, Stood
<1> QED
  BY <1>2, <1>3, <1>4, <1>5 DEF IInv, PubInv

(* Every step keeps the whole invariant.                                    *)
LEMMA PubInvStep == ASSUME PubInv, SlotInHand, [Next]_pubVars PROVE PubInv'
BY TypeOKStep, FreshInvStep, UpInvStep, NamedInvStep, UniqueInvStep,
   TableInvStep, SocketInvStep, DescriptorInvStep DEF PubInv

LEMMA NextIInv == IInv /\ [Next]_pubVars => IInv'
<1>1. IInv => SlotInHand
  <2> SUFFICES ASSUME IInv, NEW c \in Crossings, stage[c] = "opening" PROVE opening # 0
    BY DEF SlotInHand
  <2>1. c \in Undeclared
    BY DEF Undeclared
  <2> QED
    BY <2>1, FS_EmptySet DEF IInv, SlotsInv
<1> QED
  BY <1>1, PubInvStep, SlotsInvStep DEF IInv, PubInv

(* The inductive invariant of the relay, for any number of crossings, names, *)
(* publications and slots.                                                   *)
THEOREM Invariance == Spec => []IInv
BY InitIInv, NextIInv, PTL DEF Spec

LEMMA PubInvariance == Spec => []PubInv
<1>1. IInv => PubInv
  BY DEF IInv
<1> QED
  BY Invariance, <1>1, PTL

--------------------------------------------------------------------------------
(* What the invariant gives.                                                *)

(* What the invariant gives at once, whoever's steps keep it.               *)
LEMMA PubInvGives ==
    ASSUME PubInv
    PROVE  ListenerKeepsItsPath /\ HeldIsPublished /\ ClosedLeavesNothing
<1>1. ListenerKeepsItsPath
  BY DEF PubInv, SocketInv, ListenerKeepsItsPath
<1>3. HeldIsPublished
  BY DEF PubInv, TableInv, SocketInv, DescriptorInv, Listens, Stood, HeldIsPublished
<1>4. ClosedLeavesNothing
  <2> SUFFICES ASSUME \A c \in Crossings : Quiet(c), NEW c \in Crossings
               PROVE  Gone(c) /\ ~listening[c]
    BY DEF ClosedLeavesNothing
  <2>1. \A d \in Crossings : stage[d] = "none"
    BY DEF Quiet
  <2>2. \A d \in Crossings : ~listening[d]
    BY <2>1 DEF PubInv, SocketInv, Listens, Stood
  <2>3. \A n \in Names : published[n] # c
    BY <2>1, PublicationAssumption DEF PubInv, TableInv, TypeOK, Opening, Stood
  <2>4. \A n \in Names : sock[n] # c
    BY <2>2, PublicationAssumption DEF PubInv, SocketInv
  <2>5. \A n \in Names : desc[n] # c
    BY <2>1, PublicationAssumption DEF PubInv, DescriptorInv, Stood
  <2> QED
    BY <2>2, <2>3, <2>4, <2>5 DEF Gone
<1> QED
  BY <1>1, <1>3, <1>4

(* The relay's variables keep their types; in particular no crossing gives   *)
(* back an opening slot it does not have (Relay.cross).                      *)
THEOREM TypeCorrect == Spec => []TypeOK
<1>1. PubInv => TypeOK
  BY DEF PubInv
<1> QED
  BY PubInvariance, <1>1, PTL

(* The slots in use are the crossings reading their opening line.           *)
THEOREM SlotsCorrect == Spec => []SlotsAccounted
<1>1. IInv => SlotsAccounted
  BY DEF IInv, SlotsInv, SlotsAccounted, Undeclared
<1> QED
  BY Invariance, <1>1, PTL

(* No listener is ever cut off from its path by another publication's bind   *)
(* or unlink (publication.open, close).                                      *)
THEOREM PathsKept == Spec => []ListenerKeepsItsPath
<1>1. PubInv => ListenerKeepsItsPath
  BY PubInvGives
<1> QED
  BY PubInvariance, <1>1, PTL

(* A publication that stands, and that nobody closes, has all three of its   *)
(* entries: the name, the socket, the descriptor.                            *)
THEOREM HeldPublished == Spec => []HeldIsPublished
<1>1. PubInv => HeldIsPublished
  BY PubInvGives
<1> QED
  BY PubInvariance, <1>1, PTL

(* A relay that is through, its goroutines ended, leaves nothing behind.    *)
THEOREM NothingLeft == Spec => []ClosedLeavesNothing
<1>1. PubInv => ClosedLeavesNothing
  BY PubInvGives
<1> QED
  BY PubInvariance, <1>1, PTL

--------------------------------------------------------------------------------
(* What one box may make the host hold open, for any number of crossings and *)
(* names: hold counts names, and the listeners never outnumber them.          *)

(* The publications that may have a listener, in the table or not any more.  *)
Standing ==
    {c \in Crossings : stage[c] \in Opening \/ (stage[c] \in Stood /\ closing[c] # "done")}

LimitInv == IsFiniteSet(Standing) /\ Cardinality(Standing) <= MaxPublications

(* While the relay is up each publication that stands has a name of its own. *)
LEMMA StandingAreNamed ==
    ASSUME PubInv, relay = "up"
    PROVE  /\ IsFiniteSet(Standing) /\ IsFiniteSet(TakenNames)
           /\ Cardinality(Standing) <= Cardinality(TakenNames)
<1> DEFINE f == [c \in Standing |-> nameOf[c]]
<1>1. ASSUME NEW c \in Standing PROVE nameOf[c] \in Names /\ published[nameOf[c]] = c
  <2>1. closing[c] # "done" /\ stage[c] \in Opening \cup Stood /\ c \in Crossings
    BY DEF PubInv, UpInv, Standing
  <2>2. Active(c)
    BY <2>1 DEF Active, PubInv, TypeOK, Closing
  <2> QED
    BY <2>1, <2>2 DEF PubInv, TableInv, NamedInv
<1>2. \A c \in Standing : nameOf[c] \in TakenNames
  BY <1>1, PublicationAssumption DEF TakenNames, Standing
<1>3. f \in Injection(Standing, TakenNames)
  BY <1>1, <1>2 DEF Injection, IsInjective
<1>4. IsFiniteSet(TakenNames)
  BY PublicationAssumption, FS_Subset DEF TakenNames
<1> QED
  BY <1>3, <1>4, FS_Injection

(* Only hold adds to them.                                                  *)
LEMMA OnlyHoldAdds ==
    ASSUME PubInv, [Next]_pubVars, \A c \in Crossings : ~HoldName(c)
    PROVE  Standing' \subseteq Standing
<1> SUFFICES ASSUME NEW d \in Crossings, d \in Standing' PROVE d \in Standing
  BY DEF Standing
<1> USE DEF Standing, Opening, Stood, Closing, PubInv, TypeOK
<1>1. ASSUME NEW c \in Crossings,
             \/ Arrive(c) \/ TurnAway(c) \/ HeaderBad(c) \/ (\E n \in Names : HeaderRead(c, n))
             \/ HoldBusy(c) \/ HoldTaken(c)
      PROVE  d \in Standing
  BY <1>1 DEF Arrive, TurnAway, Dialled, Quiet, HeaderBad, HeaderRead, HoldBusy, HoldTaken,
              HoldRefused
<1>2. ASSUME NEW c \in Crossings,
             \/ Listen(c) \/ ListenFails(c) \/ Describe(c) \/ DescribeFails(c)
      PROVE  d \in Standing
  BY <1>2 DEF Listen, ListenFails, Describe, DescribeFails, CloseListener
<1>3. ASSUME NEW c \in Crossings,
             \/ Stand(c) \/ StandTooLate(c) \/ UndoListener(c) \/ UndoDescriptor(c) \/ GiveUp(c)
      PROVE  d \in Standing
  BY <1>3 DEF Stand, StandTooLate, UndoListener, UndoDescriptor, GiveUp, CloseListener
<1>4. ASSUME NEW c \in Crossings, Reply(c) \/ Lose(c) \/ Leave(c) \/ AcceptFails(c)
      PROVE  d \in Standing
  BY <1>4 DEF Reply, Lose, Leave, AcceptFails
<1>5. ASSUME NEW c \in Crossings, Shut(c) \/ Unlisten(c) \/ Undescribe(c) \/ HangUp(c) \/ Drop(c)
      PROVE  d \in Standing
  BY <1>5 DEF Shut, Unlisten, Undescribe, HangUp, Drop
<1>6. CASE CloseRelay \/ CloseDoor \/ (\E c \in Crossings : ClosePublication(c)) \/ UNCHANGED pubVars
  BY <1>6 DEF CloseRelay, CloseDoor, ClosePublication, pubVars
<1> QED
  BY <1>1, <1>2, <1>3, <1>4, <1>5, <1>6 DEF Next, Work, CloseStep, RelayCloseStep, Stopped

LEMMA LimitInvStep == PubInv /\ LimitInv /\ [Next]_pubVars => LimitInv'
<1> SUFFICES ASSUME PubInv, LimitInv, [Next]_pubVars PROVE LimitInv'
  OBVIOUS
<1>1. ASSUME NEW c \in Crossings, HoldName(c) PROVE LimitInv'
  <2>1. c \notin Standing /\ Standing' = Standing \cup {c}
    BY <1>1 DEF HoldName, TakeName, Standing, Opening, Stood, PubInv, TypeOK, FreshInv
  <2>2. /\ Cardinality(Standing) <= Cardinality(TakenNames)
        /\ Cardinality(TakenNames) < MaxPublications
        /\ Cardinality(TakenNames) \in Nat
    BY <1>1, StandingAreNamed, FS_CardinalityType DEF HoldName, TakeName
  <2>3. Cardinality(Standing) \in Nat
    BY FS_CardinalityType DEF LimitInv
  <2>4. IsFiniteSet(Standing') /\ Cardinality(Standing') = Cardinality(Standing) + 1
    BY <2>1, FS_AddElement DEF LimitInv
  <2>5. MaxPublications \in Nat
    BY PublicationAssumption
  <2> QED
    BY <2>2, <2>3, <2>4, <2>5 DEF LimitInv
<1>2. CASE \A c \in Crossings : ~HoldName(c)
  <2>1. Standing' \subseteq Standing
    BY <1>2, OnlyHoldAdds
  <2> QED
    BY <2>1, FS_Subset, FS_CardinalityType, PublicationAssumption DEF LimitInv
<1> QED
  BY <1>1, <1>2

LEMMA InitLimitInv == Init => LimitInv
<1>1. Init => Standing = {}
  BY DEF Init, Standing, Opening, Stood
<1> QED
  BY <1>1, FS_EmptySet, PublicationAssumption DEF LimitInv

LEMMA LimitInvGives ==
    ASSUME PubInv, LimitInv
    PROVE  ListenersBounded
<1>1. {c \in Crossings : listening[c]} \subseteq Standing
  BY DEF PubInv, SocketInv, Listens, Standing, Opening
<1> QED
  BY <1>1, FS_Subset, FS_CardinalityType, PublicationAssumption DEF LimitInv, ListenersBounded

(* Every listener belongs to a publication that stands, so the listeners a   *)
(* box may have open are bounded by the publications one door carries, also  *)
(* while Close takes names away that still have listeners (hold, Close).     *)
THEOREM ListenersLimited == Spec => []ListenersBounded
<1>1. PubInv /\ LimitInv => ListenersBounded
  BY LimitInvGives
<1> QED
  BY PubInvariance, InitLimitInv, <1>1, LimitInvStep, PTL DEF Spec

--------------------------------------------------------------------------------
(* The relay implements what ServiceRegistry promises: under the mapping of   *)
(* Publication's Registry instance, every step of the relay is a step of the   *)
(* registry or leaves all that a host can see as it was.                      *)

Rising == {"held", "listening"}

(* c is as far from appearing as it was, and under the same name.           *)
RisesAsBefore(c) ==
    /\ stage'[c] \in Rising <=> stage[c] \in Rising
    /\ stage[c] \in Rising => nameOf'[c] = nameOf[c]

(* Same table, same sight, same publications still to appear.               *)
LEMMA SameVisible ==
    ASSUME UNCHANGED <<sock, desc>>
    PROVE  Visible' = Visible
BY DEF Visible

LEMMA SameLate ==
    ASSUME UNCHANGED relay,
           \A c \in Crossings : RisesAsBefore(c)
    PROVE  Late' = Late
<1>2. Late' \subseteq Late
  BY DEF Late, Rising, RisesAsBefore
<1>3. Late \subseteq Late'
  BY DEF Late, Rising, RisesAsBefore
<1> QED
  BY <1>2, <1>3

(* c rises no more, or has risen.                                           *)
LEMMA LessLate ==
    ASSUME UNCHANGED <<relay, nameOf>>, NEW c \in Crossings,
           stage[c] \in Rising, stage'[c] \notin Rising,
           \A d \in Crossings : d # c => stage'[d] = stage[d]
    PROVE  /\ Late' = Late \ {<<nameOf[c], c>>}
           /\ IF relay = "up" THEN Late = {} ELSE <<nameOf[c], c>> \in Late
<1>1. Late' \subseteq Late \ {<<nameOf[c], c>>}
  BY DEF Late, Rising
<1>2. Late \ {<<nameOf[c], c>>} \subseteq Late'
  BY DEF Late, Rising
<1>3. IF relay = "up" THEN Late = {} ELSE <<nameOf[c], c>> \in Late
  BY DEF Late, Rising
<1> QED
  BY <1>1, <1>2, <1>3

(* The steps that change neither the table nor a file.                      *)
LEMMA QuietSteps ==
    ASSUME PubInv, NEW c \in Crossings,
           \/ Arrive(c) \/ TurnAway(c) \/ HeaderBad(c) \/ (\E n \in Names : HeaderRead(c, n))
           \/ HoldBusy(c) \/ HoldTaken(c) \/ Stand(c) \/ StandTooLate(c)
           \/ Reply(c) \/ Lose(c) \/ Leave(c) \/ AcceptFails(c) \/ Shut(c) \/ HangUp(c)
    PROVE  UNCHANGED Registry!vars
<1>1. UNCHANGED <<published, sock, desc, relay>>
  BY DEF Arrive, TurnAway, HeaderBad, HeaderRead, HoldBusy, HoldTaken, HoldRefused, Stand,
         StandTooLate, Reply, Lose, Leave, AcceptFails, Shut, HangUp
<1>2. \A d \in Crossings : RisesAsBefore(d)
  <2> USE DEF PubInv, TypeOK, Rising, RisesAsBefore
  <2>1. CASE Arrive(c) \/ TurnAway(c)
    BY <2>1 DEF Arrive, TurnAway, Dialled, Quiet
  <2>2. CASE HeaderBad(c)
    BY <2>2 DEF HeaderBad
  <2>3. CASE \E n \in Names : HeaderRead(c, n)
    BY <2>3 DEF HeaderRead
  <2>4. CASE HoldBusy(c) \/ HoldTaken(c)
    BY <2>4 DEF HoldBusy, HoldTaken, HoldRefused
  <2>5. CASE Stand(c) \/ StandTooLate(c) \/ Reply(c) \/ Lose(c) \/ Leave(c)
    BY <2>5 DEF Stand, StandTooLate, Reply, Lose, Leave
  <2>6. CASE AcceptFails(c) \/ Shut(c) \/ HangUp(c)
    BY <2>6 DEF AcceptFails, Shut, HangUp
  <2> QED
    BY <2>1, <2>2, <2>3, <2>4, <2>5, <2>6
<1> QED
  BY <1>1, <1>2, SameVisible, SameLate DEF Registry!vars

--------------------------------------------------------------------------------
(* The steps that change something, each as the registry's step it is.      *)

(* A crossing whose publication is being made or taken down finds nobody     *)
(* else's files under its name.                                              *)
LEMMA OwnFiles ==
    ASSUME PubInv, NEW c \in Crossings, Active(c)
    PROVE  /\ nameOf[c] \in Names
           /\ sock[nameOf[c]] \in {c, None}
           /\ desc[nameOf[c]] \in {c, None}
<1>1. nameOf[c] \in Names
  BY DEF PubInv, NamedInv
<1>2. ASSUME sock[nameOf[c]] # None PROVE sock[nameOf[c]] = c
  <2>1. sock[nameOf[c]] \in Crossings
    BY <1>1, <1>2 DEF PubInv, TypeOK
  <2>2. Listens(sock[nameOf[c]]) /\ nameOf[sock[nameOf[c]]] = nameOf[c]
    BY <1>1, <1>2, <2>1 DEF PubInv, SocketInv
  <2>3. Active(sock[nameOf[c]])
    BY <2>2 DEF Listens, Active, Opening, Closing
  <2> QED
    BY <2>1, <2>2, <2>3 DEF PubInv, UniqueInv
<1>3. ASSUME desc[nameOf[c]] # None PROVE desc[nameOf[c]] = c
  <2>1. desc[nameOf[c]] \in Crossings
    BY <1>1, <1>3 DEF PubInv, TypeOK
  <2>2. nameOf[desc[nameOf[c]]] = nameOf[c] /\ Active(desc[nameOf[c]])
    BY <1>1, <1>3, <2>1 DEF PubInv, DescriptorInv, Active, Opening, Stood, Closing
  <2> QED
    BY <2>1, <2>2 DEF PubInv, UniqueInv
<1> QED
  BY <1>1, <1>2, <1>3

(* hold gives a free name to a crossing that has none.                      *)
LEMMA HoldRegisters ==
    ASSUME PubInv, NEW c \in Crossings, HoldName(c)
    PROVE  Registry!Register(nameOf[c], c) /\ nameOf[c] \in Names
<1>1. nameOf[c] \in Names
  BY DEF HoldName, TakeName, PubInv, NamedInv
<1>2. \A m \in Names : published[m] # c
  BY PublicationAssumption DEF HoldName, TakeName, PubInv, TableInv, Opening, Stood
<1>3. Visible' = Visible
  BY SameVisible DEF HoldName, TakeName
<1>4. Late' = {} /\ Late = {}
  BY DEF HoldName, TakeName, Late
<1> QED
  BY <1>1, <1>2, <1>3, <1>4 DEF HoldName, TakeName, Registry!Register

(* The bind is not seen: there is no descriptor yet.  A bind or a rename that *)
(* fails is the end of a publication that never appeared.                    *)
LEMMA ListenUnseen ==
    ASSUME PubInv, NEW c \in Crossings, Listen(c) \/ ListenFails(c) \/ DescribeFails(c)
    PROVE  UNCHANGED Registry!vars \/ Registry!Abandon(nameOf[c], c)
<1>1. stage[c] \in Rising /\ Active(c)
  BY DEF Listen, ListenFails, DescribeFails, Rising, Active, Opening
<1>2. nameOf[c] \in Names /\ desc[nameOf[c]] = None
  BY <1>1, OwnFiles, PublicationAssumption DEF PubInv, DescriptorInv, Rising, Stood
<1>3. /\ UNCHANGED <<published, desc, relay, nameOf>>
      /\ \A n \in Names : n # nameOf[c] => sock'[n] = sock[n]
      /\ \A d \in Crossings : d # c => stage'[d] = stage[d]
  BY <1>2 DEF Listen, ListenFails, DescribeFails, CloseListener, PubInv, TypeOK
<1>4. Visible' = Visible
  BY <1>2, <1>3 DEF Visible
<1>5. CASE Listen(c)
  <2>1. \A d \in Crossings : RisesAsBefore(d)
    BY <1>5, <1>3 DEF Listen, RisesAsBefore, Rising, PubInv, TypeOK
  <2> QED
    BY <1>3, <1>4, <2>1, SameLate DEF Registry!vars
<1>6. CASE ListenFails(c) \/ DescribeFails(c)
  <2>1. stage'[c] \notin Rising
    BY <1>6 DEF ListenFails, DescribeFails, Rising, PubInv, TypeOK
  <2>2. /\ Late' = Late \ {<<nameOf[c], c>>}
        /\ IF relay = "up" THEN Late = {} ELSE <<nameOf[c], c>> \in Late
    BY <1>1, <1>3, <2>1, LessLate
  <2> QED
    BY <1>3, <1>4, <2>2 DEF Registry!vars, Registry!Abandon
<1> QED
  BY <1>5, <1>6

(* The rename makes a publication appear: the holder's, or a late one.      *)
LEMMA DescribeShows ==
    ASSUME PubInv, NEW c \in Crossings, Describe(c)
    PROVE  Registry!Show(nameOf[c], c) /\ nameOf[c] \in Names
<1>1. stage[c] = "listening" /\ Active(c)
  BY DEF Describe, Active, Opening
<1>2. nameOf[c] \in Names /\ desc[nameOf[c]] = None /\ sock[nameOf[c]] = c
  BY <1>1, OwnFiles, PublicationAssumption DEF PubInv, DescriptorInv, SocketInv, Listens, Stood
<1>3. \A n \in Names : desc[n] # c
  BY <1>1, PublicationAssumption DEF PubInv, DescriptorInv, Stood
<1>4. Visible[nameOf[c]] = None /\ \A m \in Names : Visible[m] # c
  BY <1>2, <1>3, PublicationAssumption DEF Visible
<1>5. Visible' = [Visible EXCEPT ![nameOf[c]] = c]
  BY <1>2, PublicationAssumption DEF Visible, Describe, PubInv, TypeOK
<1>6. /\ Late' = Late \ {<<nameOf[c], c>>}
      /\ IF relay = "up" THEN Late = {} ELSE <<nameOf[c], c>> \in Late
  BY <1>1, LessLate DEF Describe, Rising, PubInv, TypeOK
<1>7. relay = "up" => published[nameOf[c]] = c
  BY <1>1 DEF PubInv, UpInv, TableInv, Opening
<1> QED
  BY <1>2, <1>4, <1>5, <1>6, <1>7 DEF Describe, Registry!Show

(* A file that goes hides the publication, or shows nothing new.            *)
LEMMA FilesGo ==
    ASSUME PubInv, NEW c \in Crossings, Active(c),
           UNCHANGED <<published, relay, nameOf>>,
           \A d \in Crossings : RisesAsBefore(d),
           sock' \in {sock, [sock EXCEPT ![nameOf[c]] = None]},
           desc' \in {desc, [desc EXCEPT ![nameOf[c]] = None]}
    PROVE  UNCHANGED Registry!vars \/ Registry!Hide(nameOf[c])
<1>1. nameOf[c] \in Names
  BY OwnFiles
<1>2. Late' = Late
  BY SameLate
<1>3. Visible' \in {Visible, [Visible EXCEPT ![nameOf[c]] = None]}
  BY <1>1 DEF Visible, PubInv, TypeOK
<1>4. CASE Visible[nameOf[c]] = None
  <2>1. [Visible EXCEPT ![nameOf[c]] = None] = Visible
    BY <1>1, <1>4 DEF Visible
  <2> QED
    BY <1>2, <1>3, <2>1 DEF Registry!vars
<1>5. CASE Visible[nameOf[c]] # None
  BY <1>2, <1>3, <1>5 DEF Registry!vars, Registry!Hide
<1> QED
  BY <1>4, <1>5

(* close and the undo of open only take files away.                         *)
LEMMA TakeDownHides ==
    ASSUME PubInv, NEW c \in Crossings,
           UndoListener(c) \/ UndoDescriptor(c) \/ Unlisten(c) \/ Undescribe(c)
    PROVE  UNCHANGED Registry!vars \/ Registry!Hide(nameOf[c])
<1>1. Active(c)
  BY DEF UndoListener, UndoDescriptor, Unlisten, Undescribe, Active, Opening, Closing
<1>2. UNCHANGED <<published, relay, nameOf>>
  BY DEF UndoListener, UndoDescriptor, Unlisten, Undescribe
<1>3. \A d \in Crossings : RisesAsBefore(d)
  BY DEF UndoListener, UndoDescriptor, Unlisten, Undescribe, RisesAsBefore, Rising, PubInv, TypeOK
<1>4. /\ sock' \in {sock, [sock EXCEPT ![nameOf[c]] = None]}
      /\ desc' \in {desc, [desc EXCEPT ![nameOf[c]] = None]}
  BY DEF UndoListener, UndoDescriptor, Unlisten, Undescribe, CloseListener
<1> QED
  BY <1>1, <1>2, <1>3, <1>4, FilesGo

(* A name is dropped once its socket is gone.                               *)
LEMMA DropReleases ==
    ASSUME PubInv, NEW c \in Crossings, GiveUp(c) \/ Drop(c)
    PROVE  UNCHANGED Registry!vars \/ (nameOf[c] \in Names /\ Registry!Release(nameOf[c]))
<1>1. Active(c)
  BY DEF GiveUp, Drop, Active, Opening, Closing
<1>2. nameOf[c] \in Names /\ sock[nameOf[c]] \in {c, None}
  BY <1>1, OwnFiles
<1>3. relay = "up" => ~Listens(c)
  BY DEF GiveUp, Drop, Listens, PubInv, UpInv, Opening, Stood, Closing
<1>4. relay = "up" => sock[nameOf[c]] = None
  BY <1>2, <1>3, PublicationAssumption DEF PubInv, SocketInv
<1>5. relay = "up" => Visible[nameOf[c]] = None
  BY <1>2, <1>4 DEF Visible
<1>6. \A d \in Crossings : RisesAsBefore(d)
  BY DEF GiveUp, Drop, RisesAsBefore, Rising, PubInv, TypeOK
<1>7. UNCHANGED <<sock, desc, relay, nameOf>> /\ DropName(c)
  BY DEF GiveUp, Drop
<1>8. Visible' = Visible /\ Late' = Late
  BY <1>6, <1>7, SameVisible, SameLate
<1> QED
  BY <1>2, <1>5, <1>7, <1>8, PublicationAssumption DEF DropName, Registry!vars, Registry!Release

(* The moment Close sets closed is the moment the registry stops.           *)
LEMMA CloseStops ==
    ASSUME PubInv, CloseRelay
    PROVE  Registry!Stop
<1>1. Visible' = Visible
  BY SameVisible DEF CloseRelay
<1>2. ASSUME NEW c \in Crossings, stage[c] \in Rising
      PROVE  /\ nameOf[c] \in Names
             /\ published[nameOf[c]] = c
             /\ Visible[nameOf[c]] = None
  <2>1. Active(c) /\ closing[c] = "no"
    BY <1>2 DEF CloseRelay, PubInv, UpInv, Rising, Active, Opening
  <2>2. nameOf[c] \in Names /\ desc[nameOf[c]] = None
    BY <1>2, <2>1, OwnFiles, PublicationAssumption DEF PubInv, DescriptorInv, Rising, Stood
  <2>3. published[nameOf[c]] = c
    BY <1>2, <2>1 DEF PubInv, TableInv, Rising, Opening
  <2> QED
    BY <2>2, <2>3 DEF Visible
<1>3. Late' = {<<nameOf[c], c>> : c \in {d \in Crossings : stage[d] \in Rising}}
  BY DEF Late, Rising, CloseRelay
<1>4. Late' \in SUBSET {<<n, published[n]>> : n \in {m \in Names : Visible[m] = None}}
  BY <1>2, <1>3
<1> QED
  BY <1>1, <1>4 DEF CloseRelay, Registry!Stop

(* The rest of Close happens behind the registry's back.                    *)
LEMMA ClosingUnseen ==
    ASSUME PubInv, \/ CloseDoor \/ \E c \in Crossings : ClosePublication(c)
                 \/ UNCHANGED pubVars
    PROVE  UNCHANGED Registry!vars
<1>1. UNCHANGED <<published, sock, desc, stage, nameOf>>
  BY DEF CloseDoor, ClosePublication, pubVars
<1>2. (relay' = "up") = (relay = "up")
  BY DEF CloseDoor, ClosePublication, pubVars
<1>3. Late' = Late
  BY <1>1, <1>2 DEF Late
<1> QED
  BY <1>1, <1>2, <1>3, SameVisible DEF Registry!vars

--------------------------------------------------------------------------------
(* Nothing is registered and nothing is seen at the start.                  *)
LEMMA InitImplements == Init => Registry!Init
BY DEF Init, Registry!Init, Visible, Late

LEMMA StepImplements == PubInv /\ [Next]_pubVars => [Registry!Next]_(Registry!vars)
<1> SUFFICES ASSUME PubInv, [Next]_pubVars PROVE Registry!Next \/ UNCHANGED Registry!vars
  OBVIOUS
<1>1. CASE CloseRelay
  BY <1>1, CloseStops DEF Registry!Next
<1>2. CASE CloseDoor \/ (\E c \in Crossings : ClosePublication(c)) \/ UNCHANGED pubVars
  BY <1>2, ClosingUnseen
<1>3. ASSUME NEW c \in Crossings, HoldName(c) PROVE Registry!Next
  BY <1>3, HoldRegisters DEF Registry!Next
<1>4. ASSUME NEW c \in Crossings, Listen(c) \/ ListenFails(c) \/ DescribeFails(c)
      PROVE  Registry!Next \/ UNCHANGED Registry!vars
  <2>1. nameOf[c] \in Names
    BY <1>4, OwnFiles DEF Listen, ListenFails, DescribeFails, Active, Opening
  <2> QED
    BY <1>4, <2>1, ListenUnseen DEF Registry!Next
<1>5. ASSUME NEW c \in Crossings, Describe(c) PROVE Registry!Next
  BY <1>5, DescribeShows DEF Registry!Next
<1>6. ASSUME NEW c \in Crossings,
             UndoListener(c) \/ UndoDescriptor(c) \/ Unlisten(c) \/ Undescribe(c)
      PROVE  Registry!Next \/ UNCHANGED Registry!vars
  <2>1. nameOf[c] \in Names
    BY <1>6, OwnFiles
       DEF UndoListener, UndoDescriptor, Unlisten, Undescribe, Active, Opening, Closing
  <2> QED
    BY <1>6, <2>1, TakeDownHides DEF Registry!Next
<1>7. ASSUME NEW c \in Crossings, GiveUp(c) \/ Drop(c)
      PROVE  Registry!Next \/ UNCHANGED Registry!vars
  BY <1>7, DropReleases DEF Registry!Next
<1>8. ASSUME NEW c \in Crossings,
             \/ Arrive(c) \/ TurnAway(c) \/ HeaderBad(c) \/ (\E n \in Names : HeaderRead(c, n))
             \/ HoldBusy(c) \/ HoldTaken(c) \/ Stand(c) \/ StandTooLate(c)
             \/ Reply(c) \/ Lose(c) \/ Leave(c) \/ AcceptFails(c) \/ Shut(c) \/ HangUp(c)
      PROVE  UNCHANGED Registry!vars
  BY <1>8, QuietSteps
<1> QED
  BY <1>1, <1>2, <1>3, <1>4, <1>5, <1>6, <1>7, <1>8
     DEF Next, Work, CloseStep, RelayCloseStep, Stopped

(* The relay keeps the registry's promise: a name passes from one crossing to *)
(* another only through nobody, only its holder is seen behind it, and it is  *)
(* given up only when it is seen no more (hold, open, close, drop, Close).    *)
THEOREM RegistryKept == Spec => KeepsTheRegistry
<1>1. Spec => []PubInv
  BY PubInvariance
<1> QED
  BY <1>1, InitImplements, StepImplements, PTL DEF Spec, KeepsTheRegistry, Registry!Spec

(***************************************************************************)
(* Publication with the clients and the STREAM crossings.                  *)
(***************************************************************************)
(* A goroutine, a timer or a queue refers to a publication while the        *)
(* publication stands, or after close is through with it.                    *)
LinkInv ==
    \A k \in Clients :
        /\ client[k] # "away" => via[k] \in Crossings
        /\ carrier[k] # "none" => client[k] \notin {"away", "queued"}
        /\ carrier[k] = "parking" <=> client[k] = "accepted"
        /\ client[k] = "parked" => carrier[k] \in {"asking", "timed"}
        /\ carrier[k] # "none" => stage[via[k]] \in Stood \/ closing[via[k]] = "done"

(* Only a publication that stands has an accept loop.                       *)
AcceptInv ==
    \A c \in Crossings : accepting[c] => stage[c] \in Stood /\ closing[c] \in {"no", "shut"}

WantInv ==
    \A s \in StreamCrossings : stream[s].at # "none" => stream[s].want \in Clients

(* What a crossing knew when it looked is in the copy it took.              *)
FoundInv ==
    \A s \in StreamCrossings : stream[s].at = "looking" /\ stream[s].knew =>
        client[stream[s].want] # "away" /\ via[stream[s].want] \in stream[s].seen

(* The slots are shared by the crossings that publish and those that carry.  *)
Waiting == {s \in StreamCrossings : stream[s].at = "opening"}

SharedInv ==
    /\ IsFiniteSet(Undeclared) /\ IsFiniteSet(Waiting)
    /\ opening = Cardinality(Undeclared) + Cardinality(Waiting)

StreamsInv ==
    /\ StreamsTypeOK
    /\ PubInv
    /\ LinkInv
    /\ AcceptInv
    /\ ParkedWithTheStanding
    /\ WantInv
    /\ ClaimedByOne
    /\ FoundInv
    /\ SharedInv

--------------------------------------------------------------------------------
(* What a step does to the publications.                                    *)

(* A STREAM crossing that comes, or says what it is, takes or gives a slot.  *)
SlotStep ==
    \/ \E s \in StreamCrossings, k \in Clients : StreamArrives(s, k)
    \/ \E s \in StreamCrossings : StreamHeaderBad(s) \/ StreamLooks(s)

(* The steps of a publication, and those of the relay's close.               *)
PubStep(c) ==
    NewCrossing(c) \/ ListenerGoes(c) \/ ShutAndDrain(c) \/ CloseDrained(c) \/ OtherStep(c)

(* The steps that leave every publication and every slot alone.              *)
ClientStep ==
    \/ \E k \in Clients : (\E n \in Names : Connect(k, n)) \/ Accept(k) \/ CarrierStep(k)
    \/ \E s \in StreamCrossings : StreamStep(s) \/ StreamEnds(s)

LEMMA StepKinds ==
    ASSUME [StreamsNext]_allVars
    PROVE  \/ \E c \in Crossings : PubStep(c)
           \/ RelayStep
           \/ SlotStep
           \/ ClientStep
           \/ UNCHANGED allVars
BY DEF StreamsNext, PubStep, SlotStep, ClientStep, StreamsStopped, Stopped, allVars, streamVars

LEMMA PubStepIsNext ==
    ASSUME NEW c \in Crossings, PubStep(c)
    PROVE  Next
<1>1. CASE NewCrossing(c)
  BY <1>1 DEF NewCrossing, Next
<1>2. CASE ListenerGoes(c)
  BY <1>2 DEF ListenerGoes, Next, Work, CloseStep
<1>3. CASE ShutAndDrain(c)
  BY <1>3 DEF ShutAndDrain, Next
<1>4. CASE CloseDrained(c)
  BY <1>4 DEF CloseDrained, Next, CloseStep
<1>5. CASE OtherStep(c)
  BY <1>5 DEF OtherStep, Next, Work, CloseStep
<1> QED
  BY <1>1, <1>2, <1>3, <1>4, <1>5 DEF PubStep

LEMMA PubSteps ==
    ASSUME [StreamsNext]_allVars
    PROVE  [Next]_pubVars \/ (SlotStep /\ UNCHANGED otherPubVars)
<1>1. ASSUME NEW c \in Crossings, PubStep(c) PROVE Next
  BY <1>1, PubStepIsNext
<1>2. RelayStep => Next
  BY DEF RelayStep, Next
<1>3. SlotStep => UNCHANGED otherPubVars
  BY DEF SlotStep, StreamArrives, StreamHeaderBad, StreamLooks
<1>4. ClientStep => UNCHANGED pubVars
  BY DEF ClientStep, Connect, Accept, CarrierStep, Park, Ask, AskFails, CarrierEnds,
         StreamWaitOver, StreamStep, StreamClaims, StreamRefused, StreamReplies, StreamEnds
<1>5. UNCHANGED allVars => UNCHANGED pubVars
  BY DEF allVars
<1> QED
  BY <1>1, <1>2, <1>3, <1>4, <1>5, StepKinds

(* A slot is given back only by one who has it.                             *)
LEMMA SlotsInHand ==
    ASSUME SharedInv
    PROVE  /\ SlotInHand
           /\ \A s \in StreamCrossings : stream[s].at = "opening" => opening # 0
<1>1. Cardinality(Undeclared) \in Nat /\ Cardinality(Waiting) \in Nat
  BY FS_CardinalityType DEF SharedInv
<1>2. ASSUME NEW c \in Crossings, stage[c] = "opening" PROVE opening # 0
  <2>1. c \in Undeclared
    BY <1>2 DEF Undeclared
  <2> QED
    BY <1>1, <2>1, FS_EmptySet DEF SharedInv
<1>3. ASSUME NEW s \in StreamCrossings, stream[s].at = "opening" PROVE opening # 0
  <2>1. s \in Waiting
    BY <1>3 DEF Waiting
  <2> QED
    BY <1>1, <2>1, FS_EmptySet DEF SharedInv
<1> QED
  BY <1>2, <1>3 DEF SlotInHand

(* So Publication's invariant, but for its count of the slots, holds of the  *)
(* composition too.                                                          *)
LEMMA PubInvKept ==
    ASSUME PubInv, SharedInv, [StreamsNext]_allVars
    PROVE  PubInv'
<1>1. CASE [Next]_pubVars
  BY <1>1, SlotsInHand, PubInvStep
<1>2. CASE SlotStep /\ UNCHANGED otherPubVars
  <2>1. TypeOK'
    <3>1. opening' \in Nat
      <4>1. opening \in Nat
        BY DEF PubInv, TypeOK
      <4>2. ASSUME NEW s \in StreamCrossings, NEW k \in Clients, StreamArrives(s, k)
            PROVE  opening' = opening + 1
        BY <4>2 DEF StreamArrives
      <4>3. ASSUME NEW s \in StreamCrossings, StreamHeaderBad(s) \/ StreamLooks(s)
            PROVE  opening' = opening - 1 /\ opening # 0
        BY <4>3, SlotsInHand DEF StreamHeaderBad, StreamLooks
      <4> QED
        BY <1>2, <4>1, <4>2, <4>3 DEF SlotStep
    <3> QED
      BY <1>2, <3>1 DEF PubInv, TypeOK, otherPubVars
  <2>2. (FreshInv /\ NamedInv /\ UpInv /\ UniqueInv)'
    BY <1>2 DEF otherPubVars, PubInv, FreshInv, NamedInv, UpInv, UniqueInv, Active
  <2>3. (TableInv /\ SocketInv /\ DescriptorInv)'
    BY <1>2 DEF otherPubVars, PubInv, TableInv, SocketInv, DescriptorInv, Listens
  <2> QED
    BY <2>1, <2>2, <2>3 DEF PubInv
<1> QED
  BY <1>1, <1>2, PubSteps

--------------------------------------------------------------------------------
(* The clients' invariant, part by part.                                    *)

(* A new crossing takes nobody's place whom a carrier still refers to; every *)
(* other step leaves a publication that stands standing until its close is   *)
(* through, and one that nobody closes as it is.                             *)
LEMMA StandingStays ==
    ASSUME TypeOK, NEW c \in Crossings,
           NEW d \in Crossings, PubStep(d), ~NewCrossing(d) \/ c # d
    PROVE  /\ stage[c] \in Stood \/ closing[c] = "done" =>
                  stage'[c] \in Stood \/ closing'[c] = "done"
           /\ stage[c] \in Stood /\ closing[c] = "no" /\ ~(ShutAndDrain(d) /\ c = d) =>
                  stage'[c] \in Stood /\ closing'[c] = "no"
<1> USE DEF TypeOK, Stood
<1>1. CASE NewCrossing(d)
  BY <1>1 DEF NewCrossing, Arrive, TurnAway, Dialled, Quiet
<1>2. CASE ListenerGoes(d)
  BY <1>2 DEF ListenerGoes, DescribeFails, UndoListener, Unlisten
<1>3. CASE ShutAndDrain(d)
  BY <1>3 DEF ShutAndDrain, Shut
<1>4. CASE CloseDrained(d)
  BY <1>4 DEF CloseDrained, Undescribe
<1>5. CASE OtherStep(d)
  <2>1. CASE HeaderBad(d) \/ \E n \in Names : HeaderRead(d, n)
    BY <2>1 DEF HeaderBad, HeaderRead
  <2>2. CASE HoldBusy(d) \/ HoldTaken(d) \/ HoldName(d)
    BY <2>2 DEF HoldBusy, HoldTaken, HoldRefused, HoldName, TakeName
  <2>3. CASE Listen(d) \/ ListenFails(d) \/ Describe(d) \/ UndoDescriptor(d) \/ GiveUp(d)
    BY <2>3 DEF Listen, ListenFails, Describe, UndoDescriptor, GiveUp
  <2>4. CASE Stand(d) \/ StandTooLate(d) \/ Reply(d) \/ Lose(d) \/ AcceptFails(d)
    BY <2>4 DEF Stand, StandTooLate, Reply, Lose, AcceptFails
  <2>5. CASE HangUp(d) \/ Drop(d) \/ Leave(d)
    BY <2>5 DEF HangUp, Drop, Leave
  <2> QED
    BY <1>5, <2>1, <2>2, <2>3, <2>4, <2>5 DEF OtherStep
<1> QED
  BY <1>1, <1>2, <1>3, <1>4, <1>5 DEF PubStep

(* The steps that leave every publication's stage and close alone.          *)
LEMMA StillStanding ==
    ASSUME RelayStep \/ SlotStep \/ ClientStep \/ UNCHANGED allVars
    PROVE  UNCHANGED <<stage, closing, accepting>>
BY DEF RelayStep, CloseRelay, RelayCloseStep, CloseDoor, ClosePublication, SlotStep, ClientStep,
       StreamArrives, StreamHeaderBad, StreamLooks, otherPubVars, allVars, pubVars,
       Connect, Accept, CarrierStep, Park, Ask, AskFails, CarrierEnds, StreamWaitOver,
       StreamStep, StreamClaims, StreamRefused, StreamReplies, StreamEnds

(* A publication's step moves clients that wait, are parked or are drained.  *)
LEMMA PubMoves ==
    ASSUME StreamsTypeOK, NEW c \in Crossings, PubStep(c) \/ RelayStep
    PROVE  /\ UNCHANGED <<via, carrier, stream>>
           /\ \A k \in Clients :
                 \/ client'[k] = client[k]
                 \/ client[k] = "queued" /\ client'[k] = "closed"
                 \/ client[k] = "parked" /\ client'[k] = "drained"
                 \/ client[k] = "drained" /\ client'[k] = "closed"
<1>1. CASE NewCrossing(c) \/ OtherStep(c) \/ RelayStep
  BY <1>1 DEF NewCrossing, OtherStep, RelayStep, streamVars
<1>2. CASE ListenerGoes(c) \/ ShutAndDrain(c) \/ CloseDrained(c)
  BY <1>2 DEF ListenerGoes, ShutAndDrain, CloseDrained, Move
<1> QED
  BY <1>1, <1>2 DEF PubStep

LEMMA AcceptInvStep ==
    ASSUME TypeOK, AcceptInv, [StreamsNext]_allVars
    PROVE  AcceptInv'
<1> USE DEF AcceptInv, TypeOK, Stood
<1>1. ASSUME NEW d \in Crossings, PubStep(d) PROVE AcceptInv'
  <2>1. CASE NewCrossing(d)
    BY <2>1 DEF NewCrossing, Arrive, TurnAway, Dialled, Quiet
  <2>2. CASE ListenerGoes(d)
    BY <2>2 DEF ListenerGoes, DescribeFails, UndoListener, Unlisten
  <2>3. CASE ShutAndDrain(d)
    BY <2>3 DEF ShutAndDrain, Shut
  <2>4. CASE CloseDrained(d)
    BY <2>4 DEF CloseDrained, Undescribe
  <2>5. CASE OtherStep(d)
    <3>1. CASE HeaderBad(d) \/ \E n \in Names : HeaderRead(d, n)
      BY <3>1 DEF HeaderBad, HeaderRead
    <3>2. CASE HoldBusy(d) \/ HoldTaken(d) \/ HoldName(d)
      BY <3>2 DEF HoldBusy, HoldTaken, HoldRefused, HoldName, TakeName
    <3>3. CASE Listen(d) \/ ListenFails(d) \/ Describe(d) \/ UndoDescriptor(d) \/ GiveUp(d)
      BY <3>3 DEF Listen, ListenFails, Describe, UndoDescriptor, GiveUp
    <3>4. CASE Stand(d) \/ StandTooLate(d) \/ Reply(d) \/ Lose(d) \/ AcceptFails(d)
      BY <3>4 DEF Stand, StandTooLate, Reply, Lose, AcceptFails
    <3>5. CASE HangUp(d) \/ Drop(d) \/ Leave(d)
      BY <3>5 DEF HangUp, Drop, Leave
    <3> QED
      BY <2>5, <3>1, <3>2, <3>3, <3>4, <3>5 DEF OtherStep
  <2> QED
    BY <1>1, <2>1, <2>2, <2>3, <2>4, <2>5 DEF PubStep
<1>2. CASE RelayStep \/ SlotStep \/ ClientStep \/ UNCHANGED allVars
  BY <1>2, StillStanding
<1> QED
  BY <1>1, <1>2, StepKinds

(* Who takes a client further leaves behind what the rest rely on.           *)
LEMMA LinkInvStep ==
    ASSUME StreamsTypeOK, AcceptInv, ClaimedByOne, LinkInv, [StreamsNext]_allVars
    PROVE  LinkInv'
<1> DEFINE Backed(k) == carrier[k] # "none" => stage[via[k]] \in Stood \/ closing[via[k]] = "done"
<1> USE DEF LinkInv, StreamsTypeOK, CarrierStates, ClientStates
<1>1. ASSUME NEW d \in Crossings, PubStep(d) PROVE LinkInv'
  <2>1. ASSUME NEW k \in Clients PROVE Backed(k)'
    <3>1. UNCHANGED <<via, carrier>>
      BY <1>1, PubMoves
    <3>2. CASE carrier[k] = "none"
      BY <3>1, <3>2
    <3>3. CASE carrier[k] # "none"
      <4>1. via[k] \in Crossings
        BY <3>3
      <4>2. ~NewCrossing(d) \/ via[k] # d
        BY <3>3 DEF NewCrossing, Unreferenced
      <4> QED
        BY <1>1, <3>1, <3>3, <4>1, <4>2, StandingStays
    <3> QED
      BY <3>2, <3>3
  <2>2. UNCHANGED <<via, carrier, stream>>
    BY <1>1, PubMoves
  <2>3. \A k \in Clients : \/ client'[k] = client[k]
                           \/ client[k] = "queued" /\ client'[k] = "closed"
                           \/ client[k] = "parked" /\ client'[k] = "drained"
                           \/ client[k] = "drained" /\ client'[k] = "closed"
    BY <1>1, PubMoves
  <2> QED
    BY <2>1, <2>2, <2>3
<1>2. CASE RelayStep
  BY <1>2, StillStanding DEF RelayStep, streamVars
<1>3. CASE SlotStep
  <2>1. UNCHANGED <<client, via, carrier>>
    BY <1>3 DEF SlotStep, StreamArrives, StreamHeaderBad, StreamLooks
  <2>2. UNCHANGED <<stage, closing>>
    BY <1>3, StillStanding
  <2> QED
    BY <2>1, <2>2
<1>4. ASSUME NEW k \in Clients, NEW n \in Names, Connect(k, n) PROVE LinkInv'
  <2>1. sock[n] \in Crossings
    BY <1>4 DEF Connect, TypeOK
  <2> QED
    BY <1>4, <2>1 DEF Connect, pubVars
<1>5. ASSUME NEW k \in Clients, Accept(k) PROVE LinkInv'
  <2>1. via[k] \in Crossings
    BY <1>5 DEF Accept
  <2>2. stage[via[k]] \in Stood
    BY <1>5, <2>1 DEF Accept, AcceptInv
  <2> QED
    BY <1>5, <2>2 DEF Accept, pubVars
<1>6. ASSUME NEW k \in Clients, CarrierStep(k) PROVE LinkInv'
  BY <1>6 DEF CarrierStep, Park, Ask, AskFails, CarrierEnds, StreamWaitOver, CloseIfParked, pubVars
<1>7. ASSUME NEW s \in StreamCrossings, StreamStep(s) \/ StreamEnds(s) PROVE LinkInv'
  <2>1. UNCHANGED <<stage, closing, via, carrier>>
    BY <1>7 DEF StreamStep, StreamClaims, StreamRefused, StreamReplies, StreamEnds, pubVars
  <2>2. \A k \in Clients : \/ client'[k] = client[k]
                           \/ /\ client[k] \in {"parked", "claimed", "coupled"}
                              /\ client'[k] \in {"claimed", "coupled", "closed"}
    BY <1>7 DEF StreamStep, StreamClaims, Claimable, StreamRefused, StreamReplies, StreamEnds,
                ClaimedByOne
  <2> QED
    BY <2>1, <2>2
<1>8. CASE UNCHANGED allVars
  BY <1>8 DEF allVars, pubVars, streamVars
<1> QED
  BY <1>1, <1>2, <1>3, <1>4, <1>5, <1>6, <1>7, <1>8, StepKinds DEF ClientStep

(* Only park parks, and only close shuts.                                   *)
LEMMA ParkedStep ==
    ASSUME StreamsTypeOK, LinkInv, ParkedWithTheStanding, [StreamsNext]_allVars
    PROVE  ParkedWithTheStanding'
<1> SUFFICES ASSUME NEW k \in Clients, client'[k] = "parked"
             PROVE  stage'[via'[k]] \in Stood /\ closing'[via'[k]] = "no"
  BY DEF ParkedWithTheStanding
<1> USE DEF StreamsTypeOK, CarrierStates, ClientStates
<1>1. CASE client[k] # "parked"
  <2>1. Park(k) /\ closing[via[k]] = "no"
    <3>1. ~RelayStep /\ ~UNCHANGED allVars /\ \A c \in Crossings : ~PubStep(c)
      BY <1>1, PubMoves DEF RelayStep, streamVars, allVars
    <3>2. ~SlotStep
      BY <1>1 DEF SlotStep, StreamArrives, StreamHeaderBad, StreamLooks
    <3>3. \A s \in StreamCrossings : ~StreamStep(s) /\ ~StreamEnds(s)
      BY <1>1 DEF StreamStep, StreamClaims, StreamRefused, StreamReplies, StreamEnds
    <3>4. PICK j \in Clients : (\E n \in Names : Connect(j, n)) \/ Accept(j) \/ CarrierStep(j)
      BY <3>1, <3>2, <3>3, StepKinds DEF ClientStep
    <3> QED
      BY <1>1, <3>4 DEF Connect, Accept, CarrierStep, Park, Ask, AskFails, CarrierEnds,
                        StreamWaitOver, CloseIfParked
  <2>2. stage[via[k]] \in Stood
    BY <2>1 DEF Park, LinkInv
  <2> QED
    BY <2>1, <2>2 DEF Park, pubVars
<1>2. CASE client[k] = "parked"
  <2>1. via[k] \in Crossings /\ carrier[k] # "none"
    BY <1>2 DEF LinkInv
  <2>2. stage[via[k]] \in Stood /\ closing[via[k]] = "no"
    BY <1>2 DEF ParkedWithTheStanding
  <2>3. via'[k] = via[k]
    <3>1. ASSUME NEW d \in Crossings, PubStep(d) \/ RelayStep PROVE via' = via
      BY <3>1, PubMoves
    <3>2. ASSUME NEW j \in Clients, NEW n \in Names, Connect(j, n) PROVE via'[k] = via[k]
      BY <1>2, <3>2 DEF Connect
    <3>3. CASE RelayStep \/ SlotStep \/ UNCHANGED allVars
      BY <3>3 DEF RelayStep, SlotStep, StreamArrives, StreamHeaderBad, StreamLooks, allVars, streamVars
    <3>4. ASSUME NEW j \in Clients, Accept(j) \/ CarrierStep(j) PROVE via' = via
      BY <3>4 DEF Accept, CarrierStep, Park, Ask, AskFails, CarrierEnds, StreamWaitOver
    <3>5. ASSUME NEW s \in StreamCrossings, StreamStep(s) \/ StreamEnds(s) PROVE via' = via
      BY <3>5 DEF StreamStep, StreamClaims, StreamRefused, StreamReplies, StreamEnds
    <3> QED
      BY <3>1, <3>2, <3>3, <3>4, <3>5, StepKinds DEF ClientStep
  <2>4. ASSUME NEW d \in Crossings, PubStep(d)
        PROVE  stage'[via[k]] \in Stood /\ closing'[via[k]] = "no"
    <3>1. ~NewCrossing(d) \/ via[k] # d
      BY <2>1 DEF NewCrossing, Unreferenced
    <3>2. ~(ShutAndDrain(d) /\ via[k] = d)
      BY <1>2 DEF ShutAndDrain, Move
    <3> QED
      BY <2>1, <2>2, <2>4, <3>1, <3>2, StandingStays
  <2>5. CASE RelayStep \/ SlotStep \/ ClientStep \/ UNCHANGED allVars
    BY <2>5, <2>2, <2>3, StillStanding
  <2> QED
    BY <2>3, <2>4, <2>5, StepKinds
<1> QED
  BY <1>1, <1>2

(* The crossing's want is one of the ids the relay handed out.              *)
LEMMA WantInvStep ==
    ASSUME StreamsTypeOK, WantInv, [StreamsNext]_allVars
    PROVE  WantInv'
<1> USE DEF WantInv, NoStream, StreamsTypeOK
<1>1. ASSUME NEW d \in Crossings, PubStep(d) \/ RelayStep PROVE WantInv'
  BY <1>1, PubMoves
<1>2. CASE UNCHANGED stream
  BY <1>2
<1>3. ASSUME NEW s \in StreamCrossings, NEW k \in Clients, StreamArrives(s, k) PROVE WantInv'
  BY <1>3 DEF StreamArrives
<1>4. ASSUME NEW s \in StreamCrossings,
             StreamHeaderBad(s) \/ StreamRefused(s) \/ StreamEnds(s)
      PROVE  WantInv'
  BY <1>4 DEF StreamHeaderBad, StreamRefused, StreamEnds
<1>5. ASSUME NEW s \in StreamCrossings, StreamLooks(s) PROVE WantInv'
  <2>1. stream'[s].want = stream[s].want /\ stream[s].at # "none"
    BY <1>5 DEF StreamLooks, StreamStates
  <2>2. \A t \in StreamCrossings : t # s => stream'[t] = stream[t]
    BY <1>5 DEF StreamLooks
  <2> QED
    BY <2>1, <2>2
<1>6. ASSUME NEW s \in StreamCrossings, StreamClaims(s) \/ StreamReplies(s) PROVE WantInv'
  <2>1. stream'[s].want = stream[s].want /\ stream[s].at # "none"
    BY <1>6 DEF StreamClaims, StreamReplies, StreamStates
  <2>2. \A t \in StreamCrossings : t # s => stream'[t] = stream[t]
    BY <1>6 DEF StreamClaims, StreamReplies
  <2> QED
    BY <2>1, <2>2
<1>7. ASSUME NEW k \in Clients, (\E n \in Names : Connect(k, n)) \/ Accept(k) \/ CarrierStep(k)
      PROVE  UNCHANGED stream
  BY <1>7 DEF Connect, Accept, CarrierStep, Park, Ask, AskFails, CarrierEnds, StreamWaitOver
<1>8. UNCHANGED allVars => UNCHANGED stream
  BY DEF allVars, streamVars
<1>9. ASSUME RelayStep PROVE UNCHANGED stream
  BY <1>9 DEF RelayStep, streamVars
<1> QED
  BY <1>1, <1>2, <1>3, <1>4, <1>5, <1>6, <1>7, <1>8, <1>9, StepKinds
     DEF ClientStep, SlotStep, StreamStep

(* What a STREAM crossing has claimed nobody else moves.                    *)
Taken(s) == stream[s].at \in {"answering", "coupled"}

LEMMA ClaimedStep ==
    ASSUME StreamsTypeOK, LinkInv, WantInv, ClaimedByOne, [StreamsNext]_allVars
    PROVE  ClaimedByOne'
<1> USE DEF StreamsTypeOK, ClientStates, CarrierStates
<1>1. ASSUME NEW s \in StreamCrossings, Taken(s)
      PROVE  client[stream[s].want] \in {"claimed", "coupled"} /\ stream[s].want \in Clients
  BY <1>1 DEF Taken, ClaimedByOne, WantInv
<1>2. ASSUME \A k \in Clients : client[k] \in {"claimed", "coupled"} => client'[k] = client[k],
             \A s \in StreamCrossings :
                 /\ Taken(s)' <=> Taken(s)
                 /\ Taken(s) => stream'[s].want = stream[s].want /\ stream'[s].at = stream[s].at
      PROVE  ClaimedByOne'
  BY <1>1, <1>2 DEF ClaimedByOne, Taken
<1>3. ASSUME NEW d \in Crossings, PubStep(d) \/ RelayStep PROVE ClaimedByOne'
  <2>1. UNCHANGED stream /\ \A k \in Clients : client[k] \in {"claimed", "coupled"} => client'[k] = client[k]
    BY <1>3, PubMoves
  <2> QED
    BY <1>2, <2>1 DEF Taken
<1>4. ASSUME NEW k \in Clients, (\E n \in Names : Connect(k, n)) \/ Accept(k) \/ CarrierStep(k)
      PROVE  ClaimedByOne'
  <2>1. UNCHANGED stream /\ \A j \in Clients : client[j] \in {"claimed", "coupled"} => client'[j] = client[j]
    BY <1>4 DEF Connect, Accept, CarrierStep, Park, Ask, AskFails, CarrierEnds, StreamWaitOver,
                CloseIfParked, LinkInv
  <2> QED
    BY <1>2, <2>1 DEF Taken
<1>5. CASE SlotStep
  <2>1. UNCHANGED client
    BY <1>5 DEF SlotStep, StreamArrives, StreamHeaderBad, StreamLooks
  <2>2. PICK s \in StreamCrossings :
           StreamHeaderBad(s) \/ StreamLooks(s) \/ \E k \in Clients : StreamArrives(s, k)
    BY <1>5 DEF SlotStep
  <2>3. ~Taken(s) /\ ~Taken(s)'
    <3>1. stream[s].at \in {"none", "opening"}
      BY <2>2 DEF StreamArrives, StreamHeaderBad, StreamLooks
    <3>2. CASE StreamHeaderBad(s)
      BY <3>1, <3>2 DEF StreamHeaderBad, NoStream, Taken
    <3>3. CASE StreamLooks(s)
      <4>1. stream'[s].at = "looking"
        BY <3>3 DEF StreamLooks, StreamStates
      <4> QED
        BY <3>1, <4>1 DEF Taken
    <3>4. CASE \E k \in Clients : StreamArrives(s, k)
      <4>1. stream'[s].at = "opening"
        BY <3>4 DEF StreamArrives, NoStream
      <4> QED
        BY <3>1, <4>1 DEF Taken
    <3> QED
      BY <2>2, <3>2, <3>3, <3>4
  <2>4. \A t \in StreamCrossings : t # s => stream'[t] = stream[t]
    BY <2>2 DEF StreamArrives, StreamHeaderBad, StreamLooks
  <2> QED
    BY <1>2, <2>1, <2>3, <2>4 DEF Taken
<1>6. ASSUME NEW s \in StreamCrossings, StreamClaims(s) PROVE ClaimedByOne'
  <2>1. /\ stream[s].want \in Clients /\ client[stream[s].want] = "parked" /\ ~Taken(s)
        /\ stream'[s].want = stream[s].want /\ stream'[s].at = "answering"
        /\ client'[stream[s].want] = "claimed"
    BY <1>6 DEF StreamClaims, Claimable, WantInv, StreamStates, Taken
  <2>2. \A t \in StreamCrossings : t # s => stream'[t] = stream[t]
    BY <1>6 DEF StreamClaims
  <2>3. \A k \in Clients : k # stream[s].want => client'[k] = client[k]
    BY <1>6 DEF StreamClaims
  <2>4. \A t \in StreamCrossings : Taken(t) => stream[t].want # stream[s].want
    BY <1>1, <2>1
  <2> QED
    BY <1>1, <2>1, <2>2, <2>3, <2>4 DEF ClaimedByOne, Taken
<1>7. ASSUME NEW s \in StreamCrossings, StreamReplies(s) PROVE ClaimedByOne'
  <2>1. /\ stream[s].want \in Clients /\ Taken(s)
        /\ stream'[s].want = stream[s].want /\ stream'[s].at = "coupled"
        /\ client'[stream[s].want] = "coupled"
    BY <1>7 DEF StreamReplies, WantInv, StreamStates, Taken
  <2>2. \A t \in StreamCrossings : t # s => stream'[t] = stream[t]
    BY <1>7 DEF StreamReplies
  <2>3. \A k \in Clients : k # stream[s].want => client'[k] = client[k]
    BY <1>7 DEF StreamReplies
  <2>4. \A t \in StreamCrossings : Taken(t) /\ t # s => stream[t].want # stream[s].want
    BY <2>1 DEF ClaimedByOne, Taken
  <2> QED
    BY <1>1, <2>1, <2>2, <2>3, <2>4 DEF ClaimedByOne, Taken
<1>8. ASSUME NEW s \in StreamCrossings, StreamEnds(s) PROVE ClaimedByOne'
  <2>1. stream[s].want \in Clients /\ Taken(s) /\ ~Taken(s)'
    BY <1>8 DEF StreamEnds, WantInv, NoStream, Taken
  <2>2. \A t \in StreamCrossings : t # s => stream'[t] = stream[t]
    BY <1>8 DEF StreamEnds
  <2>3. \A k \in Clients : k # stream[s].want => client'[k] = client[k]
    BY <1>8 DEF StreamEnds
  <2>4. \A t \in StreamCrossings : Taken(t) /\ t # s => stream[t].want # stream[s].want
    BY <2>1 DEF ClaimedByOne, Taken
  <2> QED
    BY <1>1, <2>1, <2>2, <2>3, <2>4 DEF ClaimedByOne, Taken
<1>9. ASSUME NEW s \in StreamCrossings, StreamRefused(s) PROVE ClaimedByOne'
  <2>1. ~Taken(s) /\ ~Taken(s)' /\ UNCHANGED client
    BY <1>9 DEF StreamRefused, NoStream, Taken
  <2>2. \A t \in StreamCrossings : t # s => stream'[t] = stream[t]
    BY <1>9 DEF StreamRefused
  <2> QED
    BY <1>2, <2>1, <2>2 DEF Taken
<1>10. CASE UNCHANGED allVars
  BY <1>10, <1>2 DEF allVars, streamVars, Taken
<1>11. CASE RelayStep
  BY <1>11, <1>2 DEF RelayStep, streamVars, Taken
<1> QED
  BY <1>3, <1>4, <1>5, <1>6, <1>7, <1>8, <1>9, <1>10, <1>11, StepKinds DEF ClientStep, StreamStep

(* Nobody connects twice.                                                   *)
LEMMA ViaStays ==
    ASSUME StreamsTypeOK, LinkInv, WantInv, ClaimedByOne, [StreamsNext]_allVars,
           NEW k \in Clients, client[k] # "away"
    PROVE  client'[k] # "away" /\ via'[k] = via[k]
<1> USE DEF StreamsTypeOK, ClientStates
<1>1. ASSUME NEW d \in Crossings, PubStep(d) PROVE client'[k] # "away" /\ via'[k] = via[k]
  BY <1>1, PubMoves
<1>2. CASE RelayStep \/ SlotStep \/ UNCHANGED allVars
  BY <1>2 DEF RelayStep, SlotStep, StreamArrives, StreamHeaderBad, StreamLooks, allVars, streamVars
<1>3. ASSUME NEW j \in Clients, (\E n \in Names : Connect(j, n)) \/ Accept(j) \/ CarrierStep(j)
      PROVE  client'[k] # "away" /\ via'[k] = via[k]
  BY <1>3 DEF Connect, Accept, CarrierStep, Park, Ask, AskFails, CarrierEnds, StreamWaitOver,
              CloseIfParked
<1>4. ASSUME NEW s \in StreamCrossings, StreamStep(s) \/ StreamEnds(s)
      PROVE  client'[k] # "away" /\ via'[k] = via[k]
  BY <1>4 DEF StreamStep, StreamClaims, StreamRefused, StreamReplies, StreamEnds
<1> QED
  BY <1>1, <1>2, <1>3, <1>4, StepKinds DEF ClientStep

(* A connection that is parked is with a publication that has its name, so a  *)
(* copy of the table has it.                                                  *)
LEMMA ParkedIsListed ==
    ASSUME StreamsTypeOK, PubInv, LinkInv, ParkedWithTheStanding,
           NEW k \in Clients, client[k] = "parked"
    PROVE  via[k] \in {published[n] : n \in TakenNames}
<1>1. via[k] \in Crossings /\ stage[via[k]] \in Stood /\ closing[via[k]] = "no"
  BY DEF LinkInv, ParkedWithTheStanding
<1>2. Active(via[k])
  BY <1>1 DEF Active
<1>3. nameOf[via[k]] \in Names /\ published[nameOf[via[k]]] = via[k]
  BY <1>1, <1>2 DEF PubInv, NamedInv, TableInv
<1> QED
  BY <1>1, <1>3, PublicationAssumption DEF TakenNames

LEMMA FoundInvStep ==
    ASSUME StreamsTypeOK, PubInv, LinkInv, ParkedWithTheStanding, WantInv, ClaimedByOne, FoundInv,
           [StreamsNext]_allVars
    PROVE  FoundInv'
<1> SUFFICES ASSUME NEW s \in StreamCrossings, stream'[s].at = "looking", stream'[s].knew
             PROVE  /\ client'[stream'[s].want] # "away"
                    /\ via'[stream'[s].want] \in stream'[s].seen
  BY DEF FoundInv
<1>1. CASE StreamLooks(s)
  <2>1. /\ stream'[s].want = stream[s].want
        /\ stream'[s].seen = {published[n] : n \in TakenNames}
        /\ stream'[s].knew = (client[stream[s].want] = "parked")
    BY <1>1 DEF StreamLooks, StreamsTypeOK, StreamStates
  <2>2. UNCHANGED <<client, via>> /\ stream[s].want \in Clients
    BY <1>1 DEF StreamLooks, WantInv
  <2> QED
    BY <2>1, <2>2, ParkedIsListed
<1>2. CASE stream'[s] = stream[s]
  <2>1. stream[s].want \in Clients
    BY <1>2 DEF WantInv
  <2> QED
    BY <1>2, <2>1, ViaStays DEF FoundInv
<1>3. StreamLooks(s) \/ stream'[s] = stream[s]
  <2>1. ASSUME NEW d \in Crossings, PubStep(d) PROVE stream' = stream
    BY <2>1, PubMoves
  <2>2. RelayStep \/ UNCHANGED allVars => stream' = stream
    BY DEF RelayStep, allVars, streamVars
  <2>3. ASSUME NEW k \in Clients, (\E n \in Names : Connect(k, n)) \/ Accept(k) \/ CarrierStep(k)
        PROVE  stream' = stream
    BY <2>3 DEF Connect, Accept, CarrierStep, Park, Ask, AskFails, CarrierEnds, StreamWaitOver
  <2>4. ASSUME NEW t \in StreamCrossings,
               StreamHeaderBad(t) \/ StreamRefused(t) \/ StreamEnds(t) \/ \E k \in Clients : StreamArrives(t, k)
        PROVE  stream'[s] = stream[s]
    <3>1. t # s
      <4>1. stream'[t].at \in {"none", "opening"}
        <5>1. CASE StreamHeaderBad(t) \/ StreamRefused(t) \/ StreamEnds(t)
          <6>1. stream'[t] = NoStream
            BY <5>1 DEF StreamHeaderBad, StreamRefused, StreamEnds, StreamsTypeOK
          <6> QED
            BY <6>1 DEF NoStream
        <5>2. ASSUME NEW k \in Clients, StreamArrives(t, k) PROVE stream'[t].at = "opening"
          BY <5>2 DEF StreamArrives, NoStream, StreamsTypeOK
        <5> QED
          BY <2>4, <5>1, <5>2
      <4> QED
        BY <4>1
    <3> QED
      BY <2>4, <3>1 DEF StreamHeaderBad, StreamRefused, StreamEnds, StreamArrives, StreamsTypeOK
  <2>5. ASSUME NEW t \in StreamCrossings, StreamClaims(t) \/ StreamReplies(t)
        PROVE  stream'[s] = stream[s]
    <3>1. t # s
      BY <2>5 DEF StreamClaims, StreamReplies, StreamsTypeOK, StreamStates
    <3> QED
      BY <2>5, <3>1 DEF StreamClaims, StreamReplies, StreamsTypeOK
  <2>6. ASSUME NEW t \in StreamCrossings, StreamLooks(t), t # s PROVE stream'[s] = stream[s]
    BY <2>6 DEF StreamLooks, StreamsTypeOK
  <2> QED
    BY <2>1, <2>2, <2>3, <2>4, <2>5, <2>6, StepKinds DEF ClientStep, SlotStep, StreamStep
<1> QED
  BY <1>1, <1>2, <1>3

(* Each kind of crossing takes and gives back its own slots.                *)
LEMMA SharedInvStep ==
    ASSUME StreamsTypeOK, WantInv, SharedInv, [StreamsNext]_allVars
    PROVE  SharedInv'
<1>a. /\ Cardinality(Undeclared) \in Nat /\ Cardinality(Waiting) \in Nat
      /\ IsFiniteSet(Undeclared) /\ IsFiniteSet(Waiting)
      /\ opening = Cardinality(Undeclared) + Cardinality(Waiting)
  BY FS_CardinalityType DEF SharedInv
<1>1. ASSUME Waiting' = Waiting, [Next]_pubVars PROVE SharedInv'
  <2>1. /\ IsFiniteSet(Undeclared') /\ opening' \in Int
        /\ opening' - Cardinality(Undeclared') = opening - Cardinality(Undeclared)
    BY <1>1, <1>a, SlotsMove DEF StreamsTypeOK
  <2>2. Cardinality(Undeclared') \in Nat
    BY <2>1, FS_CardinalityType
  <2> QED
    BY <1>1, <1>a, <2>1, <2>2 DEF SharedInv
<1>2. ASSUME NEW s \in StreamCrossings, UNCHANGED otherPubVars,
             \/ opening' = opening + 1 /\ s \notin Waiting /\ Waiting' = Waiting \cup {s}
             \/ opening' = opening - 1 /\ s \in Waiting /\ Waiting' = Waiting \ {s}
      PROVE  SharedInv'
  <2>1. Undeclared' = Undeclared
    BY <1>2 DEF Undeclared, otherPubVars
  <2>2. /\ IsFiniteSet(Waiting')
        /\ \/ opening' = opening + 1 /\ Cardinality(Waiting') = Cardinality(Waiting) + 1
           \/ opening' = opening - 1 /\ Cardinality(Waiting') = Cardinality(Waiting) - 1
    BY <1>2, <1>a, FS_AddElement, FS_RemoveElement
  <2> QED
    BY <1>a, <2>1, <2>2 DEF SharedInv
<1>3. ASSUME NEW d \in Crossings, PubStep(d) \/ RelayStep PROVE SharedInv'
  <2>1. [Next]_pubVars
    BY <1>3, PubStepIsNext DEF RelayStep, Next
  <2>2. Waiting' = Waiting
    BY <1>3, PubMoves DEF Waiting
  <2> QED
    BY <1>1, <2>1, <2>2
<1>4. ASSUME NEW s \in StreamCrossings, NEW k \in Clients, StreamArrives(s, k) PROVE SharedInv'
  <2>1. stream[s].at = "none" /\ stream'[s].at = "opening"
        /\ \A t \in StreamCrossings : t # s => stream'[t] = stream[t]
    BY <1>4 DEF StreamArrives, NoStream, StreamsTypeOK
  <2> QED
    BY <1>2, <1>4, <2>1 DEF StreamArrives, Waiting
<1>5. ASSUME NEW s \in StreamCrossings, StreamHeaderBad(s) PROVE SharedInv'
  <2>1. stream[s].at = "opening" /\ stream'[s].at = "none"
        /\ \A t \in StreamCrossings : t # s => stream'[t] = stream[t]
    BY <1>5 DEF StreamHeaderBad, NoStream, StreamsTypeOK
  <2> QED
    BY <1>2, <1>5, <2>1 DEF StreamHeaderBad, Waiting
<1>6. ASSUME NEW s \in StreamCrossings, StreamLooks(s) PROVE SharedInv'
  <2>1. stream[s].at = "opening" /\ stream'[s].at = "looking"
        /\ \A t \in StreamCrossings : t # s => stream'[t] = stream[t]
    BY <1>6 DEF StreamLooks, StreamsTypeOK, StreamStates
  <2> QED
    BY <1>2, <1>6, <2>1 DEF StreamLooks, Waiting
<1>7. ASSUME NEW s \in StreamCrossings, StreamStep(s) \/ StreamEnds(s) PROVE SharedInv'
  <2>1. stream[s].at # "opening" /\ stream'[s].at # "opening"
        /\ \A t \in StreamCrossings : t # s => stream'[t] = stream[t]
    BY <1>7 DEF StreamStep, StreamClaims, StreamRefused, StreamReplies, StreamEnds, NoStream,
                StreamsTypeOK, StreamStates
  <2>2. UNCHANGED pubVars
    BY <1>7 DEF StreamStep, StreamClaims, StreamRefused, StreamReplies, StreamEnds
  <2> QED
    BY <1>1, <2>1, <2>2 DEF Waiting
<1>8. ASSUME NEW k \in Clients, (\E n \in Names : Connect(k, n)) \/ Accept(k) \/ CarrierStep(k)
      PROVE  SharedInv'
  <2>1. UNCHANGED <<pubVars, stream>>
    BY <1>8 DEF Connect, Accept, CarrierStep, Park, Ask, AskFails, CarrierEnds, StreamWaitOver
  <2> QED
    BY <1>1, <2>1 DEF Waiting
<1>9. CASE UNCHANGED allVars
  BY <1>1, <1>9 DEF allVars, streamVars, Waiting
<1>10. CASE RelayStep
  <2>1. Next /\ UNCHANGED stream
    BY <1>10 DEF RelayStep, Next, streamVars
  <2> QED
    BY <1>1, <2>1 DEF Waiting
<1> QED
  BY <1>3, <1>4, <1>5, <1>6, <1>7, <1>8, <1>9, <1>10, StepKinds DEF ClientStep, SlotStep

(* The clients' variables keep their types.                                 *)
LEMMA StreamsTypeOKStep ==
    ASSUME StreamsTypeOK, TypeOK', WantInv, [StreamsNext]_allVars
    PROVE  StreamsTypeOK'
<1>a. /\ client \in [Clients -> ClientStates] /\ via \in [Clients -> Crossings \cup {None}]
      /\ carrier \in [Clients -> CarrierStates] /\ stream \in [StreamCrossings -> StreamStates]
  BY DEF StreamsTypeOK
<1>b. NoStream \in StreamStates
  BY DEF NoStream, StreamStates
<1> DEFINE Typed == /\ client' \in [Clients -> ClientStates]
                    /\ via' \in [Clients -> Crossings \cup {None}]
                    /\ carrier' \in [Clients -> CarrierStates]
                    /\ stream' \in [StreamCrossings -> StreamStates]
<1> SUFFICES Typed
  BY DEF StreamsTypeOK
<1>1. ASSUME NEW d \in Crossings, PubStep(d) PROVE Typed
  <2>1. CASE NewCrossing(d) \/ OtherStep(d)
    BY <1>a, <2>1 DEF NewCrossing, OtherStep, streamVars
  <2>2. CASE ListenerGoes(d) \/ ShutAndDrain(d) \/ CloseDrained(d)
    BY <1>a, <2>2 DEF ListenerGoes, ShutAndDrain, CloseDrained, Move, ClientStates
  <2> QED
    BY <1>1, <2>1, <2>2 DEF PubStep
<1>2. CASE RelayStep \/ UNCHANGED allVars
  BY <1>a, <1>2 DEF RelayStep, allVars, streamVars
<1>3. ASSUME NEW k \in Clients, NEW n \in Names, Connect(k, n) PROVE Typed
  <2>1. sock[n] \in Crossings \cup {None}
    BY DEF StreamsTypeOK, TypeOK
  <2> QED
    BY <1>a, <1>3, <2>1 DEF Connect, ClientStates
<1>4. ASSUME NEW k \in Clients, Accept(k) \/ CarrierStep(k) PROVE Typed
  BY <1>a, <1>4 DEF Accept, CarrierStep, Park, Ask, AskFails, CarrierEnds, StreamWaitOver,
                    CloseIfParked, ClientStates, CarrierStates
<1>5. ASSUME NEW s \in StreamCrossings, NEW k \in Clients, StreamArrives(s, k) PROVE Typed
  <2>1. [NoStream EXCEPT !.at = "opening", !.want = k] \in StreamStates
    BY <1>b DEF StreamStates
  <2> QED
    BY <1>a, <1>5, <2>1 DEF StreamArrives
<1>6. ASSUME NEW s \in StreamCrossings, StreamHeaderBad(s) \/ StreamRefused(s) PROVE Typed
  BY <1>a, <1>b, <1>6 DEF StreamHeaderBad, StreamRefused
<1>7. ASSUME NEW s \in StreamCrossings, StreamLooks(s) PROVE Typed
  <2> DEFINE copy == {published[n] : n \in TakenNames}
             knows == client[stream[s].want] = "parked"
             looked == [stream[s] EXCEPT !.at = "looking", !.seen = copy, !.knew = knows]
  <2>1. copy \in SUBSET Crossings
    BY DEF TakenNames, StreamsTypeOK, TypeOK
  <2>2. knows \in BOOLEAN
    OBVIOUS
  <2>3. stream[s] \in StreamStates
    BY <1>a
  <2>4. stream' = [stream EXCEPT ![s] = looked] /\ UNCHANGED <<client, via, carrier>>
    BY <1>7 DEF StreamLooks
  <2> HIDE DEF copy, knows
  <2>5. looked \in StreamStates
    BY <2>1, <2>2, <2>3 DEF StreamStates
  <2> HIDE DEF looked
  <2> QED
    BY <1>a, <2>4, <2>5
<1>8. ASSUME NEW s \in StreamCrossings, StreamClaims(s) \/ StreamReplies(s) PROVE Typed
  <2>1. \A a \in {"answering", "coupled"} : [stream[s] EXCEPT !.at = a] \in StreamStates
    BY <1>a DEF StreamStates
  <2> QED
    BY <1>a, <1>8, <2>1 DEF StreamClaims, StreamReplies, ClientStates
<1>9. ASSUME NEW s \in StreamCrossings, StreamEnds(s) PROVE Typed
  BY <1>a, <1>b, <1>9 DEF StreamEnds, ClientStates
<1> QED
  BY <1>1, <1>2, <1>3, <1>4, <1>5, <1>6, <1>7, <1>8, <1>9, StepKinds
     DEF ClientStep, SlotStep, StreamStep

--------------------------------------------------------------------------------
(* The invariant holds at the start: nobody has connected.                  *)
LEMMA InitStreamsInv == StreamsInit => StreamsInv
<1> SUFFICES ASSUME StreamsInit PROVE StreamsInv
  OBVIOUS
<1>1. PubInv /\ SlotsInv
  BY InitIInv DEF StreamsInit, IInv
<1>2. StreamsTypeOK
  BY <1>1 DEF PubInv, StreamsInit, StreamsTypeOK, ClientStates, CarrierStates, StreamStates, NoStream
<1>3. LinkInv /\ ParkedWithTheStanding
  BY DEF StreamsInit, LinkInv, ParkedWithTheStanding
<1>4. AcceptInv
  BY DEF StreamsInit, Init, AcceptInv
<1>5. WantInv /\ ClaimedByOne /\ FoundInv
  BY DEF StreamsInit, WantInv, ClaimedByOne, FoundInv, NoStream
<1>6. SharedInv
  <2>1. Waiting = {}
    BY DEF StreamsInit, Waiting, NoStream
  <2> QED
    BY <1>1, <2>1, FS_EmptySet, FS_CardinalityType DEF SlotsInv, SharedInv
<1> QED
  BY <1>1, <1>2, <1>3, <1>4, <1>5, <1>6 DEF StreamsInv

LEMMA NextStreamsInv == StreamsInv /\ [StreamsNext]_allVars => StreamsInv'
<1> SUFFICES ASSUME StreamsInv, [StreamsNext]_allVars PROVE StreamsInv'
  OBVIOUS
<1>1. PubInv'
  BY PubInvKept DEF StreamsInv
<1>2. TypeOK /\ TypeOK'
  BY <1>1 DEF PubInv, StreamsInv
<1> QED
  BY <1>1, <1>2, StreamsTypeOKStep, AcceptInvStep, LinkInvStep, ParkedStep, WantInvStep, ClaimedStep,
     FoundInvStep, SharedInvStep DEF StreamsInv

(* The inductive invariant of the relay with its clients, for any number of  *)
(* publications, clients and STREAM crossings.                               *)
THEOREM StreamsInvariance == StreamsSpec => []StreamsInv
BY InitStreamsInv, NextStreamsInv, PTL DEF StreamsSpec

(* No connection is parked with a publication that close has gone through, or *)
(* is going through: none is left there for nobody to close (park, close).    *)
THEOREM ParkedStand == StreamsSpec => []ParkedWithTheStanding
<1>1. StreamsInv => ParkedWithTheStanding
  BY DEF StreamsInv
<1> QED
  BY StreamsInvariance, <1>1, PTL

(* A claimed connection belongs to one crossing, whatever the timer, the      *)
(* failed requests, the closes and other crossings with its id do (claim).    *)
THEOREM ClaimsAreExclusive == StreamsSpec => []ClaimedByOne
<1>1. StreamsInv => ClaimedByOne
  BY DEF StreamsInv
<1> QED
  BY StreamsInvariance, <1>1, PTL

(* Looking through a copy of the table instead of the table loses no          *)
(* connection (Relay.claim).                                                  *)
THEOREM LookupIsWhole == StreamsSpec => []ParkedIsFound
<1>1. StreamsInv => ParkedIsFound
  BY DEF StreamsInv, FoundInv, ParkedIsFound
<1> QED
  BY StreamsInvariance, <1>1, PTL

(* The opening slots are exactly the crossings of both kinds that have yet to *)
(* say what they are: none is lost and none is given back twice (cross).      *)
THEOREM SharedSlotsCorrect == StreamsSpec => []SlotsShared
<1>1. StreamsInv => SlotsShared
  BY DEF StreamsInv, SharedInv, SlotsShared, Undeclared, Waiting
<1> QED
  BY StreamsInvariance, <1>1, PTL

(* The clients disturb no publication: what Publication's theorems say of its *)
(* files and listeners holds with clients and STREAM crossings about.         *)
THEOREM PublicationsUndisturbed ==
    StreamsSpec => [](/\ ListenerKeepsItsPath /\ HeldIsPublished
                      /\ ClosedLeavesNothing /\ ListenersBounded)
<1>1. StreamsInit => LimitInv
  BY InitLimitInv DEF StreamsInit
<1>2. StreamsInv /\ LimitInv /\ [StreamsNext]_allVars => LimitInv'
  <2> SUFFICES ASSUME StreamsInv, LimitInv, [StreamsNext]_allVars PROVE LimitInv'
    OBVIOUS
  <2>1. CASE [Next]_pubVars
    BY <2>1, LimitInvStep DEF StreamsInv
  <2>2. CASE UNCHANGED otherPubVars
    BY <2>2 DEF otherPubVars, LimitInv, Standing
  <2> QED
    BY <2>1, <2>2, PubSteps
<1>3. StreamsInv /\ LimitInv => /\ ListenerKeepsItsPath /\ HeldIsPublished
                                /\ ClosedLeavesNothing /\ ListenersBounded
  BY PubInvGives, LimitInvGives DEF StreamsInv
<1> QED
  BY StreamsInvariance, <1>1, <1>2, <1>3, PTL DEF StreamsSpec

(* Nor do they disturb the registry's promise.                              *)
THEOREM RegistryKeptWithClients == StreamsSpec => KeepsTheRegistry
<1>1. StreamsInit => Registry!Init
  BY InitImplements DEF StreamsInit
<1>2. StreamsInv /\ [StreamsNext]_allVars => [Registry!Next]_(Registry!vars)
  <2> SUFFICES ASSUME StreamsInv, [StreamsNext]_allVars PROVE [Registry!Next]_(Registry!vars)
    OBVIOUS
  <2>1. CASE [Next]_pubVars
    BY <2>1, StepImplements DEF StreamsInv
  <2>2. CASE UNCHANGED otherPubVars
    BY <2>2 DEF otherPubVars, Registry!vars, Visible, Late
  <2> QED
    BY <2>1, <2>2, PubSteps
<1> QED
  BY StreamsInvariance, <1>1, <1>2, PTL DEF StreamsSpec, KeepsTheRegistry, Registry!Spec

(***************************************************************************)
(* RegistryScan.                                                           *)
(***************************************************************************)
(* The crossing whose descriptor was read has the name of the entry for as   *)
(* long as it has anything under a name.                                     *)
ReadInv ==
    scan.at = "read" =>
        /\ scan.wrote \in Crossings
        /\ stage[scan.wrote] \notin {"opening", "declared"}
        /\ Active(scan.wrote) => nameOf[scan.wrote] = scan.name

(* The publication the scan began with is the one the entry is named for, and *)
(* the one whose descriptor was read.                                        *)
WholeInv ==
    whole # None =>
        /\ Stands(whole)
        /\ nameOf[whole] = scan.name
        /\ scan.at = "read" => scan.wrote = whole

ScanInv ==
    /\ IInv
    /\ ScanTypeOK
    /\ scan.at # "idle" => scan.name \in Names
    /\ ReadInv
    /\ WholeInv

--------------------------------------------------------------------------------
(* The scan only looks.                                                      *)
LEMMA ScanLooks ==
    ASSUME [ScanNext]_scanVars
    PROVE  [Next]_pubVars
BY DEF ScanNext, RelaySteps, ListEntry, ReadFails, ReadDescriptor, StatFails, Report,
       Follow, scanVars

(* A publication that stands keeps its name while it does, and a crossing that *)
(* is past its header and does not open anew gets no other name with anything  *)
(* under it.                                                                   *)
LEMMA NamesStay ==
    ASSUME PubInv, Next, NEW c \in Crossings
    PROVE  /\ Stands(c) => nameOf'[c] = nameOf[c]
           /\ stage[c] \notin {"opening", "declared"} /\ stage'[c] # "opening" =>
                 /\ stage'[c] # "declared"
                 /\ Active(c)' => Active(c) /\ nameOf'[c] = nameOf[c]
<1> USE DEF PubInv, TypeOK, Stands, Held, Active, Opening, Stood, Closing
<1>1. CASE \E d \in Crossings : Arrive(d) \/ TurnAway(d) \/ HeaderBad(d)
                                \/ (\E n \in Names : HeaderRead(d, n))
  BY <1>1 DEF Arrive, TurnAway, Dialled, Quiet, HeaderBad, HeaderRead
<1>2. CASE \E d \in Crossings : HoldBusy(d) \/ HoldTaken(d) \/ HoldName(d)
  BY <1>2 DEF HoldBusy, HoldTaken, HoldRefused, HoldName, TakeName
<1>3. CASE \E d \in Crossings : Listen(d) \/ ListenFails(d) \/ Describe(d) \/ DescribeFails(d)
  BY <1>3 DEF Listen, ListenFails, Describe, DescribeFails
<1>4. CASE \E d \in Crossings : Stand(d) \/ StandTooLate(d) \/ UndoListener(d)
                                \/ UndoDescriptor(d) \/ GiveUp(d) \/ Leave(d)
  BY <1>4 DEF Stand, StandTooLate, UndoListener, UndoDescriptor, GiveUp, Leave
<1>5. CASE \E d \in Crossings : Reply(d) \/ Lose(d) \/ AcceptFails(d) \/ Shut(d)
  BY <1>5 DEF Reply, Lose, AcceptFails, Shut
<1>6. CASE \E d \in Crossings : CloseStep(d)
  BY <1>6 DEF CloseStep, Unlisten, Undescribe, HangUp, Drop
<1>7. CASE CloseRelay
  <2>1. ASSUME c \in todo'
        PROVE  stage[c] \in Opening \cup Stood /\ closing[c] # "done"
    <3>1. PICK n \in Names : published[n] = c
      BY <1>7, <2>1 DEF CloseRelay
    <3> QED
      BY <3>1, PublicationAssumption DEF TableInv
  <2> QED
    BY <1>7, <2>1 DEF CloseRelay
<1>8. CASE \E d \in Crossings : ClosePublication(d)
  BY <1>8 DEF ClosePublication
<1>9. CASE CloseDoor \/ Stopped
  BY <1>9, PublicationAssumption DEF CloseDoor, Stopped, pubVars
<1> QED
  BY <1>1, <1>2, <1>3, <1>4, <1>5, <1>6, <1>7, <1>8, <1>9 DEF Next, Work, RelayCloseStep

(* Each part is kept by every step.                                          *)
LEMMA ScanInvStep == ScanInv /\ [ScanNext]_scanVars => ScanInv'
<1> SUFFICES ASSUME ScanInv, [ScanNext]_scanVars PROVE ScanInv'
  OBVIOUS
<1>1. IInv' /\ PubInv
  BY ScanLooks, NextIInv DEF ScanInv, IInv
<1>2. CASE RelaySteps
  <2>1. ReadInv'
    <3>1. ASSUME scan.at = "read"
          PROVE  stage'[scan.wrote] # "opening"
      BY <1>2, <3>1 DEF RelaySteps, ScanInv, ReadInv
    <3> QED
      BY <1>1, <1>2, <3>1, NamesStay DEF RelaySteps, ScanInv, ReadInv
  <2>2. WholeInv'
    BY <1>1, <1>2, NamesStay DEF RelaySteps, ScanInv, ScanTypeOK, WholeInv, Stands
  <2> QED
    BY <1>1, <1>2, <2>1, <2>2 DEF RelaySteps, ScanInv, ScanTypeOK
<1>3. CASE \E n \in Names : ListEntry(n)
  <2> PICK n \in Names : ListEntry(n)
    BY <1>3
  <2>1. desc[n] \in Crossings /\ nameOf[desc[n]] = n
    BY <1>1 DEF ListEntry, PubInv, TypeOK, DescriptorInv
  <2> QED
    BY <1>1, <2>1 DEF ListEntry, Follow, ScanInv, ScanTypeOK, ReadInv, WholeInv, Stands, pubVars
<1>4. CASE ReadFails \/ StatFails \/ Report
  BY <1>1, <1>4 DEF ReadFails, StatFails, Report, Follow, Idle, ScanInv, ScanTypeOK, ReadInv, WholeInv
<1>5. CASE ReadDescriptor
  <2> DEFINE w == desc[scan.name]
  <2>1. scan.name \in Names /\ w \in Crossings
    BY <1>1, <1>5 DEF ReadDescriptor, ScanInv, PubInv, TypeOK
  <2>2. nameOf[w] = scan.name /\ stage[w] \notin {"opening", "declared"}
    BY <1>1, <1>5, <2>1 DEF ReadDescriptor, PubInv, DescriptorInv, Stood
  <2>3. whole # None => w = whole
    BY <1>1, <2>1, PubInvGives DEF ScanInv, ScanTypeOK, WholeInv, HeldIsPublished, Stands, Held
  <2> QED
    BY <1>1, <1>5, <2>1, <2>2, <2>3
    DEF ReadDescriptor, Follow, ScanInv, ScanTypeOK, ReadInv, WholeInv, Stands, Active, pubVars
<1>6. CASE UNCHANGED scanVars
  BY <1>1, <1>6 DEF scanVars, pubVars, ScanInv, ScanTypeOK, ReadInv, WholeInv, Stands, Active
<1> QED
  BY <1>2, <1>3, <1>4, <1>5, <1>6 DEF ScanNext

LEMMA ScanInvariance == ScanSpec => []ScanInv
<1>1. ScanInit => ScanInv
  BY InitIInv, PublicationAssumption
  DEF ScanInit, ScanInv, ScanTypeOK, ReadInv, WholeInv, Idle
<1> QED
  BY <1>1, ScanInvStep, PTL DEF ScanSpec

--------------------------------------------------------------------------------
(* A host that scans disturbs nothing: every theorem about Spec is one about *)
(* ScanSpec too.                                                             *)
THEOREM ScanDisturbsNothing == ScanSpec => Spec
BY ScanLooks, PTL DEF ScanSpec, ScanInit, Spec

(* However the scan's two looks at an entry and the steps of publishing,     *)
(* undoing and closing interleave, a row is one publication's, or that of one *)
(* that is altogether gone and its successor's (ScanDir).                    *)
THEOREM RowsAreOnes == ScanSpec => ReportsOneService
<1>1. ScanInv /\ [ScanNext]_scanVars =>
          [Report => \/ sock[scan.name] = scan.wrote
                     \/ \A n \in Names : published[n] # scan.wrote
                                         /\ sock[n] # scan.wrote /\ desc[n] # scan.wrote]_scanVars
  <2> SUFFICES ASSUME ScanInv, Report, sock[scan.name] # scan.wrote, NEW n \in Names
               PROVE  published[n] # scan.wrote /\ sock[n] # scan.wrote /\ desc[n] # scan.wrote
    OBVIOUS
  <2> DEFINE w == scan.wrote
             s == sock[scan.name]
  <2>1. PubInv /\ scan.name \in Names /\ w \in Crossings /\ s \in Crossings
    BY DEF ScanInv, IInv, PubInv, TypeOK, Report, ReadInv
  <2>2. nameOf[s] = scan.name /\ Active(s)
    BY <2>1 DEF PubInv, SocketInv, Listens, Active, Opening, Closing, Report
  <2>3. ~Active(w)
    BY <2>1, <2>2 DEF ScanInv, ReadInv, PubInv, UniqueInv, Report
  <2>4. w # None
    BY <2>1, PublicationAssumption
  <2>5. published[n] # w
    BY <2>1, <2>3, <2>4 DEF PubInv, TableInv, TypeOK, Active, Stood
  <2>6. sock[n] # w
    BY <2>1, <2>3, <2>4 DEF PubInv, SocketInv, Listens, Active, Opening, Closing
  <2>7. desc[n] # w
    BY <2>1, <2>3, <2>4 DEF PubInv, DescriptorInv, Active, Opening, Closing
  <2> QED
    BY <2>5, <2>6, <2>7
<1> QED
  BY <1>1, ScanInvariance, PTL DEF ScanSpec, ReportsOneService

(* A publication that stands from the listing to the last look is reported,  *)
(* with its own descriptor and its own socket.                               *)
THEOREM StandingReported == ScanSpec => StandingIsReported
<1>1. ScanInv /\ [ScanNext]_scanVars =>
          [ /\ ReadFails => whole = None
            /\ StatFails => whole = None
            /\ Report /\ whole # None => scan.wrote = whole /\ sock[scan.name] = whole ]_scanVars
  <2> SUFFICES ASSUME ScanInv, whole # None
               PROVE  /\ ~ReadFails /\ ~StatFails
                      /\ Report => scan.wrote = whole /\ sock[scan.name] = whole
    OBVIOUS
  <2>1. whole \in Crossings /\ PubInv
    BY DEF ScanInv, ScanTypeOK, IInv
  <2>2. desc[scan.name] = whole /\ sock[scan.name] = whole
    BY <2>1, PubInvGives DEF ScanInv, WholeInv, Stands, Held, HeldIsPublished
  <2> QED
    BY <2>2 DEF ReadFails, StatFails, Report, ScanInv, WholeInv
<1> QED
  BY <1>1, ScanInvariance, PTL DEF ScanSpec, StandingIsReported
==============================================================================
