------------------------------ MODULE ServerProofs ------------------------------
(***************************************************************************)
(* Theorems about ServiceServer for any number of boxes, names and host    *)
(* ports, and whatever fails.                                              *)
(***************************************************************************)
EXTENDS ServiceServer, TLAPS

(* Outside a round Sync has nothing in hand, and a server that is down has   *)
(* nothing at all; the service whose port is bound was visited, owns its     *)
(* name, and has a port and no listener.                                     *)
RoundInv ==
    /\ phase \notin {"sync", "bind", "rebind"} => left = {} /\ live = {} /\ clash = {}
    /\ phase \in {"down", "idle"} => found = {}
    /\ phase = "down" => /\ \A n \in Names : serving[n] = NoForward
                         /\ conflicted = {}
    /\ phase \in {"bind", "rebind"} =>
          /\ at \in found \ left
          /\ ~Conflict(at)
          /\ serving[at[2]] = NoForward
          /\ byName[at[2]] # NoPort

(* The listeners are on the ports the names have in memory.                  *)
BoundInv ==
    \A n \in Names : serving[n] # NoForward => serving[n].port = byName[n]

(* What is in memory is what is in the store, but for the names left unwritten, *)
(* and unless another server wrote the store since.                          *)
SavedInv ==
    phase # "down" => behind \/ \A n \in Names : n \in unsaved \/ file[n] = byName[n]

(* What a process read is the store as it is, or was.                        *)
LoadedInv ==
    \A a \in loaded : OneToOne(a.ports) /\ (a.overtaken \/ a.ports = file)

(* A service Sync has visited keeps its name's listener.                     *)
VisitedInv ==
    phase \in {"sync", "bind", "rebind"} =>
        \A s \in found : s \notin left => s[2] \in live

(* The shut out are those that lose their name, and a name visited in this   *)
(* round is shown for a box that does not.                                   *)
ClashInv ==
    /\ \A s \in clash : s \in found /\ Conflict(s)
    /\ \A n \in Names : n \in live /\ serving[n] # NoForward =>
          ~Conflict(<<serving[n].node, n>>)

(* Between two rounds that has become what the index renders.                *)
IdleInv ==
    phase \in {"idle", "scan"} =>
        \A n \in Names : serving[n] # NoForward => <<serving[n].node, n>> \notin conflicted

IInv ==
    /\ ServerTypeOK
    /\ RoundInv
    /\ PortsDistinct
    /\ BoundInv
    /\ SavedInv
    /\ LoadedInv
    /\ VisitedInv
    /\ ClashInv
    /\ IdleInv
    /\ UpIsOwn

--------------------------------------------------------------------------------
(* Each part of the invariant is kept by every step.                        *)

(* The forwards listen on ports of the range.                               *)
LEMMA BoundPorts == ASSUME ServerTypeOK PROVE Bound \subseteq HostPorts
<1>1. ASSUME NEW n \in Forwarded PROVE serving[n].port \in HostPorts
  <2>1. serving[n] \in Forwards
    BY <1>1 DEF Forwarded, ServerTypeOK
  <2> QED
    BY <2>1 DEF Forwards
<1> QED
  BY <1>1 DEF Bound

(* The sets Sync works through stay within what the scan found.             *)
LEMMA ServerTypeOKStep == ASSUME ServerTypeOK, RoundInv, [Next]_vars PROVE
   ServerTypeOK'
<1> USE ServerAssumption DEF ServerTypeOK, RoundInv, Stores, Loads, Services, Forwards,
   NoForward, NoService, Forwarded
<1>1. ASSUME NEW b \in Boxes, NEW n \in Names, NEW how \in {"absent", "silent",
                "answering"}, Publishes(b, n, how)
      PROVE  ServerTypeOK'
  BY <1>1 DEF Publishes, world, scan, store, served
<1>2. ASSUME NEW p \in HostPorts, TakePort(p) \/ LeavePort(p)
      PROVE  ServerTypeOK'
  BY <1>2 DEF TakePort, LeavePort, world, scan, store, served
<1>3. CASE LoadPorts \/ \E a \in loaded : Start(a) \/ StartFails(a)
  <2>1. CASE LoadPorts
    <3>1. [ports |-> file, overtaken |-> FALSE] \in Loads
      OBVIOUS
    <3>2. loaded' \in SUBSET Loads
      BY <2>1, <3>1 DEF LoadPorts
    <3> QED
      BY <2>1, <3>2 DEF LoadPorts, world, scan, served
  <2>2. CASE \E a \in loaded : Start(a)
    BY <2>2 DEF Start, world, scan, store, served
  <2>3. CASE \E a \in loaded : StartFails(a)
    BY <2>3 DEF StartFails, world, scan, store, served
  <2> QED
    BY <1>3, <2>1, <2>2, <2>3
<1>4. CASE Stop
  <2>1. Bound \subseteq HostPorts
    BY BoundPorts
  <2>2. taken' \in SUBSET HostPorts
    BY <1>4, <2>1 DEF Stop
  <2> QED
    BY <1>4, <2>2 DEF Stop, world, scan, store, served
<1>5. CASE ScanStart \/ ScanEnds \/ ScanFails
  BY <1>5 DEF ScanStart, ScanEnds, ScanFails, world, scan, store, served
<1>6. ASSUME NEW b \in Boxes, ScanBox(b) PROVE ServerTypeOK'
  BY <1>6 DEF ScanBox, world, scan, store, served
<1>7. ASSUME NEW s \in Services, ShutOut(s) PROVE ServerTypeOK'
  BY <1>7 DEF ShutOut, Visiting, world, scan, store, served
<1>8. ASSUME NEW s \in Services, MarkDown(s) \/ Retarget(s) PROVE ServerTypeOK'
  <2>1. s[2] \in Names /\ s[1] \in Boxes /\ serving[s[2]] \in Forwards
    BY <1>8 DEF MarkDown, Retarget, Owner, Visiting, world, scan, store, served
  <2>2. CASE MarkDown(s)
    BY <2>1, <2>2 DEF MarkDown, Retarget, Owner, Visiting, world, scan, store, served
  <2>3. CASE Retarget(s)
    BY <2>1, <2>3 DEF MarkDown, Retarget, Owner, Visiting, world, scan, store, served
  <2> QED
    BY <1>8, <2>2, <2>3
<1>9. ASSUME NEW s \in Services, PassOver(s) PROVE ServerTypeOK'
  BY <1>9 DEF PassOver, Owner, Visiting, world, scan, store, served
<1>10. ASSUME NEW s \in Services, AssignKnown(s) PROVE ServerTypeOK'
  BY <1>10 DEF AssignKnown, Opens, Owner, Visiting, world, scan, store, served
<1>11. ASSUME NEW s \in Services, AssignNew(s) PROVE ServerTypeOK'
  <2>1. Overtaken(loaded) \in SUBSET Loads
    <3> SUFFICES ASSUME NEW a \in loaded PROVE [a EXCEPT !.overtaken = TRUE] \in Loads
      BY DEF Overtaken
    <3>1. a \in Loads
      OBVIOUS
    <3> QED
      BY <3>1
  <2>2. byName' \in Stores
    BY <1>11 DEF AssignNew, Mints
  <2> QED
    BY <1>11, <2>1, <2>2 DEF AssignNew, Saved, Opens, Owner, Visiting, world, scan, served
<1>12. ASSUME NEW s \in Services, AssignUnsaved(s) \/ AssignNone(s)
      PROVE  ServerTypeOK'
  <2>1. CASE AssignUnsaved(s)
    BY <2>1 DEF AssignUnsaved, AssignNone, Mints, NotSaved, Opens, Owner, Visiting, world, scan, store, served
  <2>2. CASE AssignNone(s)
    BY <2>2 DEF AssignUnsaved, AssignNone, Mints, NotSaved, Opens, Owner, Visiting, world, scan, store, served
  <2> QED
    BY <1>12, <2>1, <2>2
<1>13. CASE Bind
  BY <1>13 DEF Bind, Forwarding, world, scan, store, served
<1>14. CASE Move
  BY <1>14 DEF Move, Moving, Mints, Without, Saved, Overtaken, world, scan, store, served
<1>15. CASE MoveUnsaved
  BY <1>15 DEF MoveUnsaved, Moving, Mints, NotSaved, Without, world, scan, store, served
<1>16. CASE MoveNowhere \/ MoveFails
  <2>1. CASE MoveNowhere
    <3>1. at[2] \in Names /\ Without(at[2]) \in Stores
      BY <2>1 DEF MoveNowhere, Moving, Without
    <3> QED
      BY <2>1, <3>1 DEF MoveNowhere, Moving, world, scan, store, served
  <2>2. CASE MoveFails
    BY <2>2 DEF MoveFails, world, scan, store, served
  <2> QED
    BY <1>16, <2>1, <2>2
<1>17. CASE SyncEnds
  BY <1>17 DEF SyncEnds, world, scan, store, served
<1>18. CASE UNCHANGED vars
  BY <1>18 DEF vars, world, scan, store, served
<1> HIDE DEF ServerTypeOK, RoundInv, Stores, Loads, Services, Forwards, NoForward, NoService,
   Forwarded
<1> QED
  BY <1>1, <1>2, <1>3, <1>4, <1>5, <1>6, <1>7, <1>8, <1>9, <1>10, <1>11, <1>12,
     <1>13, <1>14, <1>15, <1>16, <1>17, <1>18 DEF Next, ServerStep

(* A round begins and ends with nothing in hand.                            *)
LEMMA RoundInvStep == ASSUME ServerTypeOK, RoundInv, [Next]_vars PROVE RoundInv'
<1> USE ServerAssumption DEF RoundInv, ServerTypeOK, Conflict, Stores, Loads, Services,
   Forwards, NoForward, NoService, Forwarded
<1>1. ASSUME NEW b \in Boxes, NEW n \in Names, NEW how \in {"absent", "silent",
                "answering"}, Publishes(b, n, how)
      PROVE  RoundInv'
  BY <1>1 DEF Publishes, world, scan, store, served
<1>2. ASSUME NEW p \in HostPorts, TakePort(p) \/ LeavePort(p) PROVE RoundInv'
  BY <1>2 DEF TakePort, LeavePort, world, scan, store, served
<1>3. CASE LoadPorts \/ \E a \in loaded : Start(a) \/ StartFails(a)
  BY <1>3 DEF LoadPorts, Start, StartFails, world, scan, store, served
<1>4. CASE Stop
  BY <1>4 DEF Stop, world, scan, store, served
<1>5. CASE ScanStart \/ ScanEnds \/ ScanFails
  BY <1>5 DEF ScanStart, ScanEnds, ScanFails, world, scan, store, served
<1>6. ASSUME NEW b \in Boxes, ScanBox(b) PROVE RoundInv'
  BY <1>6 DEF ScanBox, world, scan, store, served
<1>7. ASSUME NEW s \in Services, ShutOut(s) PROVE RoundInv'
  BY <1>7 DEF ShutOut, Visiting, world, scan, store, served
<1>8. ASSUME NEW s \in Services, MarkDown(s) \/ Retarget(s) PROVE RoundInv'
  BY <1>8 DEF MarkDown, Retarget, Owner, Visiting, world, scan, store, served
<1>9. ASSUME NEW s \in Services, PassOver(s) PROVE RoundInv'
  BY <1>9 DEF PassOver, Owner, Visiting, world, scan, store, served
<1>10. ASSUME NEW s \in Services, AssignKnown(s) PROVE RoundInv'
  BY <1>10 DEF AssignKnown, Opens, Owner, Visiting, world, scan, store, served
<1>11. ASSUME NEW s \in Services, AssignNew(s) PROVE RoundInv'
  BY <1>11 DEF AssignNew, Mints, Saved, Overtaken, Opens, Owner, Visiting, world, scan,
     store, served
<1>12. ASSUME NEW s \in Services, AssignUnsaved(s) \/ AssignNone(s)
      PROVE  RoundInv'
  BY <1>12 DEF AssignUnsaved, AssignNone, Mints, NotSaved, Opens, Owner, Visiting, world,
     scan, store, served
<1>13. CASE Bind
  BY <1>13 DEF Bind, Forwarding, world, scan, store, served
<1>14. CASE Move
  BY <1>14 DEF Move, Moving, Mints, Without, Saved, Overtaken, world, scan, store, served
<1>15. CASE MoveUnsaved
  BY <1>15 DEF MoveUnsaved, Moving, Mints, NotSaved, Without, world, scan, store, served
<1>16. CASE MoveNowhere \/ MoveFails
  BY <1>16 DEF MoveNowhere, MoveFails, Moving, Without, world, scan, store,
     served
<1>17. CASE SyncEnds
  BY <1>17 DEF SyncEnds, world, scan, store, served
<1>18. CASE UNCHANGED vars
  BY <1>18 DEF vars, world, scan, store, served
<1> HIDE DEF RoundInv, ServerTypeOK, Conflict, Stores, Loads, Services, Forwards, NoForward,
   NoService, Forwarded
<1> QED
  BY <1>1, <1>2, <1>3, <1>4, <1>5, <1>6, <1>7, <1>8, <1>9, <1>10, <1>11, <1>12,
     <1>13, <1>14, <1>15, <1>16, <1>17, <1>18 DEF Next, ServerStep

(* mint passes over the ports other names have.                             *)
LEMMA PortsDistinctStep == ASSUME ServerTypeOK, LoadedInv, PortsDistinct, [Next]_vars PROVE
   PortsDistinct'
<1> USE ServerAssumption DEF PortsDistinct, ServerTypeOK, LoadedInv, OneToOne, Free,
   Stores, Loads, Services
<1>1. ASSUME NEW b \in Boxes, NEW n \in Names, NEW how \in {"absent", "silent",
                "answering"}, Publishes(b, n, how)
      PROVE  PortsDistinct'
  BY <1>1 DEF Publishes, world, scan, store, served
<1>2. ASSUME NEW p \in HostPorts, TakePort(p) \/ LeavePort(p)
      PROVE  PortsDistinct'
  BY <1>2 DEF TakePort, LeavePort, world, scan, store, served
<1>3. CASE LoadPorts \/ \E a \in loaded : Start(a) \/ StartFails(a)
  BY <1>3 DEF LoadPorts, Start, StartFails, world, scan, store, served
<1>4. CASE Stop
  BY <1>4 DEF Stop, world, scan, store, served
<1>5. CASE ScanStart \/ ScanEnds \/ ScanFails
  BY <1>5 DEF ScanStart, ScanEnds, ScanFails, world, scan, store, served
<1>6. ASSUME NEW b \in Boxes, ScanBox(b) PROVE PortsDistinct'
  BY <1>6 DEF ScanBox, world, scan, store, served
<1>7. ASSUME NEW s \in Services, ShutOut(s) PROVE PortsDistinct'
  BY <1>7 DEF ShutOut, Visiting, world, scan, store, served
<1>8. ASSUME NEW s \in Services, MarkDown(s) \/ Retarget(s) PROVE PortsDistinct'
  BY <1>8 DEF MarkDown, Retarget, Owner, Visiting, world, scan, store, served
<1>9. ASSUME NEW s \in Services, PassOver(s) PROVE PortsDistinct'
  BY <1>9 DEF PassOver, Owner, Visiting, world, scan, store, served
<1>10. ASSUME NEW s \in Services, AssignKnown(s) PROVE PortsDistinct'
  BY <1>10 DEF AssignKnown, Opens, Owner, Visiting, world, scan, store, served
<1>11. ASSUME NEW s \in Services, AssignNew(s) PROVE PortsDistinct'
  BY <1>11 DEF AssignNew, Mints, Saved, Overtaken, Opens, Owner, Visiting, world, scan,
     store, served
<1>12. ASSUME NEW s \in Services, AssignUnsaved(s) \/ AssignNone(s)
      PROVE  PortsDistinct'
  BY <1>12 DEF AssignUnsaved, AssignNone, Mints, NotSaved, Opens, Owner, Visiting, world,
     scan, store, served
<1>13. CASE Bind
  BY <1>13 DEF Bind, Forwarding, world, scan, store, served
<1>14. CASE Move
  BY <1>14 DEF Move, Moving, Mints, Without, Saved, Overtaken, world, scan, store, served
<1>15. CASE MoveUnsaved
  BY <1>15 DEF MoveUnsaved, Moving, Mints, NotSaved, Without, world, scan, store, served
<1>16. CASE MoveNowhere \/ MoveFails
  BY <1>16 DEF MoveNowhere, MoveFails, Moving, Without, world, scan, store,
     served
<1>17. CASE SyncEnds
  BY <1>17 DEF SyncEnds, world, scan, store, served
<1>18. CASE UNCHANGED vars
  BY <1>18 DEF vars, world, scan, store, served
<1> HIDE DEF PortsDistinct, ServerTypeOK, LoadedInv, OneToOne, Free, Stores, Loads, Services
<1> QED
  BY <1>1, <1>2, <1>3, <1>4, <1>5, <1>6, <1>7, <1>8, <1>9, <1>10, <1>11, <1>12,
     <1>13, <1>14, <1>15, <1>16, <1>17, <1>18 DEF Next, ServerStep

(* A port changes in memory only while nothing listens on it.               *)
LEMMA BoundInvStep == ASSUME ServerTypeOK, RoundInv, BoundInv, [Next]_vars PROVE
   BoundInv'
<1> USE ServerAssumption DEF BoundInv, ServerTypeOK, RoundInv, Stores, Loads, Services,
   Forwards, NoForward, NoService, Forwarded
<1>1. ASSUME NEW b \in Boxes, NEW n \in Names, NEW how \in {"absent", "silent",
                "answering"}, Publishes(b, n, how)
      PROVE  BoundInv'
  BY <1>1 DEF Publishes, world, scan, store, served
<1>2. ASSUME NEW p \in HostPorts, TakePort(p) \/ LeavePort(p) PROVE BoundInv'
  BY <1>2 DEF TakePort, LeavePort, world, scan, store, served
<1>3. CASE LoadPorts \/ \E a \in loaded : Start(a) \/ StartFails(a)
  BY <1>3 DEF LoadPorts, Start, StartFails, world, scan, store, served
<1>4. CASE Stop
  BY <1>4 DEF Stop, world, scan, store, served
<1>5. CASE ScanStart \/ ScanEnds \/ ScanFails
  BY <1>5 DEF ScanStart, ScanEnds, ScanFails, world, scan, store, served
<1>6. ASSUME NEW b \in Boxes, ScanBox(b) PROVE BoundInv'
  BY <1>6 DEF ScanBox, world, scan, store, served
<1>7. ASSUME NEW s \in Services, ShutOut(s) PROVE BoundInv'
  BY <1>7 DEF ShutOut, Visiting, world, scan, store, served
<1>8. ASSUME NEW s \in Services, MarkDown(s) \/ Retarget(s) PROVE BoundInv'
  <2>1. s[2] \in Names /\ s[1] \in Boxes /\ serving[s[2]] \in Forwards
    BY <1>8 DEF MarkDown, Retarget, Owner, Visiting, world, scan, store, served
  <2>2. CASE MarkDown(s)
    BY <2>1, <2>2 DEF MarkDown, Retarget, Owner, Visiting, world, scan, store, served
  <2>3. CASE Retarget(s)
    BY <2>1, <2>3 DEF MarkDown, Retarget, Owner, Visiting, world, scan, store, served
  <2> QED
    BY <1>8, <2>2, <2>3
<1>9. ASSUME NEW s \in Services, PassOver(s) PROVE BoundInv'
  BY <1>9 DEF PassOver, Owner, Visiting, world, scan, store, served
<1>10. ASSUME NEW s \in Services, AssignKnown(s) PROVE BoundInv'
  BY <1>10 DEF AssignKnown, Opens, Owner, Visiting, world, scan, store, served
<1>11. ASSUME NEW s \in Services, AssignNew(s) PROVE BoundInv'
  BY <1>11 DEF AssignNew, Mints, Saved, Overtaken, Opens, Owner, Visiting, world, scan,
     store, served
<1>12. ASSUME NEW s \in Services, AssignUnsaved(s) \/ AssignNone(s)
      PROVE  BoundInv'
  BY <1>12 DEF AssignUnsaved, AssignNone, Mints, NotSaved, Opens, Owner, Visiting, world,
     scan, store, served
<1>13. CASE Bind
  BY <1>13 DEF Bind, Forwarding, world, scan, store, served
<1>14. CASE Move
  BY <1>14 DEF Move, Moving, Mints, Without, Saved, Overtaken, world, scan, store, served
<1>15. CASE MoveUnsaved
  BY <1>15 DEF MoveUnsaved, Moving, Mints, NotSaved, Without, world, scan, store, served
<1>16. CASE MoveNowhere \/ MoveFails
  BY <1>16 DEF MoveNowhere, MoveFails, Moving, Without, world, scan, store,
     served
<1>17. CASE SyncEnds
  BY <1>17 DEF SyncEnds, world, scan, store, served
<1>18. CASE UNCHANGED vars
  BY <1>18 DEF vars, world, scan, store, served
<1> HIDE DEF BoundInv, ServerTypeOK, RoundInv, Stores, Loads, Services, Forwards, NoForward,
   NoService, Forwarded
<1> QED
  BY <1>1, <1>2, <1>3, <1>4, <1>5, <1>6, <1>7, <1>8, <1>9, <1>10, <1>11, <1>12,
     <1>13, <1>14, <1>15, <1>16, <1>17, <1>18 DEF Next, ServerStep

(* What mint records it writes, all names together.                         *)
LEMMA SavedInvStep == ASSUME ServerTypeOK, RoundInv, LoadedInv, SavedInv, [Next]_vars
   PROVE SavedInv'
<1> USE ServerAssumption DEF SavedInv, LoadedInv, RoundInv, ServerTypeOK, Stores, Loads, Services, NoService
<1>1. ASSUME NEW b \in Boxes, NEW n \in Names, NEW how \in {"absent", "silent",
                "answering"}, Publishes(b, n, how)
      PROVE  SavedInv'
  BY <1>1 DEF Publishes, world, scan, store, served
<1>2. ASSUME NEW p \in HostPorts, TakePort(p) \/ LeavePort(p) PROVE SavedInv'
  BY <1>2 DEF TakePort, LeavePort, world, scan, store, served
<1>3. CASE LoadPorts \/ \E a \in loaded : Start(a) \/ StartFails(a)
  BY <1>3 DEF LoadPorts, Start, StartFails, world, scan, store, served
<1>4. CASE Stop
  BY <1>4 DEF Stop, world, scan, store, served
<1>5. CASE ScanStart \/ ScanEnds \/ ScanFails
  BY <1>5 DEF ScanStart, ScanEnds, ScanFails, world, scan, store, served
<1>6. ASSUME NEW b \in Boxes, ScanBox(b) PROVE SavedInv'
  BY <1>6 DEF ScanBox, world, scan, store, served
<1>7. ASSUME NEW s \in Services, ShutOut(s) PROVE SavedInv'
  BY <1>7 DEF ShutOut, Visiting, world, scan, store, served
<1>8. ASSUME NEW s \in Services, MarkDown(s) \/ Retarget(s) PROVE SavedInv'
  BY <1>8 DEF MarkDown, Retarget, Owner, Visiting, world, scan, store, served
<1>9. ASSUME NEW s \in Services, PassOver(s) PROVE SavedInv'
  BY <1>9 DEF PassOver, Owner, Visiting, world, scan, store, served
<1>10. ASSUME NEW s \in Services, AssignKnown(s) PROVE SavedInv'
  BY <1>10 DEF AssignKnown, Opens, Owner, Visiting, world, scan, store, served
<1>11. ASSUME NEW s \in Services, AssignNew(s) PROVE SavedInv'
  BY <1>11 DEF AssignNew, Mints, Saved, Overtaken, Opens, Owner, Visiting, world, scan,
     store, served
<1>12. ASSUME NEW s \in Services, AssignUnsaved(s) \/ AssignNone(s)
      PROVE  SavedInv'
  BY <1>12 DEF AssignUnsaved, AssignNone, Mints, NotSaved, Opens, Owner, Visiting, world,
     scan, store, served
<1>13. CASE Bind
  BY <1>13 DEF Bind, Forwarding, world, scan, store, served
<1>14. CASE Move
  BY <1>14 DEF Move, Moving, Mints, Without, Saved, Overtaken, world, scan, store, served
<1>15. CASE MoveUnsaved
  BY <1>15 DEF MoveUnsaved, Moving, Mints, NotSaved, Without, world, scan, store, served
<1>16. CASE MoveNowhere \/ MoveFails
  BY <1>16 DEF MoveNowhere, MoveFails, Moving, Without, world, scan, store,
     served
<1>17. CASE SyncEnds
  BY <1>17 DEF SyncEnds, world, scan, store, served
<1>18. CASE UNCHANGED vars
  BY <1>18 DEF vars, world, scan, store, served
<1> HIDE DEF SavedInv, LoadedInv, RoundInv, ServerTypeOK, Stores, Loads, Services, NoService
<1> QED
  BY <1>1, <1>2, <1>3, <1>4, <1>5, <1>6, <1>7, <1>8, <1>9, <1>10, <1>11, <1>12,
     <1>13, <1>14, <1>15, <1>16, <1>17, <1>18 DEF Next, ServerStep

(* A store that is written is not any more what another process read.       *)
LEMMA LoadedInvStep == ASSUME ServerTypeOK, LoadedInv, PortsDistinct, [Next]_vars
   PROVE LoadedInv'
<1> USE ServerAssumption DEF LoadedInv, PortsDistinct, OneToOne, ServerTypeOK, Stores, Loads, Services
<1>1. ASSUME NEW b \in Boxes, NEW n \in Names, NEW how \in {"absent", "silent",
                "answering"}, Publishes(b, n, how)
      PROVE  LoadedInv'
  BY <1>1 DEF Publishes, world, scan, store, served
<1>2. ASSUME NEW p \in HostPorts, TakePort(p) \/ LeavePort(p) PROVE LoadedInv'
  BY <1>2 DEF TakePort, LeavePort, world, scan, store, served
<1>3. CASE LoadPorts \/ \E a \in loaded : Start(a) \/ StartFails(a)
  BY <1>3 DEF LoadPorts, Start, StartFails, world, scan, store, served
<1>4. CASE Stop
  BY <1>4 DEF Stop, world, scan, store, served
<1>5. CASE ScanStart \/ ScanEnds \/ ScanFails
  BY <1>5 DEF ScanStart, ScanEnds, ScanFails, world, scan, store, served
<1>6. ASSUME NEW b \in Boxes, ScanBox(b) PROVE LoadedInv'
  BY <1>6 DEF ScanBox, world, scan, store, served
<1>7. ASSUME NEW s \in Services, ShutOut(s) PROVE LoadedInv'
  BY <1>7 DEF ShutOut, Visiting, world, scan, store, served
<1>8. ASSUME NEW s \in Services, MarkDown(s) \/ Retarget(s) PROVE LoadedInv'
  BY <1>8 DEF MarkDown, Retarget, Owner, Visiting, world, scan, store, served
<1>9. ASSUME NEW s \in Services, PassOver(s) PROVE LoadedInv'
  BY <1>9 DEF PassOver, Owner, Visiting, world, scan, store, served
<1>10. ASSUME NEW s \in Services, AssignKnown(s) PROVE LoadedInv'
  BY <1>10 DEF AssignKnown, Opens, Owner, Visiting, world, scan, store, served
<1>11. ASSUME NEW s \in Services, AssignNew(s) PROVE LoadedInv'
  BY <1>11 DEF AssignNew, Mints, Saved, Overtaken, Opens, Owner, Visiting, world, scan,
     store, served
<1>12. ASSUME NEW s \in Services, AssignUnsaved(s) \/ AssignNone(s)
      PROVE  LoadedInv'
  BY <1>12 DEF AssignUnsaved, AssignNone, Mints, NotSaved, Opens, Owner, Visiting, world,
     scan, store, served
<1>13. CASE Bind
  BY <1>13 DEF Bind, Forwarding, world, scan, store, served
<1>14. CASE Move
  BY <1>14 DEF Move, Moving, Mints, Without, Saved, Overtaken, world, scan, store, served
<1>15. CASE MoveUnsaved
  BY <1>15 DEF MoveUnsaved, Moving, Mints, NotSaved, Without, world, scan, store, served
<1>16. CASE MoveNowhere \/ MoveFails
  BY <1>16 DEF MoveNowhere, MoveFails, Moving, Without, world, scan, store,
     served
<1>17. CASE SyncEnds
  BY <1>17 DEF SyncEnds, world, scan, store, served
<1>18. CASE UNCHANGED vars
  BY <1>18 DEF vars, world, scan, store, served
<1> HIDE DEF LoadedInv, PortsDistinct, OneToOne, ServerTypeOK, Stores, Loads, Services
<1> QED
  BY <1>1, <1>2, <1>3, <1>4, <1>5, <1>6, <1>7, <1>8, <1>9, <1>10, <1>11, <1>12,
     <1>13, <1>14, <1>15, <1>16, <1>17, <1>18 DEF Next, ServerStep

(* A conflict is visited after its owner, which has kept the name.          *)
LEMMA VisitedInvStep == ASSUME ServerTypeOK, RoundInv, VisitedInv, [Next]_vars
   PROVE VisitedInv'
<1> USE ServerAssumption DEF VisitedInv, ServerTypeOK, RoundInv, Stores, Loads, Services,
   Conflict
<1>1. ASSUME NEW b \in Boxes, NEW n \in Names, NEW how \in {"absent", "silent",
                "answering"}, Publishes(b, n, how)
      PROVE  VisitedInv'
  BY <1>1 DEF Publishes, world, scan, store, served
<1>2. ASSUME NEW p \in HostPorts, TakePort(p) \/ LeavePort(p) PROVE VisitedInv'
  BY <1>2 DEF TakePort, LeavePort, world, scan, store, served
<1>3. CASE LoadPorts \/ \E a \in loaded : Start(a) \/ StartFails(a)
  BY <1>3 DEF LoadPorts, Start, StartFails, world, scan, store, served
<1>4. CASE Stop
  BY <1>4 DEF Stop, world, scan, store, served
<1>5. CASE ScanStart \/ ScanEnds \/ ScanFails
  BY <1>5 DEF ScanStart, ScanEnds, ScanFails, world, scan, store, served
<1>6. ASSUME NEW b \in Boxes, ScanBox(b) PROVE VisitedInv'
  BY <1>6 DEF ScanBox, world, scan, store, served
<1>7. ASSUME NEW s \in Services, ShutOut(s) PROVE VisitedInv'
  <2>1. PICK o \in found : o[2] = s[2] /\ o[1] < s[1]
    BY <1>7 DEF ShutOut, Visiting, world, scan, store, served
  <2>2. o \notin left
    <3>1. o[1] \in Nat /\ s[1] \in Nat
      OBVIOUS
    <3>2. ASSUME o \in left PROVE FALSE
      BY <1>7, <2>1, <3>1, <3>2 DEF ShutOut, Visiting, world, scan, store, served
    <3> QED
      BY <3>2
  <2>3. s[2] \in live
    BY <1>7, <2>1, <2>2 DEF ShutOut, Visiting, world, scan, store, served
  <2> QED
    BY <1>7, <2>3 DEF ShutOut, Visiting, world, scan, store, served
<1>8. ASSUME NEW s \in Services, MarkDown(s) \/ Retarget(s) PROVE VisitedInv'
  BY <1>8 DEF MarkDown, Retarget, Owner, Visiting, world, scan, store, served
<1>9. ASSUME NEW s \in Services, PassOver(s) PROVE VisitedInv'
  BY <1>9 DEF PassOver, Owner, Visiting, world, scan, store, served
<1>10. ASSUME NEW s \in Services, AssignKnown(s) PROVE VisitedInv'
  BY <1>10 DEF AssignKnown, Opens, Owner, Visiting, world, scan, store, served
<1>11. ASSUME NEW s \in Services, AssignNew(s) PROVE VisitedInv'
  BY <1>11 DEF AssignNew, Mints, Saved, Overtaken, Opens, Owner, Visiting, world, scan,
     store, served
<1>12. ASSUME NEW s \in Services, AssignUnsaved(s) \/ AssignNone(s)
      PROVE  VisitedInv'
  BY <1>12 DEF AssignUnsaved, AssignNone, Mints, NotSaved, Opens, Owner, Visiting, world,
     scan, store, served
<1>13. CASE Bind
  BY <1>13 DEF Bind, Forwarding, world, scan, store, served
<1>14. CASE Move
  BY <1>14 DEF Move, Moving, Mints, Without, Saved, Overtaken, world, scan, store, served
<1>15. CASE MoveUnsaved
  BY <1>15 DEF MoveUnsaved, Moving, Mints, NotSaved, Without, world, scan, store, served
<1>16. CASE MoveNowhere \/ MoveFails
  BY <1>16 DEF MoveNowhere, MoveFails, Moving, Without, world, scan, store,
     served
<1>17. CASE SyncEnds
  BY <1>17 DEF SyncEnds, world, scan, store, served
<1>18. CASE UNCHANGED vars
  BY <1>18 DEF vars, world, scan, store, served
<1> HIDE DEF VisitedInv, ServerTypeOK, RoundInv, Stores, Loads, Services, Conflict
<1> QED
  BY <1>1, <1>2, <1>3, <1>4, <1>5, <1>6, <1>7, <1>8, <1>9, <1>10, <1>11, <1>12,
     <1>13, <1>14, <1>15, <1>16, <1>17, <1>18 DEF Next, ServerStep

(* The owner of a name is shown for it from its visit on.                   *)
LEMMA ClashInvStep == ASSUME ServerTypeOK, RoundInv, ClashInv, [Next]_vars PROVE
   ClashInv'
<1> USE ServerAssumption DEF ClashInv, ServerTypeOK, RoundInv, Conflict,
   Services, Forwards, NoForward, NoService, Forwarded
<1>1. ASSUME NEW b \in Boxes, NEW n \in Names, NEW how \in {"absent", "silent",
                "answering"}, Publishes(b, n, how)
      PROVE  ClashInv'
  BY <1>1 DEF Publishes, world, scan, store, served
<1>2. ASSUME NEW p \in HostPorts, TakePort(p) \/ LeavePort(p) PROVE ClashInv'
  BY <1>2 DEF TakePort, LeavePort, world, scan, store, served
<1>3. CASE LoadPorts \/ \E a \in loaded : Start(a) \/ StartFails(a)
  BY <1>3 DEF LoadPorts, Start, StartFails, world, scan, store, served
<1>4. CASE Stop
  BY <1>4 DEF Stop, world, scan, store, served
<1>5. CASE ScanStart \/ ScanEnds \/ ScanFails
  BY <1>5 DEF ScanStart, ScanEnds, ScanFails, world, scan, store, served
<1>6. ASSUME NEW b \in Boxes, ScanBox(b) PROVE ClashInv'
  BY <1>6 DEF ScanBox, world, scan, store, served
<1>7. ASSUME NEW s \in Services, ShutOut(s) PROVE ClashInv'
  BY <1>7 DEF ShutOut, Visiting, world, scan, store, served
<1>8. ASSUME NEW s \in Services, MarkDown(s) \/ Retarget(s) PROVE ClashInv'
  <2>1. s[2] \in Names /\ s[1] \in Boxes /\ serving[s[2]] \in Forwards
    BY <1>8 DEF MarkDown, Retarget, Owner, Visiting, world, scan, store, served
  <2>2. CASE MarkDown(s)
    BY <2>1, <2>2 DEF MarkDown, Retarget, Owner, Visiting, world, scan, store, served
  <2>3. CASE Retarget(s)
    BY <2>1, <2>3 DEF MarkDown, Retarget, Owner, Visiting, world, scan, store, served
  <2> QED
    BY <1>8, <2>2, <2>3
<1>9. ASSUME NEW s \in Services, PassOver(s) PROVE ClashInv'
  BY <1>9 DEF PassOver, Owner, Visiting, world, scan, store, served
<1>10. ASSUME NEW s \in Services, AssignKnown(s) PROVE ClashInv'
  BY <1>10 DEF AssignKnown, Opens, Owner, Visiting, world, scan, store, served
<1>11. ASSUME NEW s \in Services, AssignNew(s) PROVE ClashInv'
  BY <1>11 DEF AssignNew, Mints, Saved, Overtaken, Opens, Owner, Visiting, world, scan,
     store, served
<1>12. ASSUME NEW s \in Services, AssignUnsaved(s) \/ AssignNone(s)
      PROVE  ClashInv'
  BY <1>12 DEF AssignUnsaved, AssignNone, Mints, NotSaved, Opens, Owner, Visiting, world,
     scan, store, served
<1>13. CASE Bind
  BY <1>13 DEF Bind, Forwarding, world, scan, store, served
<1>14. CASE Move
  BY <1>14 DEF Move, Moving, Mints, Without, Saved, Overtaken, world, scan, store, served
<1>15. CASE MoveUnsaved
  BY <1>15 DEF MoveUnsaved, Moving, Mints, NotSaved, Without, world, scan, store, served
<1>16. CASE MoveNowhere \/ MoveFails
  BY <1>16 DEF MoveNowhere, MoveFails, Moving, Without, world, scan, store,
     served
<1>17. CASE SyncEnds
  BY <1>17 DEF SyncEnds, world, scan, store, served
<1>18. CASE UNCHANGED vars
  BY <1>18 DEF vars, world, scan, store, served
<1> HIDE DEF ClashInv, ServerTypeOK, RoundInv, Conflict, Services, Forwards,
   NoForward, NoService, Forwarded
<1> QED
  BY <1>1, <1>2, <1>3, <1>4, <1>5, <1>6, <1>7, <1>8, <1>9, <1>10, <1>11, <1>12,
     <1>13, <1>14, <1>15, <1>16, <1>17, <1>18 DEF Next, ServerStep

(* The end of a round drops the names nothing publishes.                    *)
LEMMA IdleInvStep == ASSUME ServerTypeOK, RoundInv, ClashInv, IdleInv,
   [Next]_vars PROVE IdleInv'
<1> USE ServerAssumption DEF IdleInv, ServerTypeOK, RoundInv, ClashInv,
   Conflict, Stores, Loads, Services, Forwards, NoForward, NoService, Forwarded
<1>1. ASSUME NEW b \in Boxes, NEW n \in Names, NEW how \in {"absent", "silent",
                "answering"}, Publishes(b, n, how)
      PROVE  IdleInv'
  BY <1>1 DEF Publishes, world, scan, store, served
<1>2. ASSUME NEW p \in HostPorts, TakePort(p) \/ LeavePort(p) PROVE IdleInv'
  BY <1>2 DEF TakePort, LeavePort, world, scan, store, served
<1>3. CASE LoadPorts \/ \E a \in loaded : Start(a) \/ StartFails(a)
  BY <1>3 DEF LoadPorts, Start, StartFails, world, scan, store, served
<1>4. CASE Stop
  BY <1>4 DEF Stop, world, scan, store, served
<1>5. CASE ScanStart \/ ScanEnds \/ ScanFails
  BY <1>5 DEF ScanStart, ScanEnds, ScanFails, world, scan, store, served
<1>6. ASSUME NEW b \in Boxes, ScanBox(b) PROVE IdleInv'
  BY <1>6 DEF ScanBox, world, scan, store, served
<1>7. ASSUME NEW s \in Services, ShutOut(s) PROVE IdleInv'
  BY <1>7 DEF ShutOut, Visiting, world, scan, store, served
<1>8. ASSUME NEW s \in Services, MarkDown(s) \/ Retarget(s) PROVE IdleInv'
  BY <1>8 DEF MarkDown, Retarget, Owner, Visiting, world, scan, store, served
<1>9. ASSUME NEW s \in Services, PassOver(s) PROVE IdleInv'
  BY <1>9 DEF PassOver, Owner, Visiting, world, scan, store, served
<1>10. ASSUME NEW s \in Services, AssignKnown(s) PROVE IdleInv'
  BY <1>10 DEF AssignKnown, Opens, Owner, Visiting, world, scan, store, served
<1>11. ASSUME NEW s \in Services, AssignNew(s) PROVE IdleInv'
  BY <1>11 DEF AssignNew, Mints, Saved, Overtaken, Opens, Owner, Visiting, world, scan,
     store, served
<1>12. ASSUME NEW s \in Services, AssignUnsaved(s) \/ AssignNone(s)
      PROVE  IdleInv'
  BY <1>12 DEF AssignUnsaved, AssignNone, Mints, NotSaved, Opens, Owner, Visiting, world,
     scan, store, served
<1>13. CASE Bind
  BY <1>13 DEF Bind, Forwarding, world, scan, store, served
<1>14. CASE Move
  BY <1>14 DEF Move, Moving, Mints, Without, Saved, Overtaken, world, scan, store, served
<1>15. CASE MoveUnsaved
  BY <1>15 DEF MoveUnsaved, Moving, Mints, NotSaved, Without, world, scan, store, served
<1>16. CASE MoveNowhere \/ MoveFails
  BY <1>16 DEF MoveNowhere, MoveFails, Moving, Without, world, scan, store,
     served
<1>17. CASE SyncEnds
  BY <1>17 DEF SyncEnds, world, scan, store, served
<1>18. CASE UNCHANGED vars
  BY <1>18 DEF vars, world, scan, store, served
<1> HIDE DEF IdleInv, ServerTypeOK, RoundInv, ClashInv, Conflict, Stores, Loads, Services,
   Forwards, NoForward, NoService, Forwarded
<1> QED
  BY <1>1, <1>2, <1>3, <1>4, <1>5, <1>6, <1>7, <1>8, <1>9, <1>10, <1>11, <1>12,
     <1>13, <1>14, <1>15, <1>16, <1>17, <1>18 DEF Next, ServerStep

(* The row and the socket change together, or the row says down.            *)
LEMMA UpIsOwnStep == ASSUME ServerTypeOK, RoundInv, UpIsOwn, [Next]_vars PROVE
   UpIsOwn'
<1> USE ServerAssumption DEF UpIsOwn, ServerTypeOK, RoundInv, Stores, Loads, Services,
   Forwards, NoForward, NoService, Forwarded
<1>1. ASSUME NEW b \in Boxes, NEW n \in Names, NEW how \in {"absent", "silent",
                "answering"}, Publishes(b, n, how)
      PROVE  UpIsOwn'
  BY <1>1 DEF Publishes, world, scan, store, served
<1>2. ASSUME NEW p \in HostPorts, TakePort(p) \/ LeavePort(p) PROVE UpIsOwn'
  BY <1>2 DEF TakePort, LeavePort, world, scan, store, served
<1>3. CASE LoadPorts \/ \E a \in loaded : Start(a) \/ StartFails(a)
  BY <1>3 DEF LoadPorts, Start, StartFails, world, scan, store, served
<1>4. CASE Stop
  BY <1>4 DEF Stop, world, scan, store, served
<1>5. CASE ScanStart \/ ScanEnds \/ ScanFails
  BY <1>5 DEF ScanStart, ScanEnds, ScanFails, world, scan, store, served
<1>6. ASSUME NEW b \in Boxes, ScanBox(b) PROVE UpIsOwn'
  BY <1>6 DEF ScanBox, world, scan, store, served
<1>7. ASSUME NEW s \in Services, ShutOut(s) PROVE UpIsOwn'
  BY <1>7 DEF ShutOut, Visiting, world, scan, store, served
<1>8. ASSUME NEW s \in Services, MarkDown(s) \/ Retarget(s) PROVE UpIsOwn'
  <2>1. s[2] \in Names /\ s[1] \in Boxes /\ serving[s[2]] \in Forwards
    BY <1>8 DEF MarkDown, Retarget, Owner, Visiting, world, scan, store, served
  <2>2. CASE MarkDown(s)
    BY <2>1, <2>2 DEF MarkDown, Retarget, Owner, Visiting, world, scan, store, served
  <2>3. CASE Retarget(s)
    BY <2>1, <2>3 DEF MarkDown, Retarget, Owner, Visiting, world, scan, store, served
  <2> QED
    BY <1>8, <2>2, <2>3
<1>9. ASSUME NEW s \in Services, PassOver(s) PROVE UpIsOwn'
  BY <1>9 DEF PassOver, Owner, Visiting, world, scan, store, served
<1>10. ASSUME NEW s \in Services, AssignKnown(s) PROVE UpIsOwn'
  BY <1>10 DEF AssignKnown, Opens, Owner, Visiting, world, scan, store, served
<1>11. ASSUME NEW s \in Services, AssignNew(s) PROVE UpIsOwn'
  BY <1>11 DEF AssignNew, Mints, Saved, Overtaken, Opens, Owner, Visiting, world, scan,
     store, served
<1>12. ASSUME NEW s \in Services, AssignUnsaved(s) \/ AssignNone(s)
      PROVE  UpIsOwn'
  BY <1>12 DEF AssignUnsaved, AssignNone, Mints, NotSaved, Opens, Owner, Visiting, world,
     scan, store, served
<1>13. CASE Bind
  BY <1>13 DEF Bind, Forwarding, world, scan, store, served
<1>14. CASE Move
  BY <1>14 DEF Move, Moving, Mints, Without, Saved, Overtaken, world, scan, store, served
<1>15. CASE MoveUnsaved
  BY <1>15 DEF MoveUnsaved, Moving, Mints, NotSaved, Without, world, scan, store, served
<1>16. CASE MoveNowhere \/ MoveFails
  BY <1>16 DEF MoveNowhere, MoveFails, Moving, Without, world, scan, store,
     served
<1>17. CASE SyncEnds
  BY <1>17 DEF SyncEnds, world, scan, store, served
<1>18. CASE UNCHANGED vars
  BY <1>18 DEF vars, world, scan, store, served
<1> HIDE DEF UpIsOwn, ServerTypeOK, RoundInv, Stores, Loads, Services, Forwards, NoForward,
   NoService, Forwarded
<1> QED
  BY <1>1, <1>2, <1>3, <1>4, <1>5, <1>6, <1>7, <1>8, <1>9, <1>10, <1>11, <1>12,
     <1>13, <1>14, <1>15, <1>16, <1>17, <1>18 DEF Next, ServerStep

--------------------------------------------------------------------------------
(* A server that was never started serves nothing.                          *)
LEMMA InitIInv == Init => IInv
<1> SUFFICES ASSUME Init PROVE IInv
  OBVIOUS
<1> USE ServerAssumption DEF Init
<1>1. ServerTypeOK
  BY DEF ServerTypeOK, Stores, Loads
<1>2. RoundInv /\ BoundInv /\ SavedInv /\ LoadedInv /\ VisitedInv /\ ClashInv /\ IdleInv
  BY DEF RoundInv, BoundInv, SavedInv, LoadedInv, VisitedInv, ClashInv, IdleInv
<1>3. PortsDistinct /\ UpIsOwn
  BY DEF PortsDistinct, OneToOne, UpIsOwn, Forwarded
<1> QED
  BY <1>1, <1>2, <1>3 DEF IInv

(* Every step keeps the whole invariant.                                    *)
LEMMA NextIInv == IInv /\ [Next]_vars => IInv'
BY ServerTypeOKStep, RoundInvStep, PortsDistinctStep, BoundInvStep, SavedInvStep, LoadedInvStep,
   VisitedInvStep, ClashInvStep, IdleInvStep, UpIsOwnStep DEF IInv

(* The inductive invariant of the server.                                   *)
THEOREM Invariance == Spec => []IInv
BY InitIInv, NextIInv, PTL DEF Spec

--------------------------------------------------------------------------------
(* What the invariant gives.                                                *)

(* The server's variables keep their types; a forward has a port of the      *)
(* range and a box that exists (Server.open, Ports).                         *)
THEOREM ServerTypeCorrect == Spec => []ServerTypeOK
<1>1. IInv => ServerTypeOK
  BY DEF IInv
<1> QED
  BY Invariance, <1>1, PTL

(* One name, one port, in memory and in the store (Ports.mint, save).        *)
THEOREM AddressesDistinct == Spec => []PortsDistinct
<1>1. IInv => PortsDistinct
  BY DEF IInv
<1> QED
  BY Invariance, <1>1, PTL

(* Whatever saves fail and whoever wrote the store meanwhile: what is served *)
(* is what it says, but for the names left unwritten and a store another      *)
(* server wrote (Ports.Assign, Reassign, LoadPorts).                         *)
THEOREM AddressesSaved == Spec => []ServedIsSaved
<1>1. IInv => ServedIsSaved
  <2> SUFFICES ASSUME IInv, NEW n \in Names, serving[n] # NoForward
               PROVE  n \in unsaved \/ behind \/ file[n] = serving[n].port
    BY DEF ServedIsSaved, Forwarded
  <2>1. serving[n].port = byName[n] /\ phase # "down"
    BY DEF IInv, BoundInv, RoundInv
  <2> QED
    BY <2>1 DEF IInv, SavedInv
<1> QED
  BY Invariance, <1>1, PTL

(* The box a row is for is not one the same round shut out (Sync,            *)
(* MarkConflicts).                                                           *)
THEOREM OwnersShown == Spec => []ShownIsOwner
<1>1. IInv => ShownIsOwner
  BY DEF IInv, IdleInv, ShownIsOwner, Forwarded
<1> QED
  BY Invariance, <1>1, PTL

(* A forward that is up dials the box it is shown for (retarget, markDown).  *)
THEOREM UpForwardsOwn == Spec => []UpIsOwn
<1>1. IInv => UpIsOwn
  BY DEF IInv
<1> QED
  BY Invariance, <1>1, PTL

(* A published name keeps its listener (Sync).                               *)
THEOREM ListenersStand == Spec => ListenerStands
<1>1. IInv /\ [Next]_vars =>
        [\A n \in Forwarded :
            \/ phase' = "down"
            \/ serving'[n].port = serving[n].port
            \/ \A b \in Boxes : <<b, n>> \notin found]_vars
  <2> SUFFICES ASSUME IInv, Next, NEW n \in Names, serving[n] # NoForward,
                      phase' # "down", NEW b \in Boxes, <<b, n>> \in found
               PROVE  serving'[n].port = serving[n].port
    BY DEF Forwarded
  <2> USE DEF IInv, ServerTypeOK, Forwarded, Services, Forwards, NoForward, world, scan,
          store, served
  <2>1. CASE ServerStep
    <3>1. ASSUME NEW s \in Services, MarkDown(s) \/ Retarget(s)
          PROVE  serving'[n].port = serving[n].port
      <4>1. serving[n] \in Forwards /\ s[2] \in Names
        OBVIOUS
      <4>2. CASE MarkDown(s)
        BY <4>1, <4>2 DEF MarkDown
      <4>3. CASE Retarget(s)
        BY <4>1, <4>3 DEF Retarget
      <4> QED
        BY <3>1, <4>2, <4>3
    <3>2. ASSUME NEW s \in Services, ShutOut(s) \/ PassOver(s) \/ AssignKnown(s)
                 \/ AssignNew(s) \/ AssignUnsaved(s) \/ AssignNone(s)
          PROVE  serving' = serving
      BY <3>2 DEF ShutOut, PassOver, Opens, AssignKnown, AssignNew, AssignUnsaved, AssignNone, NotSaved
    <3>3. CASE Bind
      BY <3>3 DEF Bind, Forwarding, RoundInv
    <3>4. CASE Move \/ MoveUnsaved \/ MoveNowhere \/ MoveFails
      BY <3>4 DEF Move, MoveUnsaved, MoveNowhere, MoveFails, Moving
    <3>5. CASE SyncEnds
      <4>1. n \in live
        BY <3>5 DEF SyncEnds, VisitedInv
      <4> QED
        BY <3>5, <4>1 DEF SyncEnds
    <3>6. CASE ScanStart \/ ScanEnds \/ \E o \in Boxes : ScanBox(o)
      BY <3>6 DEF ScanStart, ScanEnds, ScanBox
    <3> QED
      BY <2>1, <3>1, <3>2, <3>3, <3>4, <3>5, <3>6 DEF ServerStep
  <2>2. CASE \/ LoadPorts \/ Stop \/ ScanFails
             \/ \E a \in loaded : Start(a) \/ StartFails(a)
    BY <2>2 DEF LoadPorts, Start, StartFails, Stop, ScanFails
  <2>3. CASE \/ \E o \in Boxes, m \in Names, how \in {"absent", "silent", "answering"} :
                   Publishes(o, m, how)
             \/ \E p \in HostPorts : TakePort(p) \/ LeavePort(p)
    BY <2>3 DEF Publishes, TakePort, LeavePort
  <2> QED
    BY <2>1, <2>2, <2>3 DEF Next
<1> QED
  BY Invariance, <1>1, PTL DEF Spec, ListenerStands

(* A saved address moves only because another program was found on it, or to *)
(* what was left unwritten, or over another server's (Ports.Reassign, save).  *)
THEOREM AddressesKept == Spec => AddressKept
<1>1. IInv /\ [Next]_vars =>
        [\A n \in Names :
            file[n] # NoPort /\ file'[n] # file[n] =>
                \/ n \in unsaved
                \/ behind
                \/ byName[n] \in taken /\ n \notin Forwarded]_vars
  <2> SUFFICES ASSUME IInv, Next, NEW n \in Names, file[n] # NoPort,
                      file'[n] # file[n], n \notin unsaved, ~behind
               PROVE  byName[n] \in taken /\ n \notin Forwarded
    OBVIOUS
  <2> USE ServerAssumption DEF IInv, ServerTypeOK, Stores, Loads, Forwarded, Services,
          Forwards, NoForward
  <2>1. phase # "down" => file[n] = byName[n]
    BY DEF SavedInv
  <2>2. ASSUME NEW s \in Services, AssignNew(s)
        PROVE  FALSE
    <3>1. PICK p \in HostPorts : byName' = [byName EXCEPT ![s[2]] = p]
      BY <2>2 DEF AssignNew, Mints
    <3>2. file' = byName' /\ byName[s[2]] = NoPort /\ phase = "sync"
      BY <2>2 DEF AssignNew, Saved, Opens, Owner, Visiting
    <3>3. n = s[2] /\ file[n] = NoPort
      BY <2>1, <3>1, <3>2
    <3> QED
      BY <3>3
  <2>3. CASE Move
    <3>1. PICK p \in HostPorts : byName' = [Without(at[2]) EXCEPT ![at[2]] = p]
      BY <2>3 DEF Move, Mints
    <3>2. /\ file' = byName' /\ byName[at[2]] \in taken
          /\ serving[at[2]] = NoForward /\ phase = "bind"
      BY <2>3 DEF Move, Moving, Saved, RoundInv
    <3>3. n = at[2]
      BY <2>1, <3>1, <3>2 DEF Without
    <3> QED
      BY <3>2, <3>3
  <2>4. (\E s \in Services : AssignNew(s)) \/ Move
    <3>1. ASSUME NEW s \in Services, ShutOut(s) \/ MarkDown(s) \/ Retarget(s) \/ PassOver(s)
                 \/ AssignKnown(s) \/ AssignNone(s) \/ AssignUnsaved(s)
          PROVE  file' = file
      BY <3>1 DEF ShutOut, MarkDown, Retarget, PassOver, AssignKnown, AssignNone,
         AssignUnsaved, NotSaved, Opens, store
    <3>2. ASSUME LoadPorts \/ Stop \/ ScanFails \/ ScanStart \/ ScanEnds \/ Bind
                 \/ MoveUnsaved \/ MoveNowhere \/ MoveFails \/ SyncEnds
                 \/ \E a \in loaded : Start(a) \/ StartFails(a)
          PROVE  file' = file
      BY <3>2 DEF LoadPorts, Start, StartFails, Stop, ScanFails, ScanStart, ScanEnds, Bind,
         MoveUnsaved, NotSaved, MoveNowhere, MoveFails, Moving, SyncEnds, store
    <3>3. ASSUME NEW b \in Boxes, ScanBox(b)
          PROVE  file' = file
      BY <3>3 DEF ScanBox, store
    <3>4. ASSUME NEW b \in Boxes, NEW m \in Names,
                 NEW how \in {"absent", "silent", "answering"}, Publishes(b, m, how)
          PROVE  file' = file
      BY <3>4 DEF Publishes, store
    <3>5. ASSUME NEW p \in HostPorts, TakePort(p) \/ LeavePort(p)
          PROVE  file' = file
      BY <3>5 DEF TakePort, LeavePort, store
    <3> HIDE DEF IInv, Services, Forwarded
    <3> QED
      BY <3>1, <3>2, <3>3, <3>4, <3>5 DEF Next, ServerStep
  <2> QED
    BY <2>2, <2>3, <2>4
<1> QED
  BY Invariance, <1>1, PTL DEF Spec, AddressKept
================================================================================
