----------------------------- MODULE ServiceServer -----------------------------
(***************************************************************************)
(* `dabs services serve` (src/core/services): one process that, every two  *)
(* seconds, reads what every box publishes and forwards each service from a *)
(* host port of its own (Sync).  Around it the boxes come and go, publish   *)
(* under names other boxes already use, and stop answering; other programs  *)
(* take and leave host ports; the server itself may be stopped or killed at *)
(* any moment and started again, with the port store (Ports) all it keeps.  *)
(* The index's port admits one server at a time, but a process reads the    *)
(* store before it binds that port, maybe while another still serves and    *)
(* writes it.                                                               *)
(*                                                                         *)
(* One action is one step between two points where the boxes or the other   *)
(* programs can act: the reading of one box's directory, the visit of one   *)
(* service found, one bind.                                                 *)
(***************************************************************************)
EXTENDS Naturals, FiniteSets

CONSTANTS Boxes,       \* box nodes; the order of their ids is the order of <
          Names,       \* service names
          Offers,      \* the services the boxes may publish: pairs <<b, n>>
          HostPorts,   \* the range an assignment is taken from
          Contested,   \* those of it other programs ever want
          NoPort,      \* no assignment
          Nobody,      \* no box
          ScanFaults,  \* a registry may fail to be read
          SaveFaults,  \* the port store may fail to be written
          MaxLoaded    \* the processes between LoadPorts and the index's port

ASSUME ServerAssumption ==
    /\ Boxes \subseteq Nat
    /\ Offers \subseteq Boxes \X Names
    /\ HostPorts \subseteq Nat
    /\ Contested \subseteq HostPorts
    /\ NoPort \notin HostPorts
    /\ Nobody \notin Boxes
    /\ ScanFaults \in BOOLEAN
    /\ SaveFaults \in BOOLEAN
    /\ MaxLoaded \in Nat

VARIABLES
    registry,    \* registry[b][n]: what box b's directory holds under n
    taken,       \* the host ports other programs hold
    phase,       \* where the server stands
    unread,      \* the boxes the scan has still to read
    found,       \* the services the scan found: <<b, n>>
    left,        \* those Sync has still to visit
    at,          \* the service whose port is being bound
    live,        \* the names whose listener Sync is to keep
    clash,       \* the services Sync found shut out so far
    byName,      \* Ports.byName
    file,        \* the port store on disk
    loaded,      \* what the processes read that are not through to the index's port
    unsaved,     \* history: the names whose assignment changed without being written,
                 \* until one is
    behind,      \* history: the store was written after the server read it, and
                 \* the server has not written it since
    serving,     \* Server.serving: the forwards, by name
    told,        \* Server.told: the box each name was last reported for
    conflicted   \* Server.conflicted: as of the last scan

world == <<registry, taken>>
scan == <<unread, found, left, at, live, clash>>
store == <<byName, file, loaded, unsaved, behind>>
served == <<serving, told, conflicted>>
vars == <<world, phase, scan, store, served>>

Services == Boxes \X Names
NoService == <<Nobody, Nobody>>

\* A listener on port, shown as node's service, dialling target's socket.
Forwards == [port : HostPorts, node : Boxes, target : Boxes, down : BOOLEAN]
NoForward == [port |-> NoPort, node |-> Nobody, target |-> Nobody, down |-> FALSE]

Stores == [Names -> HostPorts \cup {NoPort}]

\* What a process read, and whether the store was written since.
Loads == [ports : Stores, overtaken : BOOLEAN]

Forwarded == {n \in Names : serving[n] # NoForward}

Init ==
    /\ registry = [b \in Boxes |-> [n \in Names |-> "absent"]]
    /\ taken = {}
    /\ phase = "down"
    /\ unread = {} /\ found = {} /\ left = {} /\ live = {} /\ clash = {}
    /\ at = NoService
    /\ byName = [n \in Names |-> NoPort]
    /\ file = [n \in Names |-> NoPort]
    /\ loaded = {} /\ unsaved = {} /\ behind = FALSE
    /\ serving = [n \in Names |-> NoForward]
    /\ told = [n \in Names |-> Nobody]
    /\ conflicted = {}

--------------------------------------------------------------------------------
(* The boxes and the other programs on the host.                            *)

\* A box publishes a service, stops answering behind the files it left, or
\* answers again.
Publishes(b, n, how) ==
    /\ <<b, n>> \in Offers
    /\ registry[b][n] # how
    /\ registry' = [registry EXCEPT ![b][n] = how]
    /\ UNCHANGED <<taken, phase, scan, store, served>>

Answering(s) == registry[s[1]][s[2]] = "answering"

Bound == {serving[n].port : n \in Forwarded}

TakePort(p) ==
    /\ p \in Contested \ (taken \cup Bound)
    /\ taken' = taken \cup {p}
    /\ UNCHANGED <<registry, phase, scan, store, served>>

LeavePort(p) ==
    /\ p \in taken
    /\ taken' = taken \ {p}
    /\ UNCHANGED <<registry, phase, scan, store, served>>

--------------------------------------------------------------------------------
(* The process.                                                             *)

\* LoadPorts: a process reads the store, whether or not another one serves.
LoadPorts ==
    /\ Cardinality(loaded) < MaxLoaded
    /\ loaded' = loaded \cup {[ports |-> file, overtaken |-> FALSE]}
    /\ UNCHANGED <<world, phase, scan, byName, file, unsaved, behind, served>>

\* Mutant: the server starts with an empty store.
Start_Empty(a) ==
    /\ a \in loaded
    /\ phase = "down"
    /\ phase' = "idle"
    /\ loaded' = loaded \ {a}
    /\ byName' = [n \in Names |-> NoPort]
    /\ behind' = a.overtaken
    /\ UNCHANGED <<world, scan, file, unsaved, served>>

\* Serve: the index's port is free, and the process is the server.
Start(a) ==
    /\ a \in loaded
    /\ phase = "down"
    /\ phase' = "idle"
    /\ loaded' = loaded \ {a}
    /\ byName' = a.ports
    /\ behind' = a.overtaken
    /\ UNCHANGED <<world, scan, file, unsaved, served>>

\* The index's port is another server's or another program's, or the process is
\* killed before it gets there.
StartFails(a) ==
    /\ a \in loaded
    /\ loaded' = loaded \ {a}
    /\ UNCHANGED <<world, phase, scan, byName, file, unsaved, behind, served>>

\* Stopped by a signal or killed: its listeners and everything in memory go.  The
\* index's is closed first, so the next server may find the forwards' ports still
\* held for a moment.
Stop ==
    /\ phase # "down"
    /\ phase' = "down"
    /\ taken' \in {taken, taken \cup Bound}
    /\ unread' = {} /\ found' = {} /\ left' = {} /\ live' = {} /\ clash' = {}
    /\ at' = NoService
    /\ byName' = [n \in Names |-> NoPort]
    /\ unsaved' = {} /\ behind' = FALSE
    /\ serving' = [n \in Names |-> NoForward]
    /\ told' = [n \in Names |-> Nobody]
    /\ conflicted' = {}
    /\ UNCHANGED <<registry, file, loaded>>

--------------------------------------------------------------------------------
(* The scan (scanServices, ScanDir): box by box, in the order of their ids.  *)

ScanStart ==
    /\ phase = "idle"
    /\ phase' = "scan"
    /\ unread' = Boxes
    /\ UNCHANGED <<world, found, left, at, live, clash, store, served>>

ScanBox(b) ==
    /\ phase = "scan"
    /\ b \in unread
    /\ \A o \in unread : b <= o
    /\ unread' = unread \ {b}
    /\ found' = found \cup {<<b, n>> : n \in {m \in Names : registry[b][m] # "absent"}}
    /\ UNCHANGED <<world, phase, left, at, live, clash, store, served>>

ScanEnds ==
    /\ phase = "scan"
    /\ unread = {}
    /\ phase' = "sync"
    /\ left' = found
    /\ UNCHANGED <<world, unread, found, at, live, clash, store, served>>

\* The source reports an error: this round is over, and nothing changes.
ScanFails ==
    /\ ScanFaults
    /\ phase = "scan"
    /\ unread # {}
    /\ phase' = "idle"
    /\ unread' = {} /\ found' = {}
    /\ UNCHANGED <<world, left, at, live, clash, store, served>>

--------------------------------------------------------------------------------
(* The visit of one service found (Sync's loop), lower ids first.           *)

\* A box earlier in the list has the name (MarkConflicts).
Conflict(s) == \E o \in found : o[2] = s[2] /\ o[1] < s[1]

Visiting(s) ==
    /\ phase = "sync"
    /\ s \in left
    /\ \A o \in left : s[1] <= o[1]
    /\ left' = left \ {s}

\* Another box owns the name: shut out, and reported (tell) unless it was the
\* last one reported for it.
ShutOut(s) ==
    /\ Visiting(s)
    /\ Conflict(s)
    /\ clash' = clash \cup {s}
    /\ told' = [told EXCEPT ![s[2]] = s[1]]
    /\ UNCHANGED <<world, phase, unread, found, at, live, store, serving, conflicted>>

\* The owner of its name keeps its listener whether it answers or not.
Owner(s) ==
    /\ Visiting(s)
    /\ ~Conflict(s)
    /\ live' = live \cup {s[2]}

\* Mutant: the forward is still shown as the box's it was.
MarkDown_Node(s) ==
    /\ Owner(s)
    /\ s[2] \in Forwarded
    /\ ~Answering(s)
    /\ serving' = [serving EXCEPT ![s[2]].down = TRUE]
    /\ UNCHANGED <<world, phase, unread, found, at, clash, store, told, conflicted>>

\* Forwarded, and not answering (markDown): the target stays as it was.
MarkDown(s) ==
    /\ Owner(s)
    /\ s[2] \in Forwarded
    /\ ~Answering(s)
    /\ serving' = [serving EXCEPT ![s[2]] = [@ EXCEPT !.node = s[1], !.down = TRUE]]
    /\ UNCHANGED <<world, phase, unread, found, at, clash, store, told, conflicted>>

\* Mutant: the socket is left as it was.
Retarget_Node(s) ==
    /\ Owner(s)
    /\ s[2] \in Forwarded
    /\ Answering(s)
    /\ serving' = [serving EXCEPT ![s[2]] = [@ EXCEPT !.node = s[1], !.down = FALSE]]
    /\ UNCHANGED <<world, phase, unread, found, at, clash, store, told, conflicted>>

\* Forwarded, and answering (retarget), perhaps from another box than before.
Retarget(s) ==
    /\ Owner(s)
    /\ s[2] \in Forwarded
    /\ Answering(s)
    /\ serving' = [serving EXCEPT ![s[2]] =
          [@ EXCEPT !.node = s[1], !.target = s[1], !.down = FALSE]]
    /\ UNCHANGED <<world, phase, unread, found, at, clash, store, told, conflicted>>

\* Nothing listens for it and nothing answers behind it: the next scan's.
PassOver(s) ==
    /\ Owner(s)
    /\ s[2] \notin Forwarded
    /\ ~Answering(s)
    /\ UNCHANGED <<world, phase, unread, found, at, clash, store, served>>

--------------------------------------------------------------------------------
(* A listener is opened (open) on the assigned port (Ports).                *)

Opens(s) ==
    /\ Owner(s)
    /\ s[2] \notin Forwarded
    /\ Answering(s)
    /\ UNCHANGED <<world, unread, found, clash, served>>

\* Mutant: what the file says of others is not looked at.
Free_Loopback(a) == {p \in HostPorts : p \notin taken \cup Bound}

\* The ports a name may be given when the others have those of a: in nobody's
\* assignment, and free on the loopback at this moment.
Free(a) == {p \in HostPorts : /\ \A n \in Names : a[n] # p
                              /\ p \notin taken \cup Bound}

\* mint: the lowest of them is recorded for n, and the store written.
Mints(n, a, p) ==
    /\ p \in Free(a)
    /\ \A q \in Free(a) : p <= q
    /\ byName' = [a EXCEPT ![n] = p]

Overtaken(as) == {[a EXCEPT !.overtaken = TRUE] : a \in as}

\* Mutant: what is written is the store as it was.
Saved_Never ==
    /\ file' = file
    /\ unsaved' = {} /\ behind' = FALSE
    /\ loaded' = Overtaken(loaded)

\* The whole store is written, other names' failed saves made good with it.
Saved ==
    /\ file' = byName'
    /\ unsaved' = {} /\ behind' = FALSE
    /\ loaded' = Overtaken(loaded)

\* It could not be written.  The assignment stays in memory.
NotSaved(n) ==
    /\ SaveFaults
    /\ unsaved' = unsaved \cup {n}
    /\ UNCHANGED <<file, loaded, behind>>

\* Assign: the name has a port.
AssignKnown(s) ==
    /\ Opens(s)
    /\ byName[s[2]] # NoPort
    /\ phase' = "bind"
    /\ at' = s
    /\ UNCHANGED store

\* Assign: a first port for the name.
AssignNew(s) ==
    /\ Opens(s)
    /\ byName[s[2]] = NoPort
    /\ \E p \in HostPorts : Mints(s[2], byName, p)
    /\ Saved
    /\ phase' = "bind"
    /\ at' = s

\* The service is left to the next scan, which finds it an assignment.
AssignUnsaved(s) ==
    /\ Opens(s)
    /\ byName[s[2]] = NoPort
    /\ \E p \in HostPorts : Mints(s[2], byName, p)
    /\ NotSaved(s[2])
    /\ UNCHANGED <<phase, at>>

\* No port of the range is free: left to the next scan.
AssignNone(s) ==
    /\ Opens(s)
    /\ byName[s[2]] = NoPort
    /\ Free(byName) = {}
    /\ UNCHANGED <<phase, at, store>>

Forwarding(s) ==
    /\ serving' = [serving EXCEPT ![s[2]] =
          [port |-> byName[s[2]], node |-> s[1], target |-> s[1], down |-> FALSE]]
    /\ phase' = "sync"
    /\ at' = NoService

\* The listener is bound, and the forward registered.
Bind ==
    /\ phase \in {"bind", "rebind"}
    /\ byName[at[2]] \notin taken
    /\ Forwarding(at)
    /\ UNCHANGED <<world, unread, found, left, live, clash, store, told, conflicted>>

\* The assigned port is held by something else: given up for another (Reassign).
Without(n) == [byName EXCEPT ![n] = NoPort]

Moving ==
    /\ phase = "bind"
    /\ byName[at[2]] \in taken
    /\ UNCHANGED <<world, unread, found, left, live, clash, served>>

Move ==
    /\ Moving
    /\ \E p \in HostPorts : Mints(at[2], Without(at[2]), p)
    /\ Saved
    /\ phase' = "rebind"
    /\ UNCHANGED at

MoveUnsaved ==
    /\ Moving
    /\ \E p \in HostPorts : Mints(at[2], Without(at[2]), p)
    /\ NotSaved(at[2])
    /\ phase' = "sync"
    /\ at' = NoService

\* No other port: the name has none any more, but for the file, which Reassign does
\* not write.
MoveNowhere ==
    /\ Moving
    /\ Free(Without(at[2])) = {}
    /\ byName' = Without(at[2])
    /\ phase' = "sync"
    /\ at' = NoService
    /\ unsaved' = unsaved \cup {at[2]}
    /\ UNCHANGED <<file, loaded, behind>>

\* The new one was taken before it could be bound: left to the next scan.
MoveFails ==
    /\ phase = "rebind"
    /\ byName[at[2]] \in taken
    /\ phase' = "sync"
    /\ at' = NoService
    /\ UNCHANGED <<world, unread, found, left, live, clash, store, served>>

--------------------------------------------------------------------------------
\* The end of Sync: the names nothing publishes any more lose their listener.
SyncEnds ==
    /\ phase = "sync"
    /\ left = {}
    /\ phase' = "idle"
    /\ conflicted' = clash
    /\ serving' = [n \in Names |-> IF n \in live THEN serving[n] ELSE NoForward]
    /\ told' = [n \in Names |-> IF n \in Forwarded \ live THEN Nobody ELSE told[n]]
    /\ found' = {} /\ live' = {} /\ clash' = {}
    /\ UNCHANGED <<world, unread, left, at, store>>

\* What the server does of its own accord once it runs.
ServerStep ==
    \/ ScanStart \/ ScanEnds \/ \E b \in Boxes : ScanBox(b)
    \/ \E s \in Services :
          \/ ShutOut(s) \/ MarkDown(s) \/ Retarget(s) \/ PassOver(s)
          \/ AssignKnown(s) \/ AssignNew(s) \/ AssignUnsaved(s) \/ AssignNone(s)
    \/ Bind \/ Move \/ MoveUnsaved \/ MoveNowhere \/ MoveFails
    \/ SyncEnds

Next ==
    \/ \E b \in Boxes, n \in Names, how \in {"absent", "silent", "answering"} :
          Publishes(b, n, how)
    \/ \E p \in HostPorts : TakePort(p) \/ LeavePort(p)
    \/ LoadPorts \/ \E a \in loaded : Start(a) \/ StartFails(a)
    \/ Stop
    \/ ScanFails
    \/ ServerStep

Spec == Init /\ [][Next]_vars

\* The loop of Serve goes on: the sleep between two scans ends, and no step of
\* Sync waits for anybody (a probe gives up after its timeout).
FairSpec == Spec /\ WF_vars(ServerStep)

--------------------------------------------------------------------------------
(* Properties.                                                              *)

\* The variables hold values of their types.
ServerTypeOK ==
    /\ registry \in [Boxes -> [Names -> {"absent", "silent", "answering"}]]
    /\ taken \in SUBSET HostPorts
    /\ phase \in {"down", "idle", "scan", "sync", "bind", "rebind"}
    /\ unread \in SUBSET Boxes
    /\ found \in SUBSET Services
    /\ left \in SUBSET found
    /\ at \in Services \cup {NoService}
    /\ live \in SUBSET Names
    /\ clash \in SUBSET Services
    /\ byName \in Stores
    /\ file \in Stores
    /\ loaded \in SUBSET Loads
    /\ unsaved \in SUBSET Names
    /\ behind \in BOOLEAN
    /\ serving \in [Names -> Forwards \cup {NoForward}]
    /\ told \in [Names -> Boxes \cup {Nobody}]
    /\ conflicted \in SUBSET Services

OneToOne(a) == \A m, n \in Names : a[m] = a[n] /\ a[m] # NoPort => m = n

\* No two names ever have one address, in memory or in the store: "one name means
\* one host port" (MarkConflicts), across restarts and moves.
PortsDistinct == OneToOne(byName) /\ OneToOne(file)

\* The address a service answers on is the one in the store, which is what `dabs
\* services` prints for it from another process and what a restarted server gives
\* it again, but for two cases: the name's own save failed, and it is served all
\* the same (mint records before it saves), and no later name's save has succeeded;
\* or the store was another server's to write after this one had read it.
ServedIsSaved ==
    \A n \in Forwarded : n \in unsaved \/ behind \/ file[n] = serving[n].port

\* Between two rounds, the box a forward is shown for is never one the same round
\* reported as shut out: the listing and the server agree on who owns a name.
ShownIsOwner ==
    phase = "idle" => \A n \in Forwarded : <<serving[n].node, n>> \notin conflicted

\* A forward that is up dials the box it is shown for, whichever boxes its name
\* has moved between.
UpIsOwn ==
    \A n \in Forwarded : ~serving[n].down => serving[n].target = serving[n].node

\* While a name is published its listener stands, whether it answers or not and
\* whoever owns it: only a round that found it nowhere takes its port away.
ListenerStands ==
    [][\A n \in Forwarded :
          \/ phase' = "down"
          \/ serving'[n].port = serving[n].port
          \/ \A b \in Boxes : <<b, n>> \notin found]_vars

\* A saved address moves only when its port was found held by another program, and
\* by then nothing of dabs answers on it; or when a save makes good what was left
\* unwritten, or writes over what another server wrote: not because a server was
\* restarted, nor because another name was moved.
AddressKept ==
    [][\A n \in Names :
          file[n] # NoPort /\ file'[n] # file[n] =>
              \/ n \in unsaved
              \/ behind
              \/ byName[n] \in taken /\ n \notin Forwarded]_vars

\* Once the boxes and the ports have come to rest, with s the first to publish its
\* name and answering, the name's port leads to s and stays so.
Leads(s) ==
    /\ phase # "down"
    /\ Answering(s)
    /\ \A b \in Boxes : b < s[1] => registry[b][s[2]] = "absent"
    /\ taken = {}

OwnerIsReached ==
    \A s \in Services :
        <>[]Leads(s) => <>[](/\ s[2] \in Forwarded
                             /\ serving[s[2]].target = s[1]
                             /\ ~serving[s[2]].down)
================================================================================
