--------------------------------- MODULE Door ---------------------------------
(***************************************************************************)
(* One box's door from its outside and its inside: the relays that claim   *)
(* the door's path, the publishers in the box that dial it, hold a session *)
(* and dial again, and the crossings that carry bytes, an egress           *)
(* crossing's, a carried socket's and a stream's (src/core/door: relay.go  *)
(* Open, Serve, Close and hold, publish.go, egress.go, carry.go,           *)
(* couple.go; src/core/actions/door.go).                                   *)
(*                                                                         *)
(* What a relay does for a publication on the host is Publication.tla's,   *)
(* and its side of a stream Streams.tla's; here a publication is one entry *)
(* of the relay's table.  Time is counted in attempts: one that fails at   *)
(* once takes 1, one that hangs until the publisher's Idle takes Hang.     *)
(***************************************************************************)
EXTENDS Naturals, FiniteSets

CONSTANTS Relays,      \* relay processes aimed at one door, one after another or not
          Publishers,  \* `services publish` processes in the box, all of one name
          Crossings,   \* connections that carry bytes
          Nobody,
          Redial,      \* how long a publisher goes on with a door that does not answer
          Hang,        \* how long it waits for an answer
          Faults,      \* "bind", "open", "killed", "closed"
          Together     \* a bound: crossings carry bytes beside publishers, which
                       \* share nothing with them but the relay

ASSUME DoorAssumption ==
    /\ Nobody \notin Relays \cup Publishers
    /\ Redial \in Nat /\ Hang \in Nat \ {0}
    /\ Faults \subseteq {"bind", "open", "killed", "closed"}
    /\ Together \in BOOLEAN

VARIABLES
    registry,  \* the box may publish: its relays have a directory
    relay,     \* relay[r]: where relay r is
    lock,      \* who has the claim on the door
    door,      \* whose listener the door's path leads to, dead or alive
    mount,     \* the same of the path of the carried socket
    stolen,    \* a closing relay has unlinked another's door; no guard reads it
    table,     \* table[r]: the publisher relay r has the name published for
    pub,       \* pub[p]: the publisher p and its session
    late,      \* the crossings publishers gave up on, still to be read by a relay
    host,      \* the host program behind EGRESS and the carried socket answers
    cross      \* cross[x]: the crossing x

vars == <<registry, relay, lock, door, mount, stolen, table, pub, late, host, cross>>
claim == <<lock, door, mount, stolen>>

Fresh == [at |-> "new", silent |-> 0, to |-> Nobody, cut |-> FALSE]
NoCrossing == [kind |-> "none", at |-> "away", to |-> Nobody, timed |-> {}, past |-> FALSE, flows |-> {}]

Init ==
    /\ registry \in BOOLEAN
    /\ relay = [r \in Relays |-> "new"]
    /\ lock = Nobody /\ door = Nobody /\ mount = Nobody /\ stolen = FALSE
    /\ table = [r \in Relays |-> Nobody]
    /\ pub = [p \in Publishers |-> Fresh]
    /\ late = {}
    /\ host \in BOOLEAN
    /\ cross = [x \in Crossings |-> NoCrossing]

\* The relays whose listeners exist; a connection is queued there before Serve.
Bound == {"bound", "serving", "closed"}
Listens(r) == r # Nobody /\ relay[r] \in Bound
Mounts(r) == r # Nobody /\ relay[r] \in {"carrying"} \cup Bound

\* The connections of a process that ends are closed with it.
Severed(r) ==
    [x \in Crossings |-> IF cross[x].to = r /\ cross[x].at \notin {"away", "closed"}
                         THEN [cross[x] EXCEPT !.at = "closed"] ELSE cross[x]]

\* A session as the relay sees it.
Holds(p, r) == pub[p].at = "held" /\ pub[p].to = r /\ ~pub[p].cut

-----------------------------------------------------------------------------
(* A relay opens the door.                                                 *)

\* Mutant: the door is taken without a claim.
Unclaimed(r) ==
    /\ relay[r] = "new"
    /\ relay' = [relay EXCEPT ![r] = "claimed"]
    /\ UNCHANGED <<registry, claim, table, pub, late, host, cross>>

\* claimDoor: the kernel gives a lock to one, and takes it back from the dead.
Claim(r) ==
    /\ relay[r] = "new"
    /\ IF lock = Nobody
       THEN relay' = [relay EXCEPT ![r] = "claimed"] /\ lock' = r
       ELSE relay' = [relay EXCEPT ![r] = "over"] /\ UNCHANGED lock
    /\ UNCHANGED <<registry, stolen, door, mount, table, pub, late, host, cross>>

\* openCarries: what stands at the path is debris of a relay that is gone.
OpenCarries(r) ==
    /\ relay[r] = "claimed"
    /\ relay' = [relay EXCEPT ![r] = "carrying"]
    /\ mount' = r
    /\ UNCHANGED <<registry, stolen, lock, door, table, pub, late, host, cross>>

\* The door comes last: a boot waits for its path to appear.
BindDoor(r) ==
    /\ relay[r] = "carrying"
    /\ relay' = [relay EXCEPT ![r] = "bound"]
    /\ door' = r
    /\ UNCHANGED <<registry, stolen, lock, mount, table, pub, late, host, cross>>

\* A bind that fails has removed what stood at its path; the carried listener is
\* closed again and the claim let go.
BindFails(r) ==
    /\ "bind" \in Faults
    /\ \/ relay[r] = "claimed" /\ mount' = Nobody /\ UNCHANGED door
       \/ relay[r] = "carrying" /\ mount' = Nobody /\ door' = Nobody
    /\ relay' = [relay EXCEPT ![r] = "over"]
    /\ lock' = Nobody
    /\ cross' = Severed(r)
    /\ UNCHANGED <<registry, stolen, table, pub, late, host>>

Serve(r) ==
    /\ relay[r] = "bound"
    /\ relay' = [relay EXCEPT ![r] = "serving"]
    /\ UNCHANGED <<registry, claim, table, pub, late, host, cross>>

\* The process is reaped or killed: its paths stay, its lock and connections go.
Killed(r) ==
    /\ "killed" \in Faults
    /\ relay[r] \notin {"new", "over"}
    /\ relay' = [relay EXCEPT ![r] = "over"]
    /\ lock' = IF lock = r THEN Nobody ELSE lock
    /\ table' = [table EXCEPT ![r] = Nobody]
    /\ cross' = Severed(r)
    /\ UNCHANGED <<registry, stolen, door, mount, pub, late, host>>

\* Close: the publications, of which one nobody holds any more has no session to
\* cut, and the carried listener go, then the claim ...
Close(r) ==
    /\ "closed" \in Faults
    /\ relay[r] = "serving"
    /\ relay' = [relay EXCEPT ![r] = "closed"]
    /\ table' = [table EXCEPT ![r] = Nobody]
    /\ pub' = [p \in Publishers |-> IF table[r] = p /\ Holds(p, r)
                                    THEN [pub[p] EXCEPT !.cut = TRUE] ELSE pub[p]]
    /\ mount' = Nobody
    /\ lock' = IF lock = r THEN Nobody ELSE lock
    /\ UNCHANGED <<registry, stolen, door, late, host, cross>>

\* ... and only then the listener, which unlinks its path, whoever's it is.
CloseDoor(r) ==
    /\ relay[r] = "closed"
    /\ relay' = [relay EXCEPT ![r] = "over"]
    /\ door' = Nobody
    /\ stolen' = (stolen \/ door \notin {r, Nobody})
    /\ cross' = Severed(r)
    /\ UNCHANGED <<registry, lock, mount, table, pub, late, host>>

RelayStep(r) == Claim(r) \/ OpenCarries(r) \/ BindDoor(r) \/ Serve(r) \/ CloseDoor(r)

-----------------------------------------------------------------------------
(* A publisher: one session after another.                                 *)

Moves(p, to) == pub' = [pub EXCEPT ![p].at = to]

\* A door that is not there was never granted.
Begin(p) ==
    /\ pub[p].at = "new"
    /\ Together \/ \A x \in Crossings : cross[x].at = "away"
    /\ Moves(p, IF door = Nobody THEN "ended" ELSE "dialing")
    /\ UNCHANGED <<registry, relay, claim, table, late, host, cross>>

\* Mutant: every turn of the loop counts as an answer.
FailedAnswered(p, took) ==
    pub' = [pub EXCEPT ![p] = [at |-> "dialing", silent |-> 0, to |-> Nobody, cut |-> FALSE]]

\* An attempt without a session; the last answer is too long ago, or the door
\* is dialled again.
Failed(p, took) ==
    LET silent == pub[p].silent + took
    IN  pub' = [pub EXCEPT ![p] = [at |-> IF silent > Redial THEN "ended" ELSE "dialing",
                                   silent |-> IF silent > Redial THEN 0 ELSE silent,
                                   to |-> Nobody, cut |-> FALSE]]

Dial(p) ==
    /\ pub[p].at = "dialing"
    /\ IF Listens(door) THEN pub' = [pub EXCEPT ![p].at = "opening", ![p].to = door]
       ELSE Failed(p, 1)
    /\ UNCHANGED <<registry, relay, claim, table, late, host, cross>>

\* Mutant: a door that took the connection has answered.
HangsAnswered(p) ==
    /\ pub[p].at = "opening"
    /\ pub' = [pub EXCEPT ![p] = [at |-> "dialing", silent |-> 0, to |-> Nobody, cut |-> FALSE]]
    /\ late' = IF relay[pub[p].to] \in {"bound", "serving"} THEN late \cup {<<p, pub[p].to>>} ELSE late
    /\ UNCHANGED <<registry, relay, claim, table, host, cross>>

\* No answer within Idle: the publisher hangs up, and the relay, once it comes to
\* it, reads the header all the same.
Hangs(p) ==
    /\ pub[p].at = "opening"
    /\ Failed(p, IF relay[pub[p].to] = "over" THEN 1 ELSE Hang)
    /\ late' = IF relay[pub[p].to] \in {"bound", "serving"} THEN late \cup {<<p, pub[p].to>>} ELSE late
    /\ UNCHANGED <<registry, relay, claim, table, host, cross>>

\* The door is at a limit, or closing: BUSY.
Busy(p) ==
    /\ pub[p].at = "opening" /\ relay[pub[p].to] \in {"serving", "closed"}
    /\ Failed(p, 1)
    /\ UNCHANGED <<registry, relay, claim, table, late, host, cross>>

\* ERR: no grant, a name in the table, a file that failed.
Refused(p) ==
    /\ pub[p].at = "opening" /\ relay[pub[p].to] = "serving"
    /\ ~registry \/ table[pub[p].to] # Nobody \/ "open" \in Faults
    /\ Moves(p, "ended")
    /\ UNCHANGED <<registry, relay, claim, table, late, host, cross>>

\* hold, open and the reply; the session is an answer.
Hold(p) ==
    /\ pub[p].at = "opening" /\ relay[pub[p].to] = "serving" /\ registry
    /\ table[pub[p].to] = Nobody
    /\ table' = [table EXCEPT ![pub[p].to] = p]
    /\ pub' = [pub EXCEPT ![p].at = "held", ![p].silent = 0]
    /\ UNCHANGED <<registry, relay, claim, late, host, cross>>

\* The relay reads a crossing nobody holds any more: it takes the name until it
\* finds that out.
HoldLate(p, r) ==
    /\ <<p, r>> \in late
    /\ late' = late \ {<<p, r>>}
    /\ table' = IF registry /\ relay[r] = "serving" /\ table[r] = Nobody
                THEN [table EXCEPT ![r] = p] ELSE table
    /\ UNCHANGED <<registry, relay, claim, pub, host, cross>>

\* The relay ends a session: no PONG, or something else.
Cut(p) ==
    /\ pub[p].at = "held" /\ ~pub[p].cut /\ relay[pub[p].to] = "serving"
    /\ pub' = [pub EXCEPT ![p].cut = TRUE]
    /\ UNCHANGED <<registry, relay, claim, table, late, host, cross>>

\* The publisher's end of it: a crossing closed, a relay silent for Idle or not
\* understood.  It was answered, so the wait starts anew.
Lost(p) ==
    /\ pub[p].at = "held"
    /\ pub' = [pub EXCEPT ![p] = [at |-> "dialing", silent |-> 0, to |-> Nobody, cut |-> FALSE]]
    /\ UNCHANGED <<registry, relay, claim, table, late, host, cross>>

\* drop: the last thing the relay does of a session that ended.
Drop(r) ==
    /\ table[r] # Nobody /\ ~Holds(table[r], r)
    /\ table' = [table EXCEPT ![r] = Nobody]
    /\ UNCHANGED <<registry, relay, claim, pub, late, host, cross>>

Attempt(p) ==
    Dial(p) \/ Hangs(p) \/ (pub[p].at = "held" /\ relay[pub[p].to] = "over" /\ Lost(p))

-----------------------------------------------------------------------------
(* Crossings that carry bytes.                                             *)

\* A host program comes and goes.
HostMoves ==
    /\ host' = ~host
    /\ UNCHANGED <<registry, relay, claim, table, pub, late, cross>>

\* A dial of the door, or of the mount.  The relay gives a header its time, and
\* the publisher's own carry the reply.
Opens(x) ==
    /\ cross[x].at = "away"
    /\ Together \/ \A p \in Publishers : pub[p].at = "new"
    /\ \E kind \in {"egress", "carried", "stream"} :
         LET to == IF kind = "carried" THEN mount ELSE door
         IN  /\ IF kind = "carried" THEN Mounts(to) ELSE Listens(to)
             /\ cross' = [cross EXCEPT ![x] =
                   [kind |-> kind, at |-> IF kind = "carried" THEN "dialing" ELSE "opening", to |-> to,
                    timed |-> CASE kind = "egress" -> {"relay"} [] kind = "stream" -> {"relay", "box"}
                                [] OTHER -> {},
                    past |-> FALSE, flows |-> {}]]
    /\ UNCHANGED <<registry, relay, claim, table, pub, late, host>>

\* A deadline passes.  A read that waits for it fails; a dial of the host goes on.
Expires(x) ==
    /\ cross[x].at \in {"opening", "dialing", "answered", "coupled"} /\ cross[x].timed # {} /\ ~cross[x].past
    /\ cross' = [cross EXCEPT ![x].past = TRUE,
                              ![x].at = IF @ = "dialing" THEN @ ELSE "closed"]
    /\ UNCHANGED <<registry, relay, claim, table, pub, late, host>>

\* The header is read: BUSY, an ERR, or the relay goes to dial, or has the
\* client the stream is for.
Reads(x) ==
    /\ cross[x].at = "opening" /\ relay[cross[x].to] = "serving"
    /\ \E to \in {"closed", IF cross[x].kind = "egress" THEN "dialing" ELSE "answered"} :
         cross' = [cross EXCEPT ![x].at = to]
    /\ UNCHANGED <<registry, relay, claim, table, pub, late, host>>

\* Mutant: the header's deadline stays on the crossing.
CoupledTimed(c) == [c EXCEPT !.at = "coupled", !.flows = {"out", "in"}]

\* The deadlines of the opening are taken off what carries bytes.
Coupled(c) == [c EXCEPT !.at = "coupled", !.flows = {"out", "in"}, !.timed = {}]

\* dialHeld got through; a reply that can no longer be written ends it.
HostAnswers(x) ==
    /\ cross[x].at = "dialing" /\ relay[cross[x].to] \in {"serving", "closed"} /\ host
    /\ cross' = [cross EXCEPT ![x] = IF @.past THEN [@ EXCEPT !.at = "closed"] ELSE Coupled(@)]
    /\ UNCHANGED <<registry, relay, claim, table, pub, late, host>>

\* DialWait is over: this crossing fails, and no other.
DialGivenUp(x) ==
    /\ cross[x].at = "dialing" /\ relay[cross[x].to] \in {"serving", "closed"} /\ ~host
    /\ cross' = [cross EXCEPT ![x].at = "closed"]
    /\ UNCHANGED <<registry, relay, claim, table, pub, late, host>>

\* The publisher's carry dials the box's port once it was answered.
PortDialled(x) ==
    /\ cross[x].at = "answered"
    /\ cross' \in {[cross EXCEPT ![x] = Coupled(@)], [cross EXCEPT ![x].at = "closed"]}
    /\ UNCHANGED <<registry, relay, claim, table, pub, late, host>>

\* One end has no more to send, which the other is told; both, and it is over.
Ends(x) ==
    /\ cross[x].at = "coupled"
    /\ \E flow \in cross[x].flows :
         cross' = [cross EXCEPT ![x].flows = @ \ {flow},
                                ![x].at = IF cross[x].flows = {flow} THEN "closed" ELSE @]
    /\ UNCHANGED <<registry, relay, claim, table, pub, late, host>>

CrossingStep(x) == Reads(x) \/ HostAnswers(x) \/ DialGivenUp(x) \/ PortDialled(x) \/ Expires(x)

-----------------------------------------------------------------------------
Next ==
    \/ \E r \in Relays : RelayStep(r) \/ BindFails(r) \/ Killed(r) \/ Close(r) \/ Drop(r)
    \/ \E p \in Publishers :
         \/ Begin(p) \/ Dial(p) \/ Hangs(p) \/ Busy(p) \/ Refused(p) \/ Hold(p) \/ Cut(p) \/ Lost(p)
         \/ \E r \in Relays : HoldLate(p, r)
    \/ HostMoves
    \/ \E x \in Crossings : Opens(x) \/ CrossingStep(x) \/ Ends(x)

Spec == Init /\ [][Next]_vars

\* A relay's steps and a publisher's loop wait for nothing but their timers, and
\* a deadline that is set passes.
FairSpec ==
    /\ Spec
    /\ \A r \in Relays : WF_vars(RelayStep(r)) /\ WF_vars(Drop(r))
    /\ \A p \in Publishers : WF_vars(Attempt(p))
    /\ \A x \in Crossings : WF_vars(CrossingStep(x))

-----------------------------------------------------------------------------
(* What must hold.                                                         *)

\* A relay that serves is the one both paths lead to, however many are aimed at
\* the door and whatever dies between two of its steps ("one door is one relay",
\* Open); but for a Close, which lets the claim go before it unlinks the door and
\* may unlink the next one's.
DoorIsTheClaimants ==
    ~stolen =>
        \A r \in Relays : relay[r] = "serving" => lock = r /\ door = r /\ mount = r

\* Where the door leads to a relay that stands, so does the mount: what a boot
\* waits for is there last (Open: "every listener a mount is established against
\* is already standing"; spawnRelayFrom).
MountsStandFirst ==
    \A r \in Relays : door = r /\ relay[r] \in {"claimed", "carrying", "bound", "serving"} => mount = r

\* Bytes once flowing stop when both ends are through or the relay dies, never at
\* a deadline meant for the header (egress.go, relay.go stream, publish.go carry).
NothingIsCut ==
    [][\A x \in Crossings :
          cross[x].at = "coupled" /\ cross'[x].at = "closed"
            => Cardinality(cross[x].flows) = 1 \/ relay'[cross[x].to] = "over"]_vars

\* A door nothing answers any more is given up by every publisher (publish.go:
\* "has not answered for").
Over(p) == pub[p].at \in {"new", "ended"}
DeadDoorIsGivenUp ==
    <>[](\A r \in Relays : relay[r] = "over") => <>[](\A p \in Publishers : Over(p))

\* A publisher that dials comes to a session or to an end, though every relay be
\* alive and each attempt at it hang, be told BUSY or be cut off (publish.go: "how
\* long the publisher keeps trying a door that does not answer").
DialingEnds ==
    \A p \in Publishers : pub[p].at \in {"dialing", "opening"} ~> pub[p].at \in {"held", "ended"}

\* A crossing the relay took is coupled or closed, however long the host program
\* stays away (dialHeld: "a crossing that outwaits DialWait is closed by itself").
CrossingIsResolved ==
    \A x \in Crossings : cross[x].at \in {"opening", "dialing"} ~> cross[x].at \in {"coupled", "closed"}
=============================================================================
