------------------------------ MODULE Publication ------------------------------
(***************************************************************************)
(* The host side of one box's door (src/core/door/relay.go): how the relay *)
(* turns a PUBLISH crossing into a published service and takes it down     *)
(* again.  A publication is a name in the relay's table (published), a     *)
(* listening socket file and a descriptor file in the registry directory;  *)
(* one goroutine per crossing builds them up (publish, hold, open, serve)  *)
(* and whoever closes the publication first takes them down (close), while *)
(* Relay.Close may run at any moment.  One action is one step between two  *)
(* points where another goroutine, or a host scanning the directory, can   *)
(* look: a critical section of r.mu or p.mu, or one change of one file.    *)
(*                                                                         *)
(* The clients a publication serves are in Streams.tla.                    *)
(***************************************************************************)
EXTENDS Naturals, FiniteSets

CONSTANTS Crossings,        \* connections the box may have open to its door
          Names,            \* service names the box publishes under
          None,             \* no crossing, no name
          MaxPublications,  \* the publications one door carries at once
          OpeningCap,       \* the crossings that may be reading their first line
          AcceptFaults      \* the host may fail one of a service's accepts

ASSUME PublicationAssumption ==
    /\ None \notin Crossings
    /\ None \notin Names
    /\ IsFiniteSet(Names)
    /\ MaxPublications \in Nat \ {0}
    /\ OpeningCap \in Nat \ {0}
    /\ AcceptFaults \in BOOLEAN

VARIABLES
    stage,      \* stage[c]: where the goroutine serving crossing c stands
    nameOf,     \* nameOf[c]: the name c's PUBLISH header asks for
    closing,    \* closing[c]: how far c's publication is taken down (close)
    listening,  \* listening[c]: the service's listening descriptor is open
    accepting,  \* accepting[c]: the service's accept loop runs
    published,  \* Relay.published: the crossing registered under each name
    sock,       \* sock[n]: the crossing whose listener is bound at n.sock
    desc,       \* desc[n]: the crossing that wrote n.json
    opening,    \* the opening slots in use
    relay,      \* "up", "closing" once Close has set closed, "down" when it is through
    todo,       \* the publications Close has still to take down
    at          \* the publication Close is taking down

pubVars == <<stage, nameOf, closing, listening, accepting, published,
             sock, desc, opening, relay, todo, at>>

--------------------------------------------------------------------------------
(* The stages of a crossing.                                               *)

\* publish is between hold and its answer, or undoing what open did.
Opening == {"held", "listening", "described", "undoing", "undescribing",
            "undone", "failed"}

\* open succeeded: p.ln is set and the accept loop was started.
Stood == {"open", "serving", "leaving"}

Stages == {"none", "opening", "declared"} \cup Opening \cup Stood

\* close is between its first critical section and drop.
Closing == {"shut", "unlistened", "undescribed", "hungup"}

\* Nothing of the relay runs for c any more.
Quiet(c) == stage[c] = "none" /\ closing[c] \in {"no", "done"}

TakenNames == {n \in Names : published[n] # None}

Init ==
    /\ stage = [c \in Crossings |-> "none"]
    /\ nameOf = [c \in Crossings |-> None]
    /\ closing = [c \in Crossings |-> "no"]
    /\ listening = [c \in Crossings |-> FALSE]
    /\ accepting = [c \in Crossings |-> FALSE]
    /\ published = [n \in Names |-> None]
    /\ sock = [n \in Names |-> None]
    /\ desc = [n \in Names |-> None]
    /\ opening = 0
    /\ relay = "up"
    /\ todo = {}
    /\ at = None

--------------------------------------------------------------------------------
(* A crossing opens (cross).  A crossing whose goroutines have all ended is *)
(* free to stand for the next connection.                                   *)

\* The door takes connections until Relay.Close has closed its listener, the
\* last thing it does.
Dialled(c) ==
    /\ relay # "down"
    /\ Quiet(c)
    /\ c \notin todo \cup {at}
    /\ nameOf' = [nameOf EXCEPT ![c] = None]
    /\ closing' = [closing EXCEPT ![c] = "no"]

\* The crossing gets an opening slot.
Arrive(c) ==
    /\ Dialled(c)
    /\ opening < OpeningCap
    /\ opening' = opening + 1
    /\ stage' = [stage EXCEPT ![c] = "opening"]
    /\ UNCHANGED <<listening, accepting, published, sock, desc, relay, todo, at>>

\* Every opening slot is taken: BUSY, and hung up.
TurnAway(c) ==
    /\ Dialled(c)
    /\ opening >= OpeningCap
    /\ UNCHANGED <<stage, listening, accepting, published, sock, desc, opening,
                   relay, todo, at>>

\* The opening line is a well-formed PUBLISH; its slot is given back.
HeaderRead(c, n) ==
    /\ stage[c] = "opening"
    /\ opening' = opening - 1
    /\ stage' = [stage EXCEPT ![c] = "declared"]
    /\ nameOf' = [nameOf EXCEPT ![c] = n]
    /\ UNCHANGED <<closing, listening, accepting, published, sock, desc,
                   relay, todo, at>>

\* No line within HeaderWait, a line that is not this protocol's (hung up
\* without an answer), or a PUBLISH this door will not take (ERR).
HeaderBad(c) ==
    /\ stage[c] = "opening"
    /\ opening' = opening - 1
    /\ stage' = [stage EXCEPT ![c] = "none"]
    /\ UNCHANGED <<nameOf, closing, listening, accepting, published, sock, desc,
                   relay, todo, at>>

--------------------------------------------------------------------------------
(* The name is claimed (hold), under r.mu.                                  *)

HoldRefused(c) ==
    /\ stage' = [stage EXCEPT ![c] = "none"]
    /\ UNCHANGED <<nameOf, closing, listening, accepting, published, sock, desc,
                   opening, relay, todo, at>>

\* The relay is closing, or the box is at its publication limit.
HoldBusy(c) ==
    /\ stage[c] = "declared"
    /\ relay # "up" \/ Cardinality(TakenNames) >= MaxPublications
    /\ HoldRefused(c)

\* The name is taken: the door's decision.
HoldTaken(c) ==
    /\ stage[c] = "declared"
    /\ relay = "up"
    /\ Cardinality(TakenNames) < MaxPublications
    /\ published[nameOf[c]] # None
    /\ HoldRefused(c)

\* What hold does once nothing speaks against it.
TakeName(c) ==
    /\ published' = [published EXCEPT ![nameOf[c]] = c]
    /\ stage' = [stage EXCEPT ![c] = "held"]
    /\ UNCHANGED <<nameOf, closing, listening, accepting, sock, desc,
                   opening, relay, todo, at>>

\* Mutants: hold without one of its refusals, or with its limit off by one.
HoldName_Taken(c) ==
    /\ stage[c] = "declared"
    /\ relay = "up"
    /\ Cardinality(TakenNames) < MaxPublications
    /\ TakeName(c)

HoldName_OneTooMany(c) ==
    /\ stage[c] = "declared"
    /\ relay = "up"
    /\ Cardinality(TakenNames) <= MaxPublications
    /\ published[nameOf[c]] = None
    /\ TakeName(c)

HoldName_Closing(c) ==
    /\ stage[c] = "declared"
    /\ Cardinality(TakenNames) < MaxPublications
    /\ published[nameOf[c]] = None
    /\ TakeName(c)

HoldName(c) ==
    /\ stage[c] = "declared"
    /\ relay = "up"
    /\ Cardinality(TakenNames) < MaxPublications
    /\ published[nameOf[c]] = None
    /\ TakeName(c)

--------------------------------------------------------------------------------
(* The service's listener and descriptor are stood up (publication.open).   *)
(* Whatever stands at the socket's path is removed before the bind, and a   *)
(* listener unlinks its path, whoever's it is, when it is closed.           *)

\* Remove whatever is at the path, then bind.
Listen(c) ==
    /\ stage[c] = "held"
    /\ sock' = [sock EXCEPT ![nameOf[c]] = c]
    /\ listening' = [listening EXCEPT ![c] = TRUE]
    /\ stage' = [stage EXCEPT ![c] = "listening"]
    /\ UNCHANGED <<nameOf, closing, accepting, published, desc, opening,
                   relay, todo, at>>

ListenFails(c) ==
    /\ stage[c] = "held"
    /\ sock' = [sock EXCEPT ![nameOf[c]] = None]
    /\ stage' = [stage EXCEPT ![c] = "failed"]
    /\ UNCHANGED <<nameOf, closing, listening, accepting, published, desc,
                   opening, relay, todo, at>>

\* The descriptor is renamed into place.
Describe(c) ==
    /\ stage[c] = "listening"
    /\ desc' = [desc EXCEPT ![nameOf[c]] = c]
    /\ stage' = [stage EXCEPT ![c] = "described"]
    /\ UNCHANGED <<nameOf, closing, listening, accepting, published, sock,
                   opening, relay, todo, at>>

\* Closing the listener takes its socket file with it.
CloseListener(c) ==
    /\ sock' = [sock EXCEPT ![nameOf[c]] = None]
    /\ listening' = [listening EXCEPT ![c] = FALSE]

DescribeFails(c) ==
    /\ stage[c] = "listening"
    /\ CloseListener(c)
    /\ stage' = [stage EXCEPT ![c] = "failed"]
    /\ UNCHANGED <<nameOf, closing, accepting, published, desc, opening,
                   relay, todo, at>>

\* Mutants: open hands its listener over without looking whether it was closed
\* meanwhile; or forgets the accept loop.
Stand_Unchecked(c) ==
    /\ stage[c] = "described"
    /\ stage' = [stage EXCEPT ![c] = "open"]
    /\ accepting' = [accepting EXCEPT ![c] = TRUE]
    /\ UNCHANGED <<nameOf, closing, listening, published, sock, desc,
                   opening, relay, todo, at>>

\* Not closed meanwhile: p.ln is set and clients are accepted.
Stand(c) ==
    /\ stage[c] = "described"
    /\ closing[c] = "no"
    /\ stage' = [stage EXCEPT ![c] = "open"]
    /\ accepting' = [accepting EXCEPT ![c] = TRUE]
    /\ UNCHANGED <<nameOf, closing, listening, published, sock, desc,
                   opening, relay, todo, at>>

\* Closed meanwhile: open undoes what it did, one file after the other.
StandTooLate(c) ==
    /\ stage[c] = "described"
    /\ closing[c] # "no"
    /\ stage' = [stage EXCEPT ![c] = "undoing"]
    /\ UNCHANGED <<nameOf, closing, listening, accepting, published, sock,
                   desc, opening, relay, todo, at>>

UndoListener(c) ==
    /\ stage[c] = "undoing"
    /\ CloseListener(c)
    /\ stage' = [stage EXCEPT ![c] = "undescribing"]
    /\ UNCHANGED <<nameOf, closing, accepting, published, desc, opening,
                   relay, todo, at>>

UndoDescriptor(c) ==
    /\ stage[c] = "undescribing"
    /\ desc' = [desc EXCEPT ![nameOf[c]] = None]
    /\ stage' = [stage EXCEPT ![c] = "undone"]
    /\ UNCHANGED <<nameOf, closing, listening, accepting, published, sock,
                   opening, relay, todo, at>>

\* drop: forget the publication if it is still the one under its name.
DropName(c) ==
    published' = IF published[nameOf[c]] = c
                 THEN [published EXCEPT ![nameOf[c]] = None]
                 ELSE published

\* publish gives the name back and answers: BUSY when the relay closed under
\* it, ERR when a file could not be made.
GiveUp(c) ==
    /\ stage[c] \in {"undone", "failed"}
    /\ DropName(c)
    /\ stage' = [stage EXCEPT ![c] = "none"]
    /\ UNCHANGED <<nameOf, closing, listening, accepting, sock, desc, opening,
                   relay, todo, at>>

--------------------------------------------------------------------------------
(* The held crossing (publish after open, serve, ping, accept).             *)

Reply(c) ==
    /\ stage[c] = "open"
    /\ stage' = [stage EXCEPT ![c] = "serving"]
    /\ UNCHANGED <<nameOf, closing, listening, accepting, published, sock, desc,
                   opening, relay, todo, at>>

\* The reply could not be written, or serve read no PONG within Idle, something
\* else, or the end of the crossing: this goroutine goes on to close.
Lose(c) ==
    /\ stage[c] \in {"open", "serving"}
    /\ stage' = [stage EXCEPT ![c] = "leaving"]
    /\ UNCHANGED <<nameOf, closing, listening, accepting, published, sock,
                   desc, opening, relay, todo, at>>

\* One accept of the service's listener fails (the host is out of descriptors,
\* say): the accept loop returns, whatever the error.
AcceptFails(c) ==
    /\ AcceptFaults
    /\ listening[c] /\ accepting[c]
    /\ accepting' = [accepting EXCEPT ![c] = FALSE]
    /\ UNCHANGED <<stage, nameOf, closing, listening, published, sock,
                   desc, opening, relay, todo, at>>

--------------------------------------------------------------------------------
(* The publication is taken down (publication.close), once.                 *)

\* Mutants: close frees the name first, or with the listener, instead of last; or
\* leaves the descriptor to its publisher.
Shut_NameFirst(c) ==
    /\ closing[c] = "no"
    /\ stage[c] \in Stood \/ at = c
    /\ closing' = [closing EXCEPT ![c] = "shut"]
    /\ DropName(c)
    /\ UNCHANGED <<stage, nameOf, listening, accepting, sock, desc, opening,
                   relay, todo, at>>

Unlisten_NameToo(c) ==
    /\ closing[c] = "shut"
    /\ closing' = [closing EXCEPT ![c] = "unlistened"]
    /\ DropName(c)
    /\ IF stage[c] \in Stood
       THEN CloseListener(c) /\ accepting' = [accepting EXCEPT ![c] = FALSE]
       ELSE UNCHANGED <<sock, listening, accepting>>
    /\ UNCHANGED <<stage, nameOf, desc, opening, relay, todo, at>>

Undescribe_Left(c) ==
    /\ closing[c] = "unlistened"
    /\ closing' = [closing EXCEPT ![c] = "undescribed"]
    /\ UNCHANGED <<stage, nameOf, listening, accepting, published, sock, desc,
                   opening, relay, todo, at>>

\* Who may call close: the crossing's own goroutine, Relay.Close, and for a
\* publication that stands a ping or a carry whose line could not be sent.
Shut(c) ==
    /\ closing[c] = "no"
    /\ stage[c] \in Stood \/ at = c
    /\ closing' = [closing EXCEPT ![c] = "shut"]
    /\ UNCHANGED <<stage, nameOf, listening, accepting, published, sock,
                   desc, opening, relay, todo, at>>

\* The listener goes, when open had handed it over, and its accept loop with it.
Unlisten(c) ==
    /\ closing[c] = "shut"
    /\ closing' = [closing EXCEPT ![c] = "unlistened"]
    /\ IF stage[c] \in Stood
       THEN CloseListener(c) /\ accepting' = [accepting EXCEPT ![c] = FALSE]
       ELSE UNCHANGED <<sock, listening, accepting>>
    /\ UNCHANGED <<stage, nameOf, published, desc, opening, relay, todo, at>>

Undescribe(c) ==
    /\ closing[c] = "unlistened"
    /\ closing' = [closing EXCEPT ![c] = "undescribed"]
    /\ desc' = [desc EXCEPT ![nameOf[c]] = None]
    /\ UNCHANGED <<stage, nameOf, listening, accepting, published, sock,
                   opening, relay, todo, at>>

HangUp(c) ==
    /\ closing[c] = "undescribed"
    /\ closing' = [closing EXCEPT ![c] = "hungup"]
    /\ UNCHANGED <<stage, nameOf, listening, accepting, published, sock,
                   desc, opening, relay, todo, at>>

Drop(c) ==
    /\ closing[c] = "hungup"
    /\ closing' = [closing EXCEPT ![c] = "done"]
    /\ DropName(c)
    /\ UNCHANGED <<stage, nameOf, listening, accepting, sock, desc,
                   opening, relay, todo, at>>

\* close has returned to the crossing's goroutine, which ends.
Leave(c) ==
    /\ stage[c] = "leaving"
    /\ closing[c] = "done"
    /\ stage' = [stage EXCEPT ![c] = "none"]
    /\ UNCHANGED <<nameOf, closing, listening, accepting, published, sock,
                   desc, opening, relay, todo, at>>

--------------------------------------------------------------------------------
(* The relay closes (Relay.Close).                                          *)

CloseRelay ==
    /\ relay = "up"
    /\ relay' = "closing"
    /\ todo' = {c \in Crossings : \E n \in Names : published[n] = c}
    /\ UNCHANGED <<stage, nameOf, closing, listening, accepting, published,
                   sock, desc, opening, at>>

\* The publication Close last turned to is through.
TurnDone == at # None => closing[at] = "done"

ClosePublication(c) ==
    /\ relay = "closing"
    /\ TurnDone
    /\ c \in todo
    /\ at' = c
    /\ todo' = todo \ {c}
    /\ UNCHANGED <<stage, nameOf, closing, listening, accepting, published,
                   sock, desc, opening, relay>>

\* The claim on the door and the door's listener go last.
CloseDoor ==
    /\ relay = "closing"
    /\ TurnDone
    /\ todo = {}
    /\ relay' = "down"
    /\ at' = None
    /\ UNCHANGED <<stage, nameOf, closing, listening, accepting, published,
                   sock, desc, opening, todo>>

\* Everything has ended, in order.
Stopped ==
    /\ relay = "down"
    /\ \A c \in Crossings : Quiet(c)
    /\ UNCHANGED pubVars

--------------------------------------------------------------------------------
\* What the relay's goroutines do of their own accord.
Work(c) ==
    \/ HoldBusy(c) \/ HoldTaken(c) \/ HoldName(c)
    \/ Listen(c) \/ ListenFails(c)
    \/ Describe(c) \/ DescribeFails(c)
    \/ Stand(c) \/ StandTooLate(c) \/ UndoListener(c) \/ UndoDescriptor(c)
    \/ GiveUp(c) \/ Leave(c)

\* Once begun, close runs to its end.
CloseStep(c) == Unlisten(c) \/ Undescribe(c) \/ HangUp(c) \/ Drop(c)

RelayCloseStep == CloseDoor \/ \E c \in Crossings : ClosePublication(c)

Next ==
    \/ \E c \in Crossings :
          \/ Arrive(c) \/ TurnAway(c) \/ HeaderBad(c)
          \/ \E n \in Names : HeaderRead(c, n)
          \/ Work(c)
          \/ Reply(c) \/ Lose(c) \/ AcceptFails(c)
          \/ Shut(c) \/ CloseStep(c)
    \/ CloseRelay \/ RelayCloseStep
    \/ Stopped

Spec == Init /\ [][Next]_pubVars

\* Goroutines that can run do, HeaderWait ends the wait for an opening line, a
\* called close starts, a write to a crossing ends within its deadline, and a
\* read of a crossing that was hung up fails.  Nothing makes a box dial, a healthy
\* crossing end, or the relay close.
Fairness ==
    /\ \A c \in Crossings :
          /\ WF_pubVars(HeaderBad(c) \/ \E n \in Names : HeaderRead(c, n))
          /\ WF_pubVars(Work(c))
          /\ WF_pubVars(Reply(c) \/ (stage[c] = "open" /\ Lose(c)))
          /\ WF_pubVars(closing[c] \in {"hungup", "done"} /\ Lose(c))
          /\ WF_pubVars((stage[c] = "leaving" \/ at = c) /\ Shut(c))
          /\ WF_pubVars(CloseStep(c))
    /\ WF_pubVars(RelayCloseStep)

FairSpec == Spec /\ Fairness

--------------------------------------------------------------------------------
(* Properties.                                                              *)

\* The variables hold values of their types.
TypeOK ==
    /\ stage \in [Crossings -> Stages]
    /\ nameOf \in [Crossings -> Names \cup {None}]
    /\ closing \in [Crossings -> {"no", "done"} \cup Closing]
    /\ listening \in [Crossings -> BOOLEAN]
    /\ accepting \in [Crossings -> BOOLEAN]
    /\ published \in [Names -> Crossings \cup {None}]
    /\ sock \in [Names -> Crossings \cup {None}]
    /\ desc \in [Names -> Crossings \cup {None}]
    /\ opening \in Nat
    /\ relay \in {"up", "closing", "down"}
    /\ todo \in SUBSET Crossings
    /\ at \in Crossings \cup {None}

\* A listener that is open is the one its path leads to.  Binding removes what
\* stands at the path and closing a listener unlinks its path, whoever's it is
\* by then, so a publication taken down late could cut off the name's next one.
ListenerKeepsItsPath ==
    \A c \in Crossings : listening[c] => sock[nameOf[c]] = c

\* While its crossing is held and nobody has begun to close it, a publication
\* has its name, its socket and its descriptor, all three.
HeldIsPublished ==
    \A c \in Crossings :
        stage[c] \in {"open", "serving"} /\ closing[c] = "no" =>
            published[nameOf[c]] = c /\ sock[nameOf[c]] = c /\ desc[nameOf[c]] = c

Gone(c) == \A n \in Names : published[n] # c /\ sock[n] # c /\ desc[n] # c

\* When the relay has closed and its goroutines have ended, the registry holds
\* nothing of any publication: neither one that stood nor one Close overtook
\* between its listener and its handover to close (publication.open's undo).
ClosedLeavesNothing ==
    relay = "down" /\ (\A c \in Crossings : Quiet(c)) =>
        \A c \in Crossings : Gone(c) /\ ~listening[c]

\* What one box may make the host allocate: its open listeners, those of
\* publications that lost their name to a closing relay included, stay within
\* the publication limit.
ListenersBounded ==
    Cardinality({c \in Crossings : listening[c]}) <= MaxPublications

\* An opening slot is in use exactly as long as a crossing has yet to say what
\* it is: one that failed to say it must not cost the door a slot for good.
SlotsAccounted ==
    opening = Cardinality({c \in Crossings : stage[c] = "opening"})

\* The crossing closing is the deregistration: once its goroutine has judged it
\* lost, the publication is taken out of the table and off the disk.
EndIsDeregistration ==
    \A c \in Crossings : stage[c] = "leaving" ~> Gone(c)

\* Relay.Close ends, and the registry is then empty for good, whatever was being
\* published when it began.
CloseCompletes ==
    relay = "closing" ~> [](relay = "down" => \A c \in Crossings : Gone(c))

--------------------------------------------------------------------------------
(* The relay keeps the registry's promise (ServiceRegistry): what the        *)
(* directory has of a name at one instant.  A host's scan reads its two files *)
(* at two instants, which is RegistryScan.tla.                               *)

\* A descriptor and a socket stand side by side.
Visible == [n \in Names |-> IF sock[n] # None /\ desc[n] # None THEN desc[n] ELSE None]

\* Registered, not described yet, and the relay is closing.
Late == {<<nameOf[c], c>> : c \in {d \in Crossings :
                                    relay # "up" /\ stage[d] \in {"held", "listening"}}}

Registry == INSTANCE ServiceRegistry
    WITH holder <- published, visible <- Visible, open <- (relay = "up"), late <- Late

\* Names change hands only through nobody, a name is given up only once its
\* service can no longer be seen, and only a name's holder is seen behind it.
KeepsTheRegistry == Registry!Spec
================================================================================
