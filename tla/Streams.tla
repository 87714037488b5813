-------------------------------- MODULE Streams --------------------------------
(***************************************************************************)
(* The clients of a published service (src/core/door/relay.go: accept,     *)
(* carry, park, claim, stream, and the draining half of close), on top of  *)
(* the publications of Publication.tla.  A host program dials the          *)
(* service's socket; the relay mints a stream id, parks the connection     *)
(* under it, asks the box over the held crossing for a crossing to carry   *)
(* it, and couples the two when that crossing names the id.  Four parties  *)
(* race for a parked connection: the crossing that claims it, the          *)
(* StreamWait timer, a failed request, and the publication's close.        *)
(*                                                                         *)
(* Ids come from one counter under r.mu and none is minted twice, so a     *)
(* client stands here for its connection and for its id.                   *)
(***************************************************************************)
EXTENDS Publication

CONSTANTS Clients,         \* connections host programs make to the services
          StreamCrossings  \* crossings the box opens with a STREAM header

ASSUME StreamsAssumption == StreamCrossings \cap Crossings = {}

VARIABLES
    client,   \* client[k]: where connection k stands
    via,      \* via[k]: the publication k dialled
    carrier,  \* carrier[k]: the goroutine, then the timer, the relay runs for k
    stream    \* stream[s]: what the STREAM crossing s stands at

streamVars == <<client, via, carrier, stream>>
allVars == <<pubVars, streamVars>>

ClientStates == {"away", "queued", "accepted", "parked", "drained", "claimed",
                 "coupled", "closed"}

CarrierStates == {"none", "parking", "asking", "timed", "failed"}

\* seen: the publications claim found in the table; knew: whether the client was
\* parked when it looked.
StreamStates == [at : {"none", "opening", "looking", "answering", "coupled"},
                 want : Clients \cup {None},
                 seen : SUBSET Crossings,
                 knew : BOOLEAN]

NoStream == [at |-> "none", want |-> None, seen |-> {}, knew |-> FALSE]

StreamsInit ==
    /\ Init
    /\ client = [k \in Clients |-> "away"]
    /\ via = [k \in Clients |-> None]
    /\ carrier = [k \in Clients |-> "none"]
    /\ stream = [s \in StreamCrossings |-> NoStream]

\* Clients of c in state from, all moved to state to.
Move(c, from, to) ==
    client' = [k \in Clients |-> IF via[k] = c /\ client[k] = from THEN to ELSE client[k]]

--------------------------------------------------------------------------------
(* The publication's steps, with what they do to its clients.               *)

\* A crossing no goroutine or timer of an earlier publication refers to any more.
Unreferenced(c) == \A k \in Clients : via[k] = c => carrier[k] = "none" /\ client[k] # "queued"

NewCrossing(c) ==
    /\ Unreferenced(c)
    /\ Arrive(c) \/ TurnAway(c)
    /\ UNCHANGED streamVars

\* Closing a listener resets the connections waiting to be accepted on it.
ListenerGoes(c) ==
    /\ DescribeFails(c) \/ UndoListener(c) \/ Unlisten(c)
    /\ IF listening'[c] THEN UNCHANGED client ELSE Move(c, "queued", "closed")
    /\ UNCHANGED <<via, carrier, stream>>

\* close's critical section takes every parked connection.
ShutAndDrain(c) ==
    /\ Shut(c)
    /\ Move(c, "parked", "drained")
    /\ UNCHANGED <<via, carrier, stream>>

\* They are closed before the descriptor goes.
CloseDrained(c) ==
    /\ Undescribe(c)
    /\ Move(c, "drained", "closed")
    /\ UNCHANGED <<via, carrier, stream>>

\* The steps that touch no client.
OtherStep(c) ==
    /\ \/ HeaderBad(c) \/ \E n \in Names : HeaderRead(c, n)
       \/ HoldBusy(c) \/ HoldTaken(c) \/ HoldName(c)
       \/ Listen(c) \/ ListenFails(c) \/ Describe(c)
       \/ Stand(c) \/ StandTooLate(c) \/ UndoDescriptor(c) \/ GiveUp(c)
       \/ Reply(c) \/ Lose(c) \/ AcceptFails(c) \/ HangUp(c) \/ Drop(c) \/ Leave(c)
    /\ UNCHANGED streamVars

--------------------------------------------------------------------------------
(* A client arrives and is parked (accept, carry, park).                    *)

\* A host program dials the socket it found in the registry.
Connect(k, n) ==
    /\ client[k] = "away"
    /\ sock[n] # None
    /\ client' = [client EXCEPT ![k] = "queued"]
    /\ via' = [via EXCEPT ![k] = sock[n]]
    /\ UNCHANGED <<pubVars, carrier, stream>>

Accept(k) ==
    /\ client[k] = "queued"
    /\ accepting[via[k]]
    /\ client' = [client EXCEPT ![k] = "accepted"]
    /\ carrier' = [carrier EXCEPT ![k] = "parking"]
    /\ UNCHANGED <<pubVars, via, stream>>

\* Mutant: park without looking whether the publication is shut.
Park_Unchecked(k) ==
    /\ carrier[k] = "parking"
    /\ client' = [client EXCEPT ![k] = "parked"]
    /\ carrier' = [carrier EXCEPT ![k] = "asking"]
    /\ UNCHANGED <<pubVars, via, stream>>

\* A publication already shut takes none.
Park(k) ==
    /\ carrier[k] = "parking"
    /\ IF closing[via[k]] = "no"
       THEN /\ client' = [client EXCEPT ![k] = "parked"]
            /\ carrier' = [carrier EXCEPT ![k] = "asking"]
       ELSE /\ client' = [client EXCEPT ![k] = "closed"]
            /\ carrier' = [carrier EXCEPT ![k] = "none"]
    /\ UNCHANGED <<pubVars, via, stream>>

\* Mutant: no timer is set.
Ask_Untimed(k) ==
    /\ carrier[k] = "asking"
    /\ closing[via[k]] \notin {"hungup", "done"}
    /\ carrier' = [carrier EXCEPT ![k] = "none"]
    /\ UNCHANGED <<pubVars, client, via, stream>>

\* The request goes out on the held crossing, and the timer is set.
Ask(k) ==
    /\ carrier[k] = "asking"
    /\ closing[via[k]] \notin {"hungup", "done"}
    /\ carrier' = [carrier EXCEPT ![k] = "timed"]
    /\ UNCHANGED <<pubVars, client, via, stream>>

\* Mutant: the connection is closed whoever has it by now.
CloseIfParked_Regardless(k) == client' = [client EXCEPT ![k] = "closed"]

\* claim by id and close: nothing happens to a client that is not parked.
CloseIfParked(k) ==
    client' = IF client[k] = "parked" THEN [client EXCEPT ![k] = "closed"] ELSE client

\* The request could not be written: the goroutine goes on to close.
AskFails(k) ==
    /\ carrier[k] = "asking"
    /\ CloseIfParked(k)
    /\ carrier' = [carrier EXCEPT ![k] = "failed"]
    /\ UNCHANGED <<pubVars, via, stream>>

\* close has returned to it.
CarrierEnds(k) ==
    /\ carrier[k] = "failed"
    /\ closing[via[k]] = "done"
    /\ carrier' = [carrier EXCEPT ![k] = "none"]
    /\ UNCHANGED <<pubVars, client, via, stream>>

StreamWaitOver(k) ==
    /\ carrier[k] = "timed"
    /\ CloseIfParked(k)
    /\ carrier' = [carrier EXCEPT ![k] = "none"]
    /\ UNCHANGED <<pubVars, via, stream>>

--------------------------------------------------------------------------------
(* The box opens a crossing for an id (cross, stream, Relay.claim).  The id  *)
(* is whatever the box writes: one nobody asked it for, or one already used. *)

otherPubVars == <<stage, nameOf, closing, listening, accepting, published, sock,
                  desc, relay, todo, at>>

StreamArrives(s, k) ==
    /\ stream[s].at = "none"
    /\ relay # "down"
    /\ opening < OpeningCap
    /\ opening' = opening + 1
    /\ stream' = [stream EXCEPT ![s] = [NoStream EXCEPT !.at = "opening", !.want = k]]
    /\ UNCHANGED <<otherPubVars, client, via, carrier>>

\* The line never came, or carries no id.
StreamHeaderBad(s) ==
    /\ stream[s].at = "opening"
    /\ opening' = opening - 1
    /\ stream' = [stream EXCEPT ![s] = NoStream]
    /\ UNCHANGED <<otherPubVars, client, via, carrier>>

\* The slot is given back, and the table is copied under r.mu.
StreamLooks(s) ==
    /\ stream[s].at = "opening"
    /\ opening' = opening - 1
    /\ stream' = [stream EXCEPT ![s].at = "looking",
                                ![s].seen = {published[n] : n \in TakenNames},
                                ![s].knew = client[stream[s].want] = "parked"]
    /\ UNCHANGED <<otherPubVars, client, via, carrier>>

\* Whether the id is parked with one of the publications in the copy.
Claimable(s) ==
    /\ client[stream[s].want] = "parked"
    /\ via[stream[s].want] \in stream[s].seen

StreamClaims(s) ==
    /\ stream[s].at = "looking"
    /\ Claimable(s)
    /\ client' = [client EXCEPT ![stream[s].want] = "claimed"]
    /\ stream' = [stream EXCEPT ![s].at = "answering"]
    /\ UNCHANGED <<pubVars, via, carrier>>

StreamRefused(s) ==
    /\ stream[s].at = "looking"
    /\ ~Claimable(s)
    /\ stream' = [stream EXCEPT ![s] = NoStream]
    /\ UNCHANGED <<pubVars, client, via, carrier>>

StreamReplies(s) ==
    /\ stream[s].at = "answering"
    /\ client' = [client EXCEPT ![stream[s].want] = "coupled"]
    /\ stream' = [stream EXCEPT ![s].at = "coupled"]
    /\ UNCHANGED <<pubVars, via, carrier>>

\* The reply could not be written, or both directions of the pipe have ended:
\* both connections are closed.
StreamEnds(s) ==
    /\ stream[s].at \in {"answering", "coupled"}
    /\ client' = [client EXCEPT ![stream[s].want] = "closed"]
    /\ stream' = [stream EXCEPT ![s] = NoStream]
    /\ UNCHANGED <<pubVars, via, carrier>>

--------------------------------------------------------------------------------
RelayStep ==
    /\ CloseRelay \/ RelayCloseStep
    /\ UNCHANGED streamVars

StreamsStopped ==
    /\ Stopped
    /\ \A k \in Clients : carrier[k] = "none"
    /\ \A s \in StreamCrossings : stream[s].at = "none"
    /\ UNCHANGED streamVars

CarrierStep(k) ==
    Park(k) \/ Ask(k) \/ AskFails(k) \/ CarrierEnds(k) \/ StreamWaitOver(k)

StreamStep(s) == StreamClaims(s) \/ StreamRefused(s) \/ StreamReplies(s)

StreamsNext ==
    \/ \E c \in Crossings :
          \/ NewCrossing(c) \/ ListenerGoes(c)
          \/ ShutAndDrain(c) \/ CloseDrained(c) \/ OtherStep(c)
    \/ RelayStep
    \/ \E k \in Clients :
          \/ \E n \in Names : Connect(k, n)
          \/ Accept(k) \/ CarrierStep(k)
          \/ \E s \in StreamCrossings : StreamArrives(s, k)
    \/ \E s \in StreamCrossings :
          StreamHeaderBad(s) \/ StreamLooks(s) \/ StreamStep(s) \/ StreamEnds(s)
    \/ StreamsStopped

StreamsSpec == StreamsInit /\ [][StreamsNext]_allVars

\* As Publication's fairness; an accept loop that runs takes what waits, a write
\* ends within its deadline, the StreamWait timer goes off, HeaderWait ends the
\* wait for a line.  Nothing makes a pipe end, nor the box open a crossing.
StreamsFairness ==
    /\ \A c \in Crossings :
          /\ WF_allVars(OtherStep(c) /\ stage[c] = "opening")
          /\ WF_allVars(OtherStep(c) /\ stage[c] \notin {"none", "opening", "open", "serving"}
                                     /\ stage' # stage)
          /\ WF_allVars(stage[c] = "open" /\ (Reply(c) \/ Lose(c)) /\ UNCHANGED streamVars)
          /\ WF_allVars(closing[c] \in {"hungup", "done"} /\ Lose(c) /\ UNCHANGED streamVars)
          /\ WF_allVars(ListenerGoes(c))
          /\ WF_allVars(/\ \/ stage[c] = "leaving" \/ at = c
                           \/ \E k \in Clients : via[k] = c /\ carrier[k] = "failed"
                        /\ ShutAndDrain(c))
          /\ WF_allVars(CloseDrained(c))
          /\ WF_allVars((HangUp(c) \/ Drop(c)) /\ UNCHANGED streamVars)
    /\ WF_allVars(RelayCloseStep /\ UNCHANGED streamVars)
    /\ \A k \in Clients : WF_allVars(Accept(k)) /\ WF_allVars(CarrierStep(k))
    /\ \A s \in StreamCrossings :
          /\ WF_allVars(StreamHeaderBad(s) \/ StreamLooks(s))
          /\ WF_allVars(StreamStep(s))

StreamsFairSpec == StreamsSpec /\ StreamsFairness

--------------------------------------------------------------------------------
(* Properties.                                                              *)

\* The variables hold values of their types.
StreamsTypeOK ==
    /\ TypeOK
    /\ client \in [Clients -> ClientStates]
    /\ via \in [Clients -> Crossings \cup {None}]
    /\ carrier \in [Clients -> CarrierStates]
    /\ stream \in [StreamCrossings -> StreamStates]

\* A connection is parked only with a publication that stands and that nobody has
\* begun to close: close takes the parked ones in the section that shuts the
\* publication, and a carry that was on its way in finds it shut.
ParkedWithTheStanding ==
    \A k \in Clients : client[k] = "parked" =>
        stage[via[k]] \in Stood /\ closing[via[k]] = "no"

\* The connection a STREAM crossing has claimed is its alone: no second crossing
\* with the same id has it, and neither the timer, nor a failed request, nor the
\* publication's close has closed it under the pipe.
ClaimedByOne ==
    \A s \in StreamCrossings : stream[s].at \in {"answering", "coupled"} =>
        /\ client[stream[s].want] = IF stream[s].at = "coupled" THEN "coupled" ELSE "claimed"
        /\ \A t \in StreamCrossings :
              stream[t].at \in {"answering", "coupled"} /\ stream[t].want = stream[s].want => t = s

\* The search over a copy of the table misses nothing: a connection that was
\* parked when the crossing looked, and still is, is with a publication in the
\* copy, so the crossing the box was asked for is never refused.
ParkedIsFound ==
    \A s \in StreamCrossings :
        stream[s].at = "looking" /\ stream[s].knew /\ client[stream[s].want] = "parked" =>
            via[stream[s].want] \in stream[s].seen

\* A slot serves one crossing that has yet to say what it is, publishing and
\* carrying ones alike, and comes back whatever that crossing turns out to be.
SlotsShared ==
    opening = Cardinality({c \in Crossings : stage[c] = "opening"})
              + Cardinality({s \in StreamCrossings : stream[s].at = "opening"})

\* A client the relay accepted is carried or closed in the end, whatever the box
\* does or leaves undone.
AcceptedIsResolved ==
    \A k \in Clients : client[k] = "accepted" ~> client[k] \in {"coupled", "closed"}

\* A client that connected to a service the host found is taken up or hung up on:
\* the registry does not describe a service nothing answers for.
ConnectedIsAnswered ==
    \A k \in Clients : client[k] = "queued" ~> client[k] # "queued"

\* The reply is the first line of a held crossing: a box told to open a stream
\* before it is told its publication stands takes the request for the reply.
ReplyComesFirst ==
    \A k \in Clients : carrier[k] = "timed" => stage[via[k]] # "open"
================================================================================
