------------------------------- MODULE NameClaim -------------------------------
(***************************************************************************)
(* How a boot takes the node name it was asked for (src/core/actions/      *)
(* name.go, with the boot around it): `dabs up --name` runs as a process of *)
(* its own, several may ask for one name, and all they share is the name's *)
(* directory under ~/.dabs/nodes: a claim marker from the reservation on,  *)
(* a node record once the box is up.  A boot may die at any step, its box  *)
(* may stop later; the next boot reaps an inactive holder's node and       *)
(* reclaims what a dead boot left.                                         *)
(*                                                                         *)
(* One action is one file operation, or one question to the drivers.  The  *)
(* removal of a directory is one step.                                     *)
(***************************************************************************)
EXTENDS Naturals

CONSTANTS Boots,    \* the processes that boot a box under the name, each once
          NoBoot,   \* none of them
          Silent    \* a driver may leave a question unanswered

ASSUME NameAssumption ==
    /\ NoBoot \notin Boots
    /\ Silent \in BOOLEAN

VARIABLES
    dir,      \* the name's directory exists
    marker,   \* the boot whose claim marker stands in it
    stale,    \* the marker is older than claimStale
    record,   \* the boot whose node record stands in it
    kept,     \* there is something under it a claim must not take: files in the
              \* volume or held space, unmerged work on a checkout
    namesake, \* another node's box runs under the name as its instance name
    running,  \* the boots whose box runs
    at,       \* at[b]: where boot b stands
    saw,      \* saw[b]: the holder in b's listing of the nodes
    cleared   \* cleared[b]: what b has removed to get the name

files == <<dir, marker, stale, record, kept>>
vars == <<files, namesake, running, at, saw, cleared>>

Stages == {"new", "judge", "reap", "mkdir", "mark", "record", "age", "sleep",
           "record again", "age again", "remove",
           "claimed", "booted", "up", "refused", "held", "unverified", "dead"}

\* The stages of a boot that is judging or reserving the name.
Taking == {"judge", "reap", "mkdir", "mark", "record", "age", "sleep",
           "record again", "age again", "remove"}

Init ==
    /\ dir = FALSE
    /\ marker = NoBoot
    /\ stale = FALSE
    /\ record = NoBoot
    /\ kept = FALSE
    /\ namesake = FALSE
    /\ running = {}
    /\ at = [b \in Boots |-> "new"]
    /\ saw = [b \in Boots |-> NoBoot]
    /\ cleared = [b \in Boots |-> {}]

Go(b, stage) == at' = [at EXCEPT ![b] = stage]

Fresh == marker # NoBoot /\ ~stale

\* RemoveAll of the name's directory, whoever's it is by now.
RemoveDir ==
    /\ dir' = FALSE
    /\ marker' = NoBoot
    /\ stale' = FALSE
    /\ record' = NoBoot
    /\ kept' = FALSE

--------------------------------------------------------------------------------
(* The holder (claimNodeName, reapInactiveHolder).                          *)

\* The node store is listed once; all that follows about the holder uses this.  A
\* box of another node that runs under the name refuses it.
List(b) ==
    /\ at[b] = "new"
    /\ saw' = [saw EXCEPT ![b] = record]
    /\ Go(b, IF namesake THEN "held" ELSE IF record = NoBoot THEN "mkdir" ELSE "judge")
    /\ UNCHANGED <<files, namesake, running, cleared>>

\* A driver did not answer: silence is not proof the box is gone.
JudgeUnknown(b) ==
    /\ Silent
    /\ at[b] = "judge"
    /\ Go(b, "unverified")
    /\ UNCHANGED <<files, namesake, running, saw, cleared>>

\* Its box runs: refused.
JudgeActive(b) ==
    /\ at[b] = "judge"
    /\ saw[b] \in running
    /\ Go(b, "refused")
    /\ UNCHANGED <<files, namesake, running, saw, cleared>>

\* Its box is gone, but not what it kept (claimSelfActive, foreignWorktrees).
JudgeKept(b) ==
    /\ at[b] = "judge"
    /\ saw[b] \notin running
    /\ kept
    /\ Go(b, "held")
    /\ UNCHANGED <<files, namesake, running, saw, cleared>>

JudgeInactive(b) ==
    /\ at[b] = "judge"
    /\ saw[b] \notin running
    /\ ~kept
    /\ Go(b, "reap")
    /\ UNCHANGED <<files, namesake, running, saw, cleared>>

\* The node listed is removed, its directory by name (rmResolved, reapSpaces).
Reap(b) ==
    /\ at[b] = "reap"
    /\ RemoveDir
    /\ cleared' = [cleared EXCEPT ![b] = @ \cup {"holder"}]
    /\ Go(b, "mkdir")
    /\ UNCHANGED <<namesake, running, saw>>

--------------------------------------------------------------------------------
(* The reservation (reserveNodeDir).                                        *)

\* Mkdir, which one caller at most gets to do.
Mkdir(b) ==
    /\ at[b] = "mkdir"
    /\ ~dir
    /\ dir' = TRUE
    /\ Go(b, "mark")
    /\ UNCHANGED <<marker, stale, record, kept, namesake, running, saw, cleared>>

MkdirTaken(b) ==
    /\ at[b] = "mkdir"
    /\ dir
    /\ Go(b, "record")
    /\ UNCHANGED <<files, namesake, running, saw, cleared>>

\* The marker is written into the directory, if there still is one.
Mark(b) ==
    /\ at[b] = "mark"
    /\ dir
    /\ marker' = b
    /\ stale' = FALSE
    /\ Go(b, "claimed")
    /\ UNCHANGED <<dir, record, kept, namesake, running, saw, cleared>>

MarkFails(b) ==
    /\ at[b] = "mark"
    /\ ~dir
    /\ Go(b, "refused")
    /\ UNCHANGED <<files, namesake, running, saw, cleared>>

\* A record means a winner.
ReadRecord(b) ==
    /\ at[b] \in {"record", "record again"}
    /\ Go(b, IF record # NoBoot THEN "refused"
             ELSE IF at[b] = "record" THEN "age" ELSE "age again")
    /\ UNCHANGED <<files, namesake, running, saw, cleared>>

\* Mutant: an old marker is taken for a boot mid-claim.
ReadMarker_AnyAge(b) ==
    /\ at[b] \in {"age", "age again"}
    /\ Go(b, IF marker # NoBoot THEN "refused"
             ELSE IF at[b] = "age" THEN "sleep" ELSE "remove")
    /\ UNCHANGED <<files, namesake, running, saw, cleared>>

\* Mutant: the marker is not looked at.
ReadMarker_Not(b) ==
    /\ at[b] \in {"age", "age again"}
    /\ Go(b, IF at[b] = "age" THEN "sleep" ELSE "remove")
    /\ UNCHANGED <<files, namesake, running, saw, cleared>>

\* A fresh marker means a boot mid-claim; anything else is litter.
ReadMarker(b) ==
    /\ at[b] \in {"age", "age again"}
    /\ Go(b, IF Fresh THEN "refused"
             ELSE IF at[b] = "age" THEN "sleep" ELSE "remove")
    /\ UNCHANGED <<files, namesake, running, saw, cleared>>

\* The look is taken again after a beat, which is enough for a boot that sat
\* between its Mkdir and its marker.
Wake(b) ==
    /\ at[b] = "sleep"
    /\ \A c \in Boots : at[c] # "mark"
    /\ Go(b, "record again")
    /\ UNCHANGED <<files, namesake, running, saw, cleared>>

\* Litter is removed, and the create tried once more.
Remove(b) ==
    /\ at[b] = "remove"
    /\ RemoveDir
    /\ cleared' = [cleared EXCEPT ![b] = @ \cup {"litter"}]
    /\ Go(b, IF "litter" \in cleared[b] THEN "refused" ELSE "mkdir")
    /\ UNCHANGED <<namesake, running, saw>>

--------------------------------------------------------------------------------
(* The boot that follows (bootDetached, buildBox, writeNode).               *)

BoxUp(b) ==
    /\ at[b] = "claimed"
    /\ running' = running \cup {b}
    /\ Go(b, "booted")
    /\ UNCHANGED <<files, namesake, saw, cleared>>

\* writeNode makes the directory again when it is gone.
WriteRecord(b) ==
    /\ at[b] = "booted"
    /\ dir' = TRUE
    /\ record' = b
    /\ Go(b, "up")
    /\ UNCHANGED <<marker, stale, kept, namesake, running, saw, cleared>>

Over(b) == at[b] \in {"up", "refused", "held", "unverified", "dead"}

\* The boot fails or is killed; one that fails takes its box down first.
Dies(b) ==
    /\ ~Over(b)
    /\ Go(b, "dead")
    /\ running' \in {running, running \ {b}}
    /\ UNCHANGED <<files, namesake, saw, cleared>>

BoxStops(b) ==
    /\ b \in running
    /\ at[b] \in {"up", "dead"}
    /\ running' = running \ {b}
    /\ UNCHANGED <<files, namesake, at, saw, cleared>>

\* A box writes what is to be kept, or somebody commits to a checkout under it;
\* somebody clears that away.
Keeps(b) ==
    /\ b \in running
    /\ marker = b
    /\ kept' = TRUE
    /\ UNCHANGED <<dir, marker, stale, record, namesake, running, at, saw, cleared>>

Clears ==
    /\ kept
    /\ kept' = FALSE
    /\ UNCHANGED <<dir, marker, stale, record, namesake, running, at, saw, cleared>>

\* A box of another node comes to run under the name, or goes.
Namesake ==
    /\ namesake' = ~namesake
    /\ UNCHANGED <<files, running, at, saw, cleared>>

\* An hour passes, which nobody takes to reserve a name, nor to boot.
MarkerAges ==
    /\ Fresh
    /\ \A b \in Boots : at[b] \notin Taking
    /\ at[marker] \notin {"claimed", "booted"}
    /\ stale' = TRUE
    /\ UNCHANGED <<dir, marker, record, kept, namesake, running, at, saw, cleared>>

--------------------------------------------------------------------------------
AllOver ==
    /\ \A b \in Boots : Over(b)
    /\ UNCHANGED vars

BootStep(b) ==
    \/ List(b) \/ JudgeUnknown(b) \/ JudgeActive(b) \/ JudgeKept(b) \/ JudgeInactive(b)
    \/ Reap(b)
    \/ Mkdir(b) \/ MkdirTaken(b) \/ Mark(b) \/ MarkFails(b)
    \/ ReadRecord(b) \/ ReadMarker(b) \/ Wake(b) \/ Remove(b)
    \/ BoxUp(b) \/ WriteRecord(b)

Next ==
    \/ \E b \in Boots : BootStep(b) \/ Dies(b) \/ BoxStops(b) \/ Keeps(b)
    \/ Clears \/ Namesake \/ MarkerAges
    \/ AllOver

Spec == Init /\ [][Next]_vars

\* A process that runs goes on, or dies.
FairSpec == Spec /\ \A b \in Boots : WF_vars(BootStep(b))

--------------------------------------------------------------------------------
(* Properties.                                                              *)

\* The variables hold values of their types, and files lie in a directory.
NameTypeOK ==
    /\ dir \in BOOLEAN
    /\ marker \in Boots \cup {NoBoot}
    /\ stale \in BOOLEAN
    /\ record \in Boots \cup {NoBoot}
    /\ kept \in BOOLEAN
    /\ namesake \in BOOLEAN
    /\ running \in SUBSET Boots
    /\ at \in [Boots -> Stages]
    /\ saw \in [Boots -> Boots \cup {NoBoot}]
    /\ cleared \in [Boots -> SUBSET {"holder", "litter"}]
    /\ ~dir => marker = NoBoot /\ record = NoBoot /\ ~kept

\* The boot has the name: it was told so, and its box is not gone.
Holds(b) == at[b] \in {"claimed", "booted"} \/ (at[b] = "up" /\ b \in running)

\* "Two boots claiming one name race to that create; exactly one wins."
OneWinner == \A b, c \in Boots : Holds(b) /\ Holds(c) => b = c

\* One boot at most has reaped a holder or reclaimed litter.
OneClears == \A b, c \in Boots : cleared[b] # {} /\ cleared[c] # {} => b = c

\* Boots that die leave a name that a single boot clears and reserves safely: two
\* can hold it only when two have cleared it (reserveNodeDir's exclusive create).
CreateDecides == OneClears => OneWinner

\* With one boot clearing, no box runs under a name whose record is another's:
\* what `dabs rm <name>` takes down is the box that has the name.
RecordIsTheBox ==
    OneClears => \A b \in Boots : at[b] = "up" /\ b \in running => record = b

\* The boot comes when the others are over, their boxes gone, no marker fresh.
Alone(b) ==
    /\ at[b] = "new"
    /\ \A c \in Boots \ {b} : Over(c) /\ c \notin running
    /\ ~Fresh

\* A name is not used up by boots that died at any step or whose box is gone: one
\* that comes alone gets it, or dies itself, or cannot have the holder verified, or
\* finds what only a person may clear away: files or work kept under the name, or
\* another node's box running under it.  No marker, record or directory that a dead
\* boot left refuses it.
NameComesBack == \A b \in Boots : Alone(b) ~> at[b] \in {"up", "unverified", "held", "dead"}
================================================================================
