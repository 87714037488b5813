------------------------------ MODULE BoxLifecycle ------------------------------
(***************************************************************************)
(* The life of boxes (src/core/actions, main.go): `dabs up` and `dabs recipe` *)
(* each boot a box of their own with the host processes it needs, the proxy *)
(* engine and the door's relay, and record both in the box's node; a recipe's *)
(* run takes the box down when its command ends; `dabs rm` takes it down from *)
(* another process.  Each of these can fail half way, be killed, or be      *)
(* interrupted, on which a recipe sweeps the boxes that appeared since it    *)
(* began; and what they know of one another is the node record and what the *)
(* driver answers.                                                           *)
(*                                                                         *)
(* A boot, its box, its node and its instance have one name.  One action is  *)
(* one question to the driver, one change of a process, one file operation. *)
(***************************************************************************)
EXTENDS FiniteSets

CONSTANTS Boots,     \* the processes that boot a box
          Removers,  \* the processes that remove one: `dabs rm`
          Kinds,     \* how boxes are booted, of AllKinds
          Grants,    \* the host processes a box may need
          Faults,    \* what may go wrong, of AllFaults
          Nobody     \* no boot

(* up: --no-command; detach: --detach; run: a recipe; keep: one that says keep. *)
AllKinds == {"up", "detach", "run", "keep"}

(* A process is killed; a node record cannot be written; a driver fails to take *)
(* a box down; a driver does not answer; a box goes without dabs.             *)
AllFaults == {"killed", "unwritten", "undowned", "silent", "stopped"}

ASSUME BoxAssumption ==
    /\ Boots \cap Removers = {}
    /\ Nobody \notin Boots
    /\ Kinds \subseteq AllKinds
    /\ Grants \subseteq {{}, {"relay"}, {"proxy", "relay"}}
    /\ Faults \subseteq AllFaults

VARIABLES
    at,      \* at[p]: where process p stands
    kind,    \* kind[b]: how b's box is booted
    needs,   \* needs[b]: the host processes its box needs, as the record names them
    alive,   \* alive[b]: those that run
    box,     \* box[b]: "none" yet, "running" or "gone"
    record,  \* record[b]: the node record is there
    held,    \* held[b]: the node's held space has files in it
    before,  \* before[b]: the boxes there were when b began
    signal,  \* signal[b]: how far b's answer to an interrupt is
    sweep,   \* sweep[b]: the boxes it has still to take down
    target,  \* target[r]: the node r removes
    yes,     \* yes[r]: r was told yes, by -y or at the prompt
    lapses   \* the faults there have been, which no step looks at

boots == <<kind, needs, before>>
boxes == <<alive, box, record, held>>
interrupts == <<signal, sweep>>
removals == <<target, yes>>
vars == <<at, boots, boxes, interrupts, removals, lapses>>

Processes == Boots \cup Removers
Ended == {"done", "failed", "dead"}
Booting == {"provision", "relay", "up", "record", "unwind"}
Stages == {"new", "booted", "entered", "down", "reap proxy", "reap relay", "look", "forget",
           "ask", "find", "stop"} \cup Booting \cup Ended

Init ==
    /\ at = [p \in Processes |-> "new"]
    /\ kind = [b \in Boots |-> "up"]
    /\ needs = [b \in Boots |-> {}]
    /\ alive = [b \in Boots |-> {}]
    /\ box = [b \in Boots |-> "none"]
    /\ record = [b \in Boots |-> FALSE]
    /\ held = [b \in Boots |-> FALSE]
    /\ before = [b \in Boots |-> {}]
    /\ signal = [b \in Boots |-> "none"]
    /\ sweep = [b \in Boots |-> {}]
    /\ target = [r \in Removers |-> Nobody]
    /\ yes = [r \in Removers |-> FALSE]
    /\ lapses = {}

Go(p, stage) == at' = [at EXCEPT ![p] = stage]
Over(p) == at[p] \in Ended
Running == {b \in Boots : box[b] = "running"}

Lapse(fault) ==
    /\ fault \in Faults
    /\ lapses' = lapses \cup {fault}

--------------------------------------------------------------------------------
(* A boot (bootDetached, runRecipe, buildBox).                              *)

(* A recipe looks at the boxes there are first, should it be interrupted.    *)
Begin(b, k, needed) ==
    /\ at[b] = "new"
    /\ kind' = [kind EXCEPT ![b] = k]
    /\ needs' = [needs EXCEPT ![b] = needed]
    /\ before' = [before EXCEPT ![b] = IF k \in {"run", "keep"} THEN Running ELSE {}]
    /\ Go(b, "provision")
    /\ UNCHANGED <<boxes, interrupts, removals, lapses>>

Provision(b) ==
    /\ at[b] = "provision"
    /\ alive' = [alive EXCEPT ![b] = needs[b] \cap {"proxy"}]
    /\ Go(b, "relay")
    /\ UNCHANGED <<boots, box, record, held, interrupts, removals, lapses>>

ProvisionFails(b) ==
    /\ at[b] = "provision"
    /\ "proxy" \in needs[b]
    /\ Go(b, "failed")
    /\ UNCHANGED <<boots, boxes, interrupts, removals, lapses>>

SpawnRelay(b) ==
    /\ at[b] = "relay"
    /\ alive' = [alive EXCEPT ![b] = @ \cup (needs[b] \cap {"relay"})]
    /\ Go(b, "up")
    /\ UNCHANGED <<boots, box, record, held, interrupts, removals, lapses>>

\* Mutant: a relay that does not come up does not end the boot.
SpawnFails_GoesOn(b) ==
    /\ at[b] = "relay"
    /\ "relay" \in needs[b]
    /\ Go(b, "up")
    /\ UNCHANGED <<boots, boxes, interrupts, removals, lapses>>

\* It did not listen in time, and was killed.
SpawnFails(b) ==
    /\ at[b] = "relay"
    /\ "relay" \in needs[b]
    /\ Go(b, "unwind")
    /\ UNCHANGED <<boots, boxes, interrupts, removals, lapses>>

Up(b) ==
    /\ at[b] = "up"
    /\ box' = [box EXCEPT ![b] = "running"]
    /\ Go(b, "record")
    /\ UNCHANGED <<boots, alive, record, held, interrupts, removals, lapses>>

UpFails(b) ==
    /\ at[b] = "up"
    /\ Go(b, "unwind")
    /\ UNCHANGED <<boots, boxes, interrupts, removals, lapses>>

WriteRecord(b) ==
    /\ at[b] = "record"
    /\ record' = [record EXCEPT ![b] = TRUE]
    /\ Go(b, "booted")
    /\ UNCHANGED <<boots, alive, box, held, interrupts, removals, lapses>>

\* The boot ends as if its box had not come up.
WriteFails(b) ==
    /\ at[b] = "record"
    /\ Lapse("unwritten")
    /\ Go(b, "unwind")
    /\ UNCHANGED <<boots, boxes, interrupts, removals>>

\* The deferred reaps of a boot that fails, the last first.
Unwind(b) ==
    /\ at[b] = "unwind"
    /\ alive' = [alive EXCEPT ![b] = IF "relay" \in @ THEN @ \ {"relay"} ELSE {}]
    /\ Go(b, IF "relay" \in alive[b] THEN "unwind" ELSE "failed")
    /\ UNCHANGED <<boots, box, record, held, interrupts, removals, lapses>>

--------------------------------------------------------------------------------
(* What follows it.                                                         *)

Detached(b) == kind[b] \in {"up", "detach"}

\* The box is entered once, with a no-op.
Enter(b) ==
    /\ at[b] = "booted"
    /\ Detached(b)
    /\ b \in Running
    /\ Go(b, IF kind[b] = "detach" THEN "entered" ELSE "done")
    /\ UNCHANGED <<boots, boxes, interrupts, removals, lapses>>

\* The recipe's command is started in it.
Detach(b) ==
    /\ at[b] = "entered"
    /\ b \in Running
    /\ Go(b, "done")
    /\ UNCHANGED <<boots, boxes, interrupts, removals, lapses>>

\* Mutant: the box is taken down, and no more.
Abandon_DownOnly(b) ==
    /\ at[b] \in {"booted", "entered"}
    /\ Detached(b)
    /\ Go(b, "down")
    /\ UNCHANGED <<boots, boxes, interrupts, removals, lapses>>

\* Either fails: the box is abandoned, its processes first.
Abandon(b) ==
    /\ at[b] \in {"booted", "entered"}
    /\ Detached(b)
    /\ Go(b, "reap proxy")
    /\ UNCHANGED <<boots, boxes, interrupts, removals, lapses>>

\* The recipe's command ends, one way or another; then teardown, unless it says keep.
CommandEnds(b) ==
    /\ at[b] = "booted"
    /\ ~Detached(b)
    /\ Go(b, IF kind[b] = "keep" THEN "done" ELSE "down")
    /\ UNCHANGED <<boots, boxes, interrupts, removals, lapses>>

\* teardown goes on with the processes; for an abandoned box this was the last.
AfterDown(b) == IF Detached(b) THEN "failed" ELSE "reap proxy"

Down(b) ==
    /\ at[b] = "down"
    /\ box' = [box EXCEPT ![b] = "gone"]
    /\ Go(b, AfterDown(b))
    /\ UNCHANGED <<boots, alive, record, held, interrupts, removals, lapses>>

\* What Down returns is not looked at.
DownFails(b) ==
    /\ at[b] = "down"
    /\ Lapse("undowned")
    /\ Go(b, AfterDown(b))
    /\ UNCHANGED <<boots, boxes, interrupts, removals>>

--------------------------------------------------------------------------------
(* The reaping of a box's processes (reapSidecars) and spaces (reapSpaces), by *)
(* a boot that failed or ran, or a remover.                                   *)

Node(p) == IF p \in Boots THEN p ELSE target[p]

\* The pid is read off the node record: with no record there is no pid.
Kill(n, sidecar) ==
    alive' = [alive EXCEPT ![n] = IF record[n] THEN @ \ {sidecar} ELSE @]

ReapProxy(p) ==
    /\ at[p] = "reap proxy"
    /\ Kill(Node(p), "proxy")
    /\ Go(p, "reap relay")
    /\ UNCHANGED <<boots, box, record, held, interrupts, removals, lapses>>

ReapRelay(p) ==
    /\ at[p] = "reap relay"
    /\ Kill(Node(p), "relay")
    /\ Go(p, IF p \in Boots /\ Detached(p) THEN "down" ELSE "look")
    /\ UNCHANGED <<boots, box, record, held, interrupts, removals, lapses>>

Consents(p) == p \in Removers /\ yes[p]

\* Mutant: held files do not keep a node.
Look_Unasked(p) ==
    /\ at[p] = "look"
    /\ Go(p, IF p \in Boots /\ ~record[p] THEN "done" ELSE "forget")
    /\ UNCHANGED <<boots, boxes, interrupts, removals, lapses>>

\* Held files keep the node, unless somebody said yes.  A teardown looks its node
\* up by the record; a remover has it from its list.
Look(p) ==
    /\ at[p] = "look"
    /\ Go(p, IF \/ p \in Boots /\ ~record[p]
                \/ held[Node(p)] /\ ~Consents(p)
             THEN "done" ELSE "forget")
    /\ UNCHANGED <<boots, boxes, interrupts, removals, lapses>>

Forget(p) ==
    /\ at[p] = "forget"
    /\ record' = [record EXCEPT ![Node(p)] = FALSE]
    /\ held' = [held EXCEPT ![Node(p)] = FALSE]
    /\ Go(p, "done")
    /\ UNCHANGED <<boots, alive, box, interrupts, removals, lapses>>

--------------------------------------------------------------------------------
(* A removal (rmResolved, downInstance).                                    *)

Takes(r, b, said) ==
    /\ at[r] = "new"
    /\ record[b]
    /\ target' = [target EXCEPT ![r] = b]
    /\ yes' = [yes EXCEPT ![r] = said]
    /\ UNCHANGED <<boots, boxes, interrupts, lapses>>

Rm(r, b, said) ==
    /\ Takes(r, b, said)
    /\ Go(r, "ask")

\* --keep (archive) does not ask about the box it stops.
RmKeep(r, b, said) ==
    /\ Takes(r, b, said)
    /\ Go(r, "find")

\* The drivers' answer: to stop a box that runs takes a yes.
AnswerPresent(r) ==
    /\ at[r] = "ask"
    /\ target[r] \in Running
    /\ Go(r, IF yes[r] THEN "find" ELSE "failed")
    /\ UNCHANGED <<boots, boxes, interrupts, removals, lapses>>

\* A box that is in no driver's answer is not taken down; files take a yes.
AnswerAbsent(r) ==
    /\ at[r] = "ask"
    /\ target[r] \notin Running
    /\ Go(r, IF held[target[r]] /\ ~yes[r] THEN "failed" ELSE "look")
    /\ UNCHANGED <<boots, boxes, interrupts, removals, lapses>>

\* Mutant: a box missing from an incomplete answer is gone.
AnswerSilent_Absent(r) ==
    /\ "silent" \in Faults
    /\ at[r] = "ask"
    /\ Go(r, IF held[target[r]] /\ ~yes[r] THEN "failed" ELSE "look")
    /\ UNCHANGED <<boots, boxes, interrupts, removals, lapses>>

\* The answer is incomplete: the box may run, and its down is attempted.
AnswerSilent(r) ==
    /\ "silent" \in Faults
    /\ at[r] = "ask"
    /\ Go(r, IF held[target[r]] /\ ~yes[r] THEN "failed" ELSE "find")
    /\ UNCHANGED <<boots, boxes, interrupts, removals, lapses>>

\* The instance is looked for again (matches): a driver that does not answer has
\* none to offer, and none is "already gone".
Find(r) ==
    /\ at[r] = "find"
    /\ Go(r, IF target[r] \in Running THEN "stop" ELSE "look")
    /\ UNCHANGED <<boots, boxes, interrupts, removals, lapses>>

FindSilent(r) ==
    /\ at[r] = "find"
    /\ Lapse("silent")
    /\ Go(r, "look")
    /\ UNCHANGED <<boots, boxes, interrupts, removals>>

Stop(r) ==
    /\ at[r] = "stop"
    /\ box' = [box EXCEPT ![target[r]] = "gone"]
    /\ Go(r, "reap proxy")
    /\ UNCHANGED <<boots, alive, record, held, interrupts, removals, lapses>>

\* Here it is: the removal ends.
StopFails(r) ==
    /\ at[r] = "stop"
    /\ "undowned" \in Faults
    /\ Go(r, "failed")
    /\ UNCHANGED <<boots, boxes, interrupts, removals, lapses>>

--------------------------------------------------------------------------------
(* Interrupts (createsBox, installInterruptCleanup): while the recipe goes on,   *)
(* what appeared since it began is taken down; then the process exits.         *)

Interrupt(b) ==
    /\ at[b] # "new" /\ ~Over(b)
    /\ ~Detached(b)
    /\ signal[b] = "none"
    /\ signal' = [signal EXCEPT ![b] = "caught"]
    /\ UNCHANGED <<at, boots, boxes, sweep, removals, lapses>>

\* Mutant: what was there before is taken down instead.
Sweep_Old(b) ==
    /\ signal[b] = "caught" /\ ~Over(b)
    /\ signal' = [signal EXCEPT ![b] = "sweeping"]
    /\ sweep' = [sweep EXCEPT ![b] = Running \cap before[b]]
    /\ UNCHANGED <<at, boots, boxes, removals, lapses>>

Sweep(b) ==
    /\ signal[b] = "caught" /\ ~Over(b)
    /\ signal' = [signal EXCEPT ![b] = "sweeping"]
    /\ sweep' = [sweep EXCEPT ![b] = Running \ before[b]]
    /\ UNCHANGED <<at, boots, boxes, removals, lapses>>

SweepSilent(b) ==
    /\ signal[b] = "caught" /\ ~Over(b)
    /\ Lapse("silent")
    /\ signal' = [signal EXCEPT ![b] = "sweeping"]
    /\ UNCHANGED <<at, boots, boxes, sweep, removals>>

Swept(b, c) ==
    /\ signal[b] = "sweeping" /\ ~Over(b)
    /\ c \in sweep[b]
    /\ sweep' = [sweep EXCEPT ![b] = @ \ {c}]
    /\ UNCHANGED <<at, boots, alive, record, held, signal, removals>>

SweepDown(b, c) ==
    /\ Swept(b, c)
    /\ box' = [box EXCEPT ![c] = "gone"]
    /\ UNCHANGED lapses

SweepFails(b, c) ==
    /\ Swept(b, c)
    /\ Lapse("undowned")
    /\ UNCHANGED box

\* Half way through a boot this is a kill like another.
Exit(b) ==
    /\ signal[b] = "sweeping" /\ ~Over(b)
    /\ sweep[b] = {}
    /\ Go(b, "dead")
    /\ lapses' = lapses \cup (IF at[b] \in Booting THEN {"killed"} ELSE {})
    /\ UNCHANGED <<boots, boxes, interrupts, removals>>

--------------------------------------------------------------------------------
(* What dabs does not do.                                                   *)

Killed(p) ==
    /\ at[p] # "new" /\ ~Over(p)
    /\ Lapse("killed")
    /\ Go(p, "dead")
    /\ UNCHANGED <<boots, boxes, interrupts, removals>>

BoxStops(b) ==
    /\ b \in Running
    /\ Lapse("stopped")
    /\ box' = [box EXCEPT ![b] = "gone"]
    /\ UNCHANGED <<at, boots, alive, record, held, interrupts, removals>>

HoldsFiles(b) ==
    /\ b \in Running
    /\ ~held[b]
    /\ held' = [held EXCEPT ![b] = TRUE]
    /\ UNCHANGED <<at, boots, alive, box, record, interrupts, removals, lapses>>

Rest ==
    /\ \A p \in Processes : Over(p) \/ (p \in Removers /\ at[p] = "new")
    /\ UNCHANGED vars

--------------------------------------------------------------------------------
BootStep(b) ==
    \/ Provision(b) \/ ProvisionFails(b) \/ SpawnRelay(b) \/ SpawnFails(b)
    \/ Up(b) \/ UpFails(b) \/ WriteRecord(b) \/ WriteFails(b) \/ Unwind(b)
    \/ Enter(b) \/ Detach(b) \/ Abandon(b) \/ Down(b) \/ DownFails(b)

ReapStep(p) == ReapProxy(p) \/ ReapRelay(p) \/ Look(p) \/ Forget(p)

RmStep(r) ==
    \/ AnswerPresent(r) \/ AnswerAbsent(r) \/ AnswerSilent(r)
    \/ Find(r) \/ FindSilent(r) \/ Stop(r) \/ StopFails(r)

SweepStep(b) ==
    \/ Sweep(b) \/ SweepSilent(b) \/ Exit(b)
    \/ \E c \in Boots : SweepDown(b, c) \/ SweepFails(b, c)

Next ==
    \/ \E b \in Boots :
          \/ \E k \in Kinds, needed \in Grants : Begin(b, k, needed)
          \/ BootStep(b) \/ CommandEnds(b)
          \/ Interrupt(b) \/ SweepStep(b)
          \/ BoxStops(b) \/ HoldsFiles(b)
    \/ \E r \in Removers :
          \/ \E b \in Boots, said \in BOOLEAN : Rm(r, b, said) \/ RmKeep(r, b, said)
          \/ RmStep(r)
    \/ \E p \in Processes : ReapStep(p) \/ Killed(p)
    \/ Rest

Spec == Init /\ [][Next]_vars

(* A process goes on with what it does; a command need not end.              *)
FairSpec ==
    /\ Spec
    /\ \A b \in Boots : WF_vars(BootStep(b)) /\ WF_vars(ReapStep(b)) /\ WF_vars(SweepStep(b))

--------------------------------------------------------------------------------
(* Properties.                                                              *)

\* The variables hold values of their types, and only granted processes run.
BoxTypeOK ==
    /\ at \in [Processes -> Stages]
    /\ kind \in [Boots -> AllKinds]
    /\ needs \in [Boots -> SUBSET {"proxy", "relay"}]
    /\ alive \in [Boots -> SUBSET {"proxy", "relay"}]
    /\ \A b \in Boots : alive[b] \subseteq needs[b]
    /\ box \in [Boots -> {"none", "running", "gone"}]
    /\ record \in [Boots -> BOOLEAN]
    /\ held \in [Boots -> BOOLEAN]
    /\ before \in [Boots -> SUBSET Boots]
    /\ signal \in [Boots -> {"none", "caught", "sweeping"}]
    /\ sweep \in [Boots -> SUBSET Boots]
    /\ target \in [Removers -> Boots \cup {Nobody}]
    /\ yes \in [Removers -> BOOLEAN]
    /\ lapses \subseteq AllFaults

Spared(faults) == lapses \cap faults = {}

\* A box that runs is recorded, or about to be: neither a failing boot, a teardown, an
\* interrupt nor any number of removals leaves one outside dabs's tracking, not even
\* when the drivers' first answer was incomplete (TestRmDownsBoxWhenDriversAnswerIncomplete).
BoxIsTracked ==
    \A b \in Running :
        record[b] \/ at[b] = "record" \/ ~Spared({"killed", "unwritten", "undowned", "silent"})

\* A recorded box that runs has its proxy and its relay: nobody takes its way out from
\* under it, but a boot that is abandoning it (the "never dials into a gap" of buildBox).
DoorIsThere ==
    \A b \in Running :
        \/ record[b] => needs[b] \subseteq alive[b]
        \/ at[b] \in {"reap relay", "down"}
        \/ ~Spared({"killed", "undowned"})

\* A boot that failed has left neither box nor process, at whatever step it failed,
\* unless somebody was already removing its node or a fault kept it from it.
FailedLeavesNothing ==
    \A b \in Boots :
        at[b] = "failed" =>
            \/ b \notin Running /\ alive[b] = {}
            \/ \E r \in Removers : target[r] = b
            \/ ~Spared({"unwritten", "undowned"})

\* Held files go only with somebody's yes: no box writes them behind the look that
\* found none.
HeldIsAsked ==
    [][\A b \in Boots :
          held[b] /\ ~held'[b] =>
              \/ \E r \in Removers : target[r] = b /\ yes[r]
              \/ ~Spared({"undowned", "silent"})]_vars

\* A run interrupted once its box is up has it taken down, by the sweep or by its own
\* teardown, whichever the exit lets finish ("an interrupt can leak one", createsBox).
\* A box that comes up behind the sweep's back is left: the boot goes on meanwhile.
InterruptedRunIsGone ==
    \A b \in Boots :
        signal[b] = "caught" /\ kind[b] = "run" /\ at[b] = "booted" ~>
            b \notin Running \/ ~Spared({"killed", "undowned", "silent"})

\* The record goes after the processes whose pids it holds ("this must run BEFORE the
\* node record is removed", reapSidecars).
RecordGoesLast ==
    [][\A b \in Boots : record[b] /\ ~record'[b] => alive[b] = {}]_vars

\* What an interrupt takes down is the box being created or run (main.go), not
\* another process's.
InterruptSparesOthers == \A b \in Boots : sweep[b] \subseteq {b}

\* A live box is stopped with consent only (rmResolved), which --keep is.
StopIsAsked ==
    [][\A r \in Removers : at[r] = "ask" /\ at'[r] = "find" =>
          yes[r] \/ target[r] \notin Running]_vars
================================================================================
