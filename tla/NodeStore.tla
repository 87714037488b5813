-------------------------------- MODULE NodeStore -------------------------------
(***************************************************************************)
(* The node records and what stands beside them, while boots make places    *)
(* and boxes, boxes and their users work in them, and `dabs rm` takes them  *)
(* away again (src/core/actions: recipe.go, rm.go, node.go, wtlog.go).      *)
(*                                                                         *)
(* Every dabs is a process of its own; they share the files under           *)
(* ~/.dabs/nodes, git's registry of worktrees, the journal and the drivers. *)
(* A boot is one process per box.  One removal runs at a time: a plain      *)
(* `rm`, `rm --clean-worktrees` or `rm --inactive`.  It lists the nodes and *)
(* asks the drivers once and acts on both later, node by node, deepest      *)
(* first, which is where the others come in between.                        *)
(*                                                                         *)
(* One node's removal is one step (BoxLifecycle has its single steps, the   *)
(* sidecars and a driver that is silent when a box is to be stopped).       *)
(***************************************************************************)
EXTENDS NodeTree

CONSTANTS Silent,    \* the headings whose driver may leave a question unanswered
          AtLayouts, \* where checkouts are put: by a recipe's `at:`, or an older dabs
          Written,   \* the spaces boxes write into, as <<node, space>>
          Flags,     \* the flags of a plain rm: some of -y, --force, --volume
          Strays,    \* checkouts of others recorded as projects, which they are
                     \* when git does not answer as the record is made
          GitFails   \* git may leave a listing's question unanswered

ASSUME StoreAssumption ==
    /\ AtLayouts \subseteq Layouts
    /\ Written \subseteq Nodes \X {"held", "volume", "tmp"}
    /\ Flags \subseteq SUBSET {"yes", "force", "volume"}
    /\ Strays \subseteq Markers
    /\ GitFails \in BOOLEAN

VARIABLES
    recs,     \* the node records: ids to parents
    locked,   \* chain roots whose directory is made and whose record is not
    git,      \* git[w]: what git says of checkout w
    layout,   \* layout[w]: where below its node the checkout stands
    files,    \* files[n]: the spaces of n that hold other files
    running,  \* the boxes that run
    journal,  \* the journal of boxes on worktrees
    boot,     \* boot[b]: how far the boot of b is, and the node it stacks on
    cmd,      \* the removal under way
    since     \* what was written since that removal last looked at it

vars == <<recs, locked, git, layout, files, running, journal, boot, cmd, since>>
disk == <<recs, locked, git, layout, files>>

Checkouts == Worktrees \union Markers
Spaces == {"held", "volume", "tmp"}

-----------------------------------------------------------------------------
(* The spaces of a node. *)

\* The space of w its checkout is in, by resolveHeldSpace and the other two.
SpaceOf(w) == IF InHeld(layout[w]) THEN "held" ELSE layout[w]

\* spaceHolds: a space holds a file.
Holds(n, space) ==
    \/ space \in files[n]
    \/ n \in Worktrees /\ git[n] # "none" /\ SpaceOf(n) = space

Holding == {n \in Nodes : \E s \in Spaces : Holds(n, s)}

\* What a listing gets out of git: the projects whose repository it could
\* enumerate, and the checkouts whose state it could not tell.  The records of a
\* repository are one group, which the main checkout's stands for if there is one;
\* a record whose repository cannot be named is a group of its own.
ProjectsOf(list) == (Projects \union Strays) \intersect DOMAIN list

Representatives(list) ==
    LET main == Projects \intersect DOMAIN list
    IN  IF ProjectsOf(list) = {} THEN {}
        ELSE {CHOOSE p \in ProjectsOf(list) : main = {} \/ p \in main}

GitAnswers(list) ==
    IF GitFails THEN [reps : SUBSET ProjectsOf(list), dark : SUBSET Checkouts]
    ELSE {[reps |-> Representatives(list), dark |-> {}]}

\* ownedWorktreePaths.  A worktree record claims the path resolveNodeData returns.
Claimed(list) ==
    {c \in (Checkouts \ Strays) \intersect DOMAIN list : c \in Worktrees => Resolves(layout[c])}

\* foreignWorktrees: the checkouts in the registry that no record claims and that
\* are not the project's own directory, with work or with a state git cannot tell.
ForeignRows(p, list, g) ==
    {c \in Checkouts : git[c] # "none" /\ (Unreviewed(git[c]) \/ c \in g.dark)}
        \ (Claimed(list) \union {p})

Attached(list, g) == {p \in g.reps : ForeignRows(p, list, g) # {}}

\* A marker's checkout with work is life, and with a state git cannot tell is none.
MarkedWork(g) == {m \in Markers \ Strays : Unreviewed(git[m]) /\ m \notin g.dark}

\* What a listing makes of an answer of git.
GitViews(list) ==
    {[work |-> MarkedWork(g), foreign |-> Attached(list, g)] : g \in GitAnswers(list)}

\* activeSubtrees of one listing, on one answer of the drivers and one of git.
Living(list, ans, view) ==
    Active(list, ans.present, ans.complete, Holding, view.work, view.foreign)

\* The records with one written, or some removed.
With(f, key, value) == [k \in DOMAIN f \union {key} |-> IF k = key THEN value ELSE f[k]]
Without(f, keys) == [k \in DOMAIN f \ keys |-> f[k]]

-----------------------------------------------------------------------------
Idle == [stage |-> "none", verb |-> "none", yes |-> FALSE, force |-> FALSE,
         volume |-> FALSE, list |-> <<>>, asked |-> FALSE, present |-> {},
         complete |-> TRUE, heads |-> {}, todo |-> {}]

Init ==
    /\ recs = [p \in Projects |-> NoNode]
    /\ git = [c \in Checkouts |-> IF c \in Markers THEN "reviewed" ELSE "none"]
    /\ layout \in [Worktrees -> AtLayouts]
    /\ locked = {}
    /\ files = [n \in Nodes |-> {}]
    /\ running = {}
    /\ journal = <<>>
    /\ boot = [b \in Boxes |-> [at |-> "new", tip |-> NoNode, root |-> NoNode]]
    /\ cmd = Idle
    /\ since = {}

-----------------------------------------------------------------------------
(* A boot.  It first finds or makes the node of the directory it runs in.   *)

Go(b, at, tip) == boot' = [boot EXCEPT ![b].at = at, ![b].tip = tip]

\* A boot that is through; what its box stands on is its box's.
Over(b, at) ==
    boot' = [boot EXCEPT ![b].at = at,
                         ![b].tip = IF b \in running' THEN @ ELSE NoNode,
                         ![b].root = NoNode]

\* The command starts in the directory root marks: listNodes has its record,
\* or it reaches for the exclusive Mkdir of the one name the directory has.
FindRoot(b, root) ==
    /\ boot[b].at = "new"
    /\ boot' = [boot EXCEPT ![b] =
                  [at |-> IF root \in DOMAIN recs THEN "placed" ELSE "lock",
                   tip |-> root, root |-> root]]
    /\ UNCHANGED <<disk, running, journal, cmd, since>>

Lock(b) ==
    /\ boot[b].at = "lock"
    /\ LET root == boot[b].tip
       IN  IF root \in locked \union DOMAIN recs
           THEN Go(b, "wait", root) /\ UNCHANGED locked
           ELSE Go(b, "mint", root) /\ locked' = locked \union {root}
    /\ UNCHANGED <<recs, git, layout, files, running, journal, cmd, since>>

\* A marker stacks on the repository's project, if there is one.
ChainRootParent(root) ==
    IF root \in Markers \ Strays /\ Projects \intersect DOMAIN recs # {}
    THEN CHOOSE p \in Projects \intersect DOMAIN recs : TRUE
    ELSE NoNode

\* The winner's record.
Mint(b) ==
    /\ boot[b].at = "mint"
    /\ LET root == boot[b].tip
       IN  /\ recs' = With(recs, root, ChainRootParent(root))
           /\ locked' = locked \ {root}
           /\ Go(b, "placed", root)
    /\ UNCHANGED <<git, layout, files, running, journal, cmd, since>>

\* The others read it, or give up after five seconds.
ReadWinner(b) ==
    /\ boot[b].at = "wait"
    /\ boot[b].tip \in DOMAIN recs
    /\ Go(b, "placed", boot[b].tip)
    /\ UNCHANGED <<disk, running, journal, cmd, since>>

GiveUp(b) ==
    /\ boot[b].at = "wait"
    /\ boot[b].tip \notin DOMAIN recs
    /\ UNCHANGED <<disk, running, journal, cmd, since>>
    /\ Over(b, "refused")

\* provisionPlaces: git cuts the checkout, then its record is written.
Cut(b, w) ==
    /\ boot[b].at = "placed"
    /\ git[w] = "none" /\ w \notin DOMAIN recs
    /\ git' = [git EXCEPT ![w] = "reviewed"]
    /\ Go(b, "cut", w)
    /\ UNCHANGED <<recs, locked, layout, files, running, journal, cmd, since>>

RecordCut(b) ==
    /\ boot[b].at = "cut"
    /\ recs' = With(recs, boot[b].tip, boot[b].root)
    /\ Go(b, "tipped", boot[b].tip)
    /\ UNCHANGED <<locked, git, layout, files, running, journal, cmd, since>>

\* --worktree, or a command run inside a checkout: no chain root is asked for.
Bind(b, w) ==
    /\ boot[b].at = "new"
    /\ w \in DOMAIN recs
    /\ boot' = [boot EXCEPT ![b] = [at |-> "tipped", tip |-> w, root |-> NoNode]]
    /\ UNCHANGED <<disk, running, journal, cmd, since>>

\* drv.Up binds the place, which must be there: the checkout cut or bound, or
\* for a live mount, which makes no place, the directory.
Up(b) ==
    /\ boot[b].at \in {"placed", "tipped"}
    /\ boot[b].tip \in Worktrees => git[boot[b].tip] # "none"
    /\ running' = running \union {b}
    /\ Go(b, "up", boot[b].tip)
    /\ UNCHANGED <<disk, journal, cmd, since>>

RecordBox(b) ==
    /\ boot[b].at = "up"
    /\ recs' = With(recs, b, boot[b].tip)
    /\ Go(b, "recorded", boot[b].tip)
    /\ UNCHANGED <<locked, git, layout, files, running, journal, cmd, since>>

\* logWorktreeUp, for a worktree cut or bound.
Entry(event, b, w) == [event |-> event, box |-> b, wt |-> w]

\* Mutant: a checkout that was cut is journalled, one bound is not.
LogUpCutsOnly(b) ==
    /\ boot[b].at = "recorded"
    /\ journal' = IF boot[b].tip \in Worktrees /\ boot[b].root # NoNode
                  THEN Append(journal, Entry("up", b, boot[b].tip)) ELSE journal
    /\ Go(b, "running", boot[b].tip)
    /\ UNCHANGED <<disk, running, cmd, since>>

LogUp(b) ==
    /\ boot[b].at = "recorded"
    /\ journal' = IF boot[b].tip \in Worktrees
                  THEN Append(journal, Entry("up", b, boot[b].tip)) ELSE journal
    /\ Go(b, "running", boot[b].tip)
    /\ UNCHANGED <<disk, running, cmd, since>>

\* logWorktreeDown: only for an instance the journal calls live.
LogDown(b) ==
    LET last == {i \in LiveEntries(journal) : journal[i].box = b}
    IN  journal' = IF last = {} THEN journal
                   ELSE Append(journal, Entry("down", b, journal[CHOOSE i \in last : TRUE].wt))

\* The spaces reapSpaces takes: tmp always, the others when they hold nothing
\* or with consent, for the volume by name.
Takes(n, consent, volume) ==
    {"tmp"} \union {s \in {"held", "volume"} :
        \/ ~Holds(n, s)
        \/ consent /\ s = "held"
        \/ volume /\ s = "volume"}

\* A checkout goes with its space, with the node's directory, or by git, which
\* is told of one that resolveNodeData finds when held is taken.
CheckoutGoes(w, taken, gone) ==
    \/ gone
    \/ SpaceOf(w) \in taken
    \/ "held" \in taken /\ Resolves(layout[w])

\* A box comes down and its node goes unless a kept space holds a file.
BoxGoes(b, consent, volume) ==
    LET taken == Takes(b, consent, volume)
    IN  /\ running' = running \ {b}
        /\ LogDown(b)
        /\ files' = [files EXCEPT ![b] = @ \ taken]
        /\ recs' = IF {"held", "volume"} \subseteq taken THEN Without(recs, {b}) ELSE recs
        /\ UNCHANGED <<locked, git, layout, cmd, since>>

\* teardown: nobody asked for the removal, so nobody is asked.
Teardown(b) ==
    /\ boot[b].at = "running"
    /\ BoxGoes(b, FALSE, FALSE)
    /\ Over(b, "over")

\* rm --keep: the same for a box named, held with -y or when the user says so.
Archive(b, flags) ==
    /\ b \in DOMAIN recs
    /\ \E consent \in {TRUE, "yes" \in flags} :
         BoxGoes(b, consent, {"yes", "volume"} \subseteq flags)
    /\ UNCHANGED boot

\* A box may end by itself.
BoxEnds(b) ==
    /\ b \in running
    /\ running' = running \ {b}
    /\ UNCHANGED <<disk, journal, boot, cmd, since>>

\* A boot may die anywhere, which is to take no step again; between its Mkdir
\* and its record others can tell the difference.
Die(b) ==
    /\ boot[b].at = "mint"
    /\ UNCHANGED <<disk, running, journal, cmd, since>>
    /\ Over(b, "over")

-----------------------------------------------------------------------------
(* Work: of a box in its own spaces and its place's, of people in checkouts. *)

Wrote(n, space) ==
    since' = IF cmd.stage \in {"roots", "reap"} THEN since \union {<<n, space>>} ELSE since

BoxWrites(b, n, space) ==
    /\ b \in running
    /\ n = b \/ (n = boot[b].tip /\ space = "volume" /\ n \in DOMAIN recs)
    /\ space \notin files[n]
    /\ files' = [files EXCEPT ![n] = @ \union {space}]
    /\ Wrote(n, space)
    /\ UNCHANGED <<recs, locked, git, layout, running, journal, boot, cmd>>

GitMoves(c, to) ==
    /\ git' = [git EXCEPT ![c] = to]
    /\ IF c \in Worktrees THEN Wrote(c, SpaceOf(c)) ELSE UNCHANGED since
    /\ UNCHANGED <<recs, locked, layout, files, running, journal, boot, cmd>>

Edit(c) == git[c] = "reviewed" /\ GitMoves(c, "unreviewed")
Land(c) == git[c] = "unreviewed" /\ GitMoves(c, "reviewed")

-----------------------------------------------------------------------------
(* A removal. *)

Start(verb, flags, stage, heads) ==
    /\ cmd.stage = "none"
    /\ cmd' = [Idle EXCEPT !.stage = stage, !.verb = verb, !.yes = "yes" \in flags,
                           !.force = "force" \in flags, !.volume = "volume" \in flags,
                           !.list = recs, !.heads = heads]
    /\ since' = {}
    /\ UNCHANGED <<disk, running, journal, boot>>

\* rm <node>: the nodes are listed and the one named is in the list.
Rm(n, flags) ==
    /\ n \in DOMAIN recs
    /\ Start("rm", flags, "ask", {n})

\* rm --clean-worktrees: the worktrees of the list.
RmCleanWorktrees(flags) ==
    /\ "volume" \notin flags
    /\ Start("clean", flags, "sweep", Worktrees \intersect DOMAIN recs)

\* rm --inactive: the list first, the drivers and the spaces next.
RmInactive == Start("inactive", {"yes"}, "look", {})

\* boxStates.  A driver that does not answer leaves out what it has.
Answers == {[present |-> {b \in running : Section[b] \notin quiet}, complete |-> quiet = {}] :
              quiet \in SUBSET Silent}

\* With no removal there is nothing to remember.
Forget == since' = IF cmd'.stage = "none" THEN {} ELSE since

End == cmd' = Idle /\ Forget

DoomedNow(heads) == Doomed(heads, cmd.list)

\* The drivers are asked only for a box among the doomed.  With more than one
\* node doomed, a box up or a kept space holding files, the removal needs -y
\* or somebody at the terminal, who may refuse.
Ask ==
    /\ cmd.stage = "ask"
    /\ \E ans \in Answers :
         LET doomed == DoomedNow(cmd.heads)
             boxes == doomed \intersect Boxes
             present == IF boxes = {} THEN {} ELSE ans.present
             needed == \/ Cardinality(doomed) > 1
                       \/ boxes \intersect present # {}
                       \/ \E n \in doomed : Holds(n, "held") \/ Holds(n, "volume")
         IN  \/ /\ cmd' = [cmd EXCEPT !.stage = "guard",
                                      !.asked = TRUE,
                                      !.present = present,
                                      !.complete = boxes = {} \/ ans.complete,
                                      !.yes = @ \/ needed]
             \/ /\ needed /\ ~cmd.yes
                /\ cmd' = Idle
    /\ Forget
    /\ UNCHANGED <<disk, running, journal, boot>>

\* guardWorktreeWork of one node: it looks where resolveNodeData does.
Guarded(n, force) ==
    /\ n \in Worktrees
    /\ ~force
    /\ Resolves(layout[n])
    /\ Unreviewed(git[n])

\* Mutant: the node named is looked at, what stands on it is not.
GuardTargetOnly ==
    /\ cmd.stage = "guard"
    /\ IF \E n \in cmd.heads : Guarded(n, cmd.force)
       THEN End
       ELSE /\ cmd' = [cmd EXCEPT !.stage = "reap", !.todo = DoomedNow(cmd.heads),
                                  !.heads = {}]
            /\ since' = {}
    /\ UNCHANGED <<disk, running, journal, boot>>

\* Every worktree of the cascade passes before anything is touched.
Guard ==
    /\ cmd.stage = "guard"
    /\ IF \E n \in DoomedNow(cmd.heads) : Guarded(n, cmd.force)
       THEN End
       ELSE /\ cmd' = [cmd EXCEPT !.stage = "reap", !.todo = DoomedNow(cmd.heads),
                                  !.heads = {}]
            /\ since' = {}
    /\ UNCHANGED <<disk, running, journal, boot>>

\* liveBoxOn: a box among those on a worktree is up, or not known to be down.
LiveOn(on, ans) == on # {} /\ (on \intersect ans.present # {} \/ ~ans.complete)

\* memoBoxStates: the drivers are asked when the answer is first needed.
Memo(needed) ==
    IF needed /\ ~cmd.asked THEN Answers
    ELSE {[present |-> cmd.present, complete |-> cmd.complete]}

\* The next worktree of a sweep: kept under a box that is up unless -y, or is
\* not known to be down; kept with unreviewed work unless --force; else it is
\* reaped with what the list has on it, on the first answer there was.
Sweep(w) ==
    /\ cmd.stage = "sweep" /\ w \in cmd.heads
    /\ LET on == Boxes \intersect DescendantsOf(w, cmd.list)
       IN  \E ans \in Memo(on # {}) :
             LET next == [cmd EXCEPT !.heads = @ \ {w}, !.asked = @ \/ on # {},
                                     !.present = ans.present, !.complete = ans.complete]
             IN  IF (LiveOn(on, ans) /\ ~cmd.yes) \/ Guarded(w, cmd.force)
                 THEN cmd' = next /\ UNCHANGED since
                 ELSE /\ cmd' = [next EXCEPT !.stage = "reap",
                                             !.todo = {w} \union DescendantsOf(w, cmd.list)]
                      /\ since' = {}
    /\ UNCHANGED <<disk, running, journal, boot>>

\* rm --inactive asks the drivers and git, reads the spaces and names the dead
\* branches' tops.
Look ==
    /\ cmd.stage = "look"
    /\ \E ans \in Answers, view \in GitViews(cmd.list) :
         cmd' = [cmd EXCEPT
                   !.stage = "roots", !.asked = TRUE,
                   !.present = ans.present, !.complete = ans.complete,
                   !.heads = InactiveRoots(cmd.list, Living(cmd.list, ans, view))]
    /\ since' = {}
    /\ UNCHANGED <<disk, running, journal, boot>>

\* The next dead branch; one that holds unreviewed work ends the command.
Root(r) ==
    /\ cmd.stage = "roots" /\ r \in cmd.heads
    /\ LET doomed == DoomedNow({r})
       IN  IF \E n \in doomed : Guarded(n, FALSE) THEN cmd' = Idle
           ELSE cmd' = [cmd EXCEPT !.stage = "reap", !.heads = @ \ {r}, !.todo = doomed]
    /\ Forget
    /\ UNCHANGED <<disk, running, journal, boot>>


\* Deepest first, a node nobody on the list still stands on.
Deepest(n) ==
    /\ cmd.stage = "reap" /\ n \in cmd.todo
    /\ \A m \in cmd.todo \ {n} : n \notin ChainOf(m, cmd.list)

\* downInstance, for a box the answer has or may have missed.
Down(n) ==
    IF n \in Boxes /\ (n \in cmd.present \/ ~cmd.complete) /\ n \in running
    THEN running' = running \ {n} /\ LogDown(n)
    ELSE UNCHANGED <<running, journal>>

Rest(n) ==
    LET left == cmd.todo \ {n}
    IN  cmd' = IF left # {} THEN [cmd EXCEPT !.todo = left]
               ELSE IF cmd.verb = "rm" \/ cmd.heads = {} THEN Idle
               ELSE [cmd EXCEPT !.todo = {},
                                !.stage = IF cmd.verb = "clean" THEN "sweep" ELSE "roots"]

\* The record, and with it whatever else is in the node's directory, goes when
\* nothing is kept.
Reap(n) ==
    /\ Deepest(n)
    /\ Down(n)
    /\ \E consent \in {cmd.yes \/ cmd.verb # "rm", TRUE} :
         LET taken == Takes(n, consent, cmd.yes /\ cmd.volume)
             gone == {"held", "volume"} \subseteq taken
         IN  /\ files' = [files EXCEPT ![n] = @ \ taken]
             /\ recs' = IF gone THEN Without(recs, {n}) ELSE recs
             /\ git' = IF n \in Worktrees /\ CheckoutGoes(n, taken, gone)
                       THEN [git EXCEPT ![n] = "none"] ELSE git
    /\ Rest(n)
    /\ Forget
    /\ UNCHANGED <<locked, layout, boot>>

\* A driver refuses to stop the box, or a file cannot be removed; or the guard gets
\* no answer from git.
ReapFails ==
    /\ cmd.stage = "reap" \/ (GitFails /\ cmd.stage \in {"guard", "sweep", "roots"})
    /\ End
    /\ UNCHANGED <<disk, running, journal, boot>>

Done ==
    /\ cmd.stage \in {"sweep", "roots"} /\ cmd.heads = {}
    /\ End
    /\ UNCHANGED <<disk, running, journal, boot>>

-----------------------------------------------------------------------------
Boot(b) ==
    \/ \E root \in Projects \union Markers : FindRoot(b, root)
    \/ Lock(b) \/ Mint(b) \/ ReadWinner(b) \/ GiveUp(b)
    \/ \E w \in Worktrees : Cut(b, w) \/ Bind(b, w)
    \/ RecordCut(b) \/ Up(b) \/ RecordBox(b) \/ LogUp(b)
    \/ Teardown(b) \/ BoxEnds(b) \/ Die(b)

Work ==
    \/ \E b \in Boxes, at \in Written : BoxWrites(b, at[1], at[2])
    \/ \E c \in Checkouts : Edit(c) \/ Land(c)

Removal ==
    \/ \E flags \in Flags :
         \/ \E n \in Nodes : Rm(n, flags)
         \/ RmCleanWorktrees(flags)
         \/ \E b \in Boxes : Archive(b, flags)
    \/ RmInactive
    \/ Ask \/ Guard \/ Look \/ ReapFails \/ Done
    \/ \E n \in Nodes : Sweep(n) \/ Root(n) \/ Reap(n)

Next == (\E b \in Boxes : Boot(b)) \/ Work \/ Removal

Spec == Init /\ [][Next]_vars

-----------------------------------------------------------------------------
(* What the store promises. *)

NodeTypeOK ==
    /\ DOMAIN recs \subseteq Nodes
    /\ recs \in [DOMAIN recs -> Nodes \union {NoNode}]
    /\ locked \subseteq Projects \union Markers
    /\ git \in [Checkouts -> GitStates]
    /\ layout \in [Worktrees -> Layouts]
    /\ files \in [Nodes -> SUBSET Spaces]
    /\ running \subseteq Boxes
    /\ \A i \in DOMAIN journal : journal[i] \in [event : {"up", "down"}, box : Boxes, wt : Worktrees]
    /\ boot \in [Boxes -> [at : {"new", "lock", "mint", "wait", "placed", "cut", "tipped",
                                 "up", "recorded", "running", "over", "refused"},
                           tip : Places \union {NoNode}, root : Places \union {NoNode}]]
    /\ cmd.heads \union cmd.todo \subseteq Nodes

\* What `ls` decides to show, on one answer of the drivers and one of git.
Shown(ans, view) == [n \in Living(recs, ans, view) |-> recs[n]]

\* What `ls` takes for alive has its row where it belongs (ls.go:110-262): a place
\* under some heading, a box that is gone with its place unless the place has no
\* record, a box that is up among the boxes without a node only if it has none.
\* So it is also while a parent's record is gone, a box has no record yet, a
\* driver is silent or git answers nothing.
EveryLifeIsShown ==
    \A row \in {[shown |-> Shown(ans, view), live |-> ans.present] :
                 ans \in Answers, view \in GitViews(recs)} :
        LET listed == Listed(row.shown, row.live)
        IN  /\ Places \intersect DOMAIN row.shown \subseteq listed
            /\ \A b \in Orphans(row.shown, row.live, listed) : recs[b] \notin DOMAIN recs
            /\ Loose(row.shown, row.live) \intersect DOMAIN recs = {}

\* `rm --inactive` is for exactly what `ls` hides (ls.go:331-381): on one
\* answer, the dead branches with all that stands on them are the records
\* that are not shown, no more and no less.
TheRestIsSwept ==
    \A ans \in Answers, view \in GitViews(recs) :
        LET active == Living(recs, ans, view)
        IN  Doomed(InactiveRoots(recs, active), recs) = DOMAIN recs \ active

\* The journal and the drivers together name the boxes that run on a
\* worktree (wtlog.go:172-198): none that does not, and every one whose boot
\* is through.
JournalTellsTheTruth ==
    \A w \in Worktrees :
        LET named == JournalLive(w, journal, running)
        IN  /\ \A b \in named : boot[b].tip = w
            /\ \A b \in running : boot[b].at = "running" /\ boot[b].tip = w => b \in named

\* No removal takes unreviewed work without --force (rm.go:168-177) unless
\* the work was done after the removal had looked: not in a cascade, not in
\* a sweep, not off a list or an answer that is stale.  It is so for the
\* checkouts dabs finds.
GuardedWork ==
    [][\A w \in Worktrees :
         /\ Resolves(layout[w]) /\ Unreviewed(git[w])
         /\ git'[w] = "none"
         => cmd.force \/ <<w, SpaceOf(w)>> \in since]_vars

\* `rm --inactive` asks nobody because it takes nothing (rm.go:400-404): the
\* files it removes from a kept space came after it looked.
SweepTakesNoFiles ==
    [][\A n \in Nodes, s \in {"held", "volume"} :
         /\ cmd.verb = "inactive" /\ cmd' # cmd
         /\ Holds(n, s) /\ ~Holds(n, s)'
         => <<n, s>> \in since]_vars


\* "Discarding that needs the explicit --force" (rm.go:168-170), whatever
\* space the recipe put the checkout in.
WorkNeedsForce ==
    [][\A w \in Worktrees :
         /\ Unreviewed(git[w]) /\ git'[w] = "none"
         => cmd.force \/ <<w, SpaceOf(w)>> \in since]_vars

\* "Another boot holds the lock; its record lands right after the dir"
\* (recipe.go:1758): a boot is refused for a lock only while a boot holds it.
LockIsHeld ==
    [][\A b \in Boxes :
         boot[b].at = "wait" /\ boot'[b].at = "refused" =>
             \E c \in Boxes : boot[c].at = "mint" /\ boot[c].tip = boot[b].tip]_vars
=================================================================================
