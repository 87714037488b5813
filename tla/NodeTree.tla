-------------------------------- MODULE NodeTree --------------------------------
(***************************************************************************)
(* What dabs reads off its node records (src/core/actions: node.go, ls.go,  *)
(* nodeview.go, rm.go, wtlog.go): which nodes stand on which, which of them *)
(* are alive, what `dabs ls` shows and under which heading, what a removal  *)
(* takes with it, and which box the worktree journal calls live.            *)
(*                                                                         *)
(* Nothing here changes anything.  A listing `recs` is a function from the *)
(* ids of the records that could be read to their parents; `live` is the    *)
(* set of boxes in the drivers' answer and `complete` whether every driver  *)
(* answered.  A box's instance is named like its node.                      *)
(***************************************************************************)
EXTENDS Naturals, Sequences, FiniteSets

CONSTANTS Projects,   \* ids of directories a command ran from
          Worktrees,  \* ids of checkouts dabs cuts
          Markers,    \* ids of checkouts somebody else cut
          Boxes,      \* ids of boxes
          NoNode,     \* no parent
          Section,    \* Section[b]: the heading a live box is listed under
          Local       \* the heading of every local driver

Places == Projects \union Worktrees \union Markers
Nodes == Places \union Boxes

ASSUME NodeAssumption ==
    /\ IsFiniteSet(Nodes)
    /\ NoNode \notin Nodes
    /\ Projects \intersect (Worktrees \union Markers \union Boxes) = {}
    /\ Worktrees \intersect (Markers \union Boxes) = {}
    /\ Markers \intersect Boxes = {}
    /\ DOMAIN Section = Boxes

-----------------------------------------------------------------------------
(* Who stands on whom. *)

\* The sets of listed nodes that hold the listed parents of all they hold.
Upwards(recs) ==
    {S \in SUBSET DOMAIN recs : \A m \in S : recs[m] \in DOMAIN recs => recs[m] \in S}

\* Listed nodes with all they stand on, up to the roots.
Above(set, recs) ==
    LET start == set \intersect DOMAIN recs
        closed == {start \union rest : rest \in SUBSET (DOMAIN recs \ start)} \intersect Upwards(recs)
    IN  {m \in DOMAIN recs : \A S \in closed : m \in S}

\* A node with the nodes below it that the listing holds, up to its root.
ChainOf(n, recs) == Above({n}, recs)

DescendantsOf(n, recs) == {m \in DOMAIN recs \ {n} : n \in ChainOf(m, recs)}

\* What removing `targets` takes.
Doomed(targets, recs) ==
    targets \union UNION {DescendantsOf(t, recs) : t \in targets}

-----------------------------------------------------------------------------
(* What git says of a checkout: "none" when there is none, "unreviewed"     *)
(* when it holds work its base has not (worktreeJudgment is not no-diff;    *)
(* what guardWorktreeWork refuses), or "reviewed".                          *)

GitStates == {"none", "reviewed", "unreviewed"}

Unreviewed(state) == state = "unreviewed"

\* Where a checkout stands below its node's directory: what a recipe's `at:`
\* names (held when it names nothing) or one of the two older layouts.
Layouts == {"held", "volume", "tmp", "ephemeral", "data"}

\* Whether resolveNodeData finds it there.
Resolves(layout) == layout \in {"held", "ephemeral", "data"}

\* Whether the held space, as resolveHeldSpace finds it, holds it.
InHeld(layout) == layout \in {"held", "ephemeral"}

-----------------------------------------------------------------------------
(* What is alive.  `holds` are the nodes of which some space holds a file,  *)
(* `work` the checkouts of others that hold unreviewed work, `foreign` the  *)
(* projects to which such a checkout without a record is attached.          *)

\* Mutant: what a space holds is no life.
SelfActiveBoxesOnly(n, live, complete, holds, work) ==
    \/ n \in Boxes /\ (n \in live \/ ~complete)
    \/ n \in Markers \intersect work

SelfActive(n, live, complete, holds, work) ==
    \/ n \in Boxes /\ (n \in live \/ ~complete)
    \/ n \in holds
    \/ n \in Markers \intersect work

\* Mutant: activity does not reach the nodes a live one stands on.
ActiveThemselves(recs, live, complete, holds, work, foreign) ==
    {m \in DOMAIN recs : \/ SelfActive(m, live, complete, holds, work)
                         \/ m \in foreign}

Active(recs, live, complete, holds, work, foreign) ==
    Above({m \in DOMAIN recs : \/ SelfActive(m, live, complete, holds, work)
                              \/ m \in foreign}, recs)

InactiveRoots(recs, active) ==
    {n \in DOMAIN recs \ active :
       recs[n] \notin DOMAIN recs \/ recs[n] \in active}

-----------------------------------------------------------------------------
(* What `dabs ls` shows of the nodes it has chosen to show, `recs` being     *)
(* the listing restricted to them.                                           *)

\* Under the heading `key`, for the boxes that are up: their whole chains.
ShownUp(key, recs, live) ==
    Above({b \in Boxes \intersect DOMAIN recs \intersect live : Section[b] = key}, recs)

\* The places no box that is up stands on, with the places below them.
ShownIdle(recs, live) ==
    LET up == Above(Boxes \intersect DOMAIN recs \intersect live, recs)
    IN  Above((Places \intersect DOMAIN recs) \ up, recs) \ (Boxes \union up)

\* What is under some heading: that of a box that is up, or the local one, which
\* has the places on which nothing runs.
Listed(recs, live) ==
    ShownIdle(recs, live) \union UNION {ShownUp(key, recs, live) : key \in {Section[b] : b \in Boxes}}

GoneBoxes(recs, live) == (Boxes \intersect DOMAIN recs) \ live

\* A box that is gone is listed once, under one heading of its parent, or, if
\* its parent is under none, as an orphan: `listed` is what is under the headings.
Orphans(recs, live, listed) == {b \in GoneBoxes(recs, live) : recs[b] \notin listed}

\* The boxes that are up and that no node shown claims.
Loose(recs, live) == live \ DOMAIN recs

-----------------------------------------------------------------------------
(* The journal of the boxes on worktrees: entries [event, box, wt]. *)

Ups(journal) == {i \in DOMAIN journal : journal[i].event = "up"}

\* liveBoxes: the entries whose box is up with no later down.
LiveEntries(journal) ==
    {i \in Ups(journal) :
       \A j \in DOMAIN journal : j > i => journal[j].box # journal[i].box}

\* liveByWorktree: the boxes it may name for a worktree.  One of them, by
\* Go's order of a map, when there are several.
JournalLive(w, journal, live) ==
    {journal[i].box : i \in {j \in LiveEntries(journal) :
                               journal[j].wt = w /\ journal[j].box \in live}}
=================================================================================
