------------------------------- MODULE NodeProofs -------------------------------
(***************************************************************************)
(* Theorems about the node records for any number of nodes, boots and      *)
(* checkouts: what NodeTree reads off a listing, and what NodeStore's boots *)
(* and removals keep.                                                       *)
(***************************************************************************)
EXTENDS NodeStore, SequenceTheorems, TLAPS

(* What stands where in a listing dabs wrote: a directory on nothing, a      *)
(* checkout of somebody else's on a directory, a checkout of dabs's on one    *)
(* of those, a box on any of them.                                           *)
Shaped(f) ==
    /\ DOMAIN f \subseteq Nodes
    /\ \A n \in DOMAIN f :
          /\ n \in Projects => f[n] = NoNode
          /\ n \in Markers => f[n] \in Projects \union {NoNode}
          /\ n \in Worktrees => f[n] \in Projects \union Markers
          /\ n \in Boxes => f[n] \in Places

--------------------------------------------------------------------------------
(* What stands above what, for any listing.                                 *)

(* Above is the least set of listed nodes that has the given ones and the    *)
(* listed parents of all it has.                                             *)
LEMMA AboveIsLeast ==
    ASSUME NEW f, NEW set
    PROVE  /\ Above(set, f) \subseteq DOMAIN f
           /\ set \intersect DOMAIN f \subseteq Above(set, f)
           /\ \A m \in Above(set, f) : f[m] \in DOMAIN f => f[m] \in Above(set, f)
BY DEF Above, Upwards

LEMMA AboveWithin ==
    ASSUME NEW f, NEW set, NEW S \in SUBSET DOMAIN f, set \intersect DOMAIN f \subseteq S,
           \A m \in S : f[m] \in DOMAIN f => f[m] \in S
    PROVE  Above(set, f) \subseteq S
<1>1. \E rest \in SUBSET (DOMAIN f \ (set \intersect DOMAIN f)) :
          S = (set \intersect DOMAIN f) \union rest
  <2> WITNESS S \ (set \intersect DOMAIN f) \in SUBSET (DOMAIN f \ (set \intersect DOMAIN f))
  <2> QED
    OBVIOUS
<1>2. S \in Upwards(f)
  BY DEF Upwards
<1> QED
  BY <1>1, <1>2 DEF Above

LEMMA ChainIsAbove ==
    ASSUME NEW f, NEW set, NEW n \in Above(set, f)
    PROVE  ChainOf(n, f) \subseteq Above(set, f)
BY AboveIsLeast, AboveWithin DEF ChainOf

(* A chain is its node and its parent's chain.                              *)
LEMMA ChainUnrolls ==
    ASSUME NEW f, NEW n \in DOMAIN f
    PROVE  /\ n \in ChainOf(n, f)
           /\ f[n] \notin DOMAIN f => ChainOf(n, f) = {n}
           /\ f[n] \in DOMAIN f => ChainOf(n, f) = {n} \union ChainOf(f[n], f)
<1>1. n \in ChainOf(n, f)
  BY AboveIsLeast DEF ChainOf
<1>2. ASSUME f[n] \notin DOMAIN f PROVE ChainOf(n, f) = {n}
  <2>1. Above({n}, f) \subseteq {n}
    BY <1>2, AboveWithin
  <2> QED
    BY <1>1, <2>1 DEF ChainOf
<1>3. ASSUME f[n] \in DOMAIN f PROVE ChainOf(n, f) = {n} \union ChainOf(f[n], f)
  <2> DEFINE S == {n} \union ChainOf(f[n], f)
  <2>1. S \in SUBSET DOMAIN f /\ f[n] \in ChainOf(f[n], f)
    BY <1>3, AboveIsLeast DEF ChainOf
  <2>2. \A m \in S : f[m] \in DOMAIN f => f[m] \in S
    BY <2>1, AboveIsLeast DEF ChainOf
  <2>3. ChainOf(n, f) \subseteq S
    <3>1. {n} \intersect DOMAIN f \subseteq S
      OBVIOUS
    <3> HIDE DEF S
    <3>2. Above({n}, f) \subseteq S
      BY <2>1, <2>2, <3>1, AboveWithin
    <3> QED
      BY <3>2 DEF ChainOf
  <2>4. f[n] \in ChainOf(n, f)
    BY <1>1, <1>3, AboveIsLeast DEF ChainOf
  <2>5. ChainOf(f[n], f) \subseteq ChainOf(n, f)
    BY <2>4, ChainIsAbove DEF ChainOf
  <2> QED
    BY <1>1, <2>3, <2>5
<1> QED
  BY <1>1, <1>2, <1>3

(* Of two nodes a node stands on, one stands on the other.                  *)
LEMMA ChainsAreLines ==
    ASSUME NEW f, NEW n \in DOMAIN f, NEW a \in ChainOf(n, f), NEW b \in ChainOf(n, f)
    PROVE  a \in ChainOf(b, f) \/ b \in ChainOf(a, f)
<1> DEFINE S == {k \in ChainOf(n, f) : a \in ChainOf(k, f) /\ b \in ChainOf(k, f)}
<1>1. ChainOf(n, f) \subseteq DOMAIN f
  BY AboveIsLeast DEF ChainOf
<1> SUFFICES ASSUME a \notin S, b \notin S PROVE FALSE
  OBVIOUS
<1>2. n \in S
  BY ChainUnrolls
<1>3. ASSUME NEW k \in S, f[k] \in DOMAIN f PROVE f[k] \in S
  <2>1. k # a /\ k # b /\ k \in DOMAIN f
    BY <1>1
  <2>2. a \in ChainOf(f[k], f) /\ b \in ChainOf(f[k], f)
    BY <1>3, <2>1, ChainUnrolls
  <2>3. f[k] \in ChainOf(n, f)
    BY <1>3, AboveIsLeast DEF ChainOf
  <2> QED
    BY <2>2, <2>3
<1>4. S \in SUBSET DOMAIN f
  BY <1>1
<1>5. Above({n}, f) \subseteq S
  <2> HIDE DEF S
  <2> QED
    BY <1>2, <1>3, <1>4, AboveWithin
<1> QED
  BY <1>5 DEF ChainOf

--------------------------------------------------------------------------------
(* The living and the dead of a listing.                                    *)

(* Active nodes stand on active nodes, so a dead branch has nothing alive.   *)
LEMMA ActiveGoesUp ==
    ASSUME NEW f, NEW live, NEW complete, NEW holds, NEW work, NEW foreign,
           NEW n \in Active(f, live, complete, holds, work, foreign)
    PROVE  ChainOf(n, f) \subseteq Active(f, live, complete, holds, work, foreign)
BY ChainIsAbove DEF Active

LEMMA ActiveHasTheLiving ==
    ASSUME NEW f, NEW live, NEW complete, NEW holds, NEW work, NEW foreign, NEW n \in DOMAIN f,
           SelfActive(n, live, complete, holds, work) \/ n \in foreign
    PROVE  n \in Active(f, live, complete, holds, work, foreign)
BY AboveIsLeast DEF Active

(* What holds for a set that has all its nodes stand on: Active is one.      *)
GoesUp(A, f) == A \subseteq DOMAIN f /\ \A n \in A : ChainOf(n, f) \subseteq A

LEMMA ActiveIsUpward ==
    ASSUME NEW f, NEW live, NEW complete, NEW holds, NEW work, NEW foreign
    PROVE  GoesUp(Active(f, live, complete, holds, work, foreign), f)
<1>1. Active(f, live, complete, holds, work, foreign) \subseteq DOMAIN f
  BY AboveIsLeast DEF Active
<1> QED
  BY <1>1, ActiveGoesUp DEF GoesUp

LEMMA DoomedBranch ==
    ASSUME NEW f, NEW r \in DOMAIN f, NEW n
    PROVE  n \in Doomed({r}, f) <=> n \in DOMAIN f /\ r \in ChainOf(n, f)
<1>1. r \in ChainOf(r, f)
  BY ChainUnrolls
<1> QED
  BY <1>1 DEF Doomed, DescendantsOf

LEMMA DoomedUnion ==
    ASSUME NEW f, NEW R, NEW n
    PROVE  n \in Doomed(R, f) <=> \E r \in R : n \in Doomed({r}, f)
BY DEF Doomed

(* No node of a dead branch is alive.                                       *)
LEMMA DeadBranches ==
    ASSUME NEW f, NEW A, GoesUp(A, f), NEW n \in Doomed(InactiveRoots(f, A), f)
    PROVE  n \in DOMAIN f \ A
<1>1. InactiveRoots(f, A) \in SUBSET DOMAIN f
  BY DEF InactiveRoots
<1>2. PICK r \in InactiveRoots(f, A) : n \in Doomed({r}, f)
  BY <1>1, DoomedUnion
<1>3. r \in DOMAIN f \ A /\ n \in DOMAIN f /\ r \in ChainOf(n, f)
  BY <1>1, <1>2, DoomedBranch DEF InactiveRoots
<1> QED
  BY <1>3 DEF GoesUp

(* "Inactive roots are disjoint subtrees" (rmInactive).                     *)
LEMMA BranchesAreDisjoint ==
    ASSUME NEW f, NEW A, GoesUp(A, f),
           NEW r \in InactiveRoots(f, A), NEW q \in InactiveRoots(f, A),
           NEW n \in Doomed({r}, f), n \in Doomed({q}, f)
    PROVE  r = q
<1>1. r \in DOMAIN f \ A /\ q \in DOMAIN f \ A
  BY DEF InactiveRoots
<1>2. n \in DOMAIN f /\ r \in ChainOf(n, f) /\ q \in ChainOf(n, f)
  BY <1>1, DoomedBranch
<1>3. ASSUME NEW a \in InactiveRoots(f, A), NEW b \in InactiveRoots(f, A), a \in ChainOf(b, f), a # b
      PROVE  FALSE
  <2>1. a \in DOMAIN f \ A /\ b \in DOMAIN f \ A /\ (f[b] \notin DOMAIN f \/ f[b] \in A)
    BY DEF InactiveRoots
  <2>2. f[b] \in DOMAIN f /\ a \in ChainOf(f[b], f)
    BY <1>3, <2>1, ChainUnrolls
  <2> QED
    BY <2>1, <2>2 DEF GoesUp
<1>4. r \in ChainOf(q, f) \/ q \in ChainOf(r, f)
  BY <1>2, ChainsAreLines
<1> QED
  BY <1>3, <1>4

(* Every dead node of a listing dabs wrote is in a dead branch.             *)
LEMMA DeadAreSwept ==
    ASSUME NEW f, NEW A, Shaped(f), GoesUp(A, f), NEW n \in DOMAIN f \ A
    PROVE  n \in Doomed(InactiveRoots(f, A), f)
<1> DEFINE R == InactiveRoots(f, A)
<1>1. ASSUME NEW m \in DOMAIN f \ A, f[m] \in DOMAIN f \ A => f[m] \in Doomed(R, f)
      PROVE  m \in Doomed(R, f)
  <2>1. CASE f[m] \notin DOMAIN f \/ f[m] \in A
    BY <2>1 DEF Doomed, InactiveRoots
  <2>2. CASE f[m] \in DOMAIN f \ A
    <3>0. R \in SUBSET DOMAIN f
      BY DEF InactiveRoots
    <3>1. PICK r \in R : f[m] \in Doomed({r}, f)
      BY <1>1, <2>2, <3>0, DoomedUnion
    <3>2. r \in ChainOf(f[m], f)
      BY <3>0, <3>1, DoomedBranch
    <3>3. r \in ChainOf(m, f)
      BY <2>2, <3>2, ChainUnrolls
    <3>4. m \in Doomed({r}, f)
      BY <3>0, <3>3, DoomedBranch
    <3> QED
      BY <3>0, <3>4, DoomedUnion
  <2> QED
    BY <2>1, <2>2
<1> HIDE DEF R
<1>2. \A m \in (DOMAIN f \ A) \intersect Projects : m \in Doomed(R, f)
  BY <1>1, NodeAssumption DEF Shaped
<1>3. \A m \in (DOMAIN f \ A) \intersect Markers : m \in Doomed(R, f)
  BY <1>1, <1>2, NodeAssumption DEF Shaped
<1>4. \A m \in (DOMAIN f \ A) \intersect Worktrees : m \in Doomed(R, f)
  BY <1>1, <1>2, <1>3 DEF Shaped
<1>5. \A m \in (DOMAIN f \ A) \intersect Boxes : m \in Doomed(R, f)
  BY <1>1, <1>2, <1>3, <1>4 DEF Shaped, Places
<1>6. n \in Doomed(R, f)
  BY <1>2, <1>3, <1>4, <1>5 DEF Shaped, Nodes, Places
<1> QED
  BY <1>6 DEF R

(* On a checkout of dabs's stand boxes and nothing else.                    *)
LEMMA OnlyBoxesOnWorktrees ==
    ASSUME NEW f, Shaped(f), NEW w \in Worktrees
    PROVE  DescendantsOf(w, f) \subseteq Boxes
<1> SUFFICES ASSUME NEW m \in DOMAIN f, m # w, w \in ChainOf(m, f), m \notin Boxes PROVE FALSE
  BY DEF DescendantsOf
<1> DEFINE S == {m} \union ((Projects \union Markers) \intersect DOMAIN f)
<1>1. w \notin S
  BY NodeAssumption
<1>2. S \in SUBSET DOMAIN f /\ {m} \intersect DOMAIN f \subseteq S
  OBVIOUS
<1>3. \A k \in S : f[k] \in DOMAIN f => f[k] \in S
  BY NodeAssumption DEF Shaped, Nodes, Places
<1> HIDE DEF S
<1>4. Above({m}, f) \subseteq S
  BY <1>2, <1>3, AboveWithin
<1> QED
  BY <1>1, <1>4 DEF ChainOf

--------------------------------------------------------------------------------
(* How a boot moves.                                                        *)

BootStages == {"new", "lock", "mint", "wait", "placed", "cut", "tipped", "up", "recorded",
               "running", "over", "refused"}
Tips == Places \union {NoNode}
BootType == [Boxes -> [at : BootStages, tip : Tips, root : Tips]]

(* The boot of b alone is at `at`, with this tip and this root.             *)
Moved(b, at, tip, root) ==
    /\ boot' \in BootType
    /\ boot'[b].at = at /\ boot'[b].tip = tip /\ boot'[b].root = root
    /\ \A c \in Boxes : c # b => boot'[c] = boot[c]

LEMMA Goes ==
    ASSUME boot \in BootType, NEW b \in Boxes, NEW at \in BootStages, NEW tip \in Tips, Go(b, at, tip)
    PROVE  Moved(b, at, tip, boot[b].root)
<1> DEFINE one == [boot[b] EXCEPT !.at = at, !.tip = tip]
<1>1. boot[b] \in [at : BootStages, tip : Tips, root : Tips]
  BY DEF BootType
<1>2. one \in [at : BootStages, tip : Tips, root : Tips]
  BY <1>1
<1>3. one.at = at /\ one.tip = tip /\ one.root = boot[b].root
  BY <1>1
<1>4. boot' = [boot EXCEPT ![b] = one]
  BY DEF Go, BootType
<1> HIDE DEF one
<1> QED
  BY <1>2, <1>3, <1>4 DEF Moved, BootType

LEMMA GoesOver ==
    ASSUME boot \in BootType, NEW b \in Boxes, NEW at \in BootStages, Over(b, at)
    PROVE  Moved(b, at, IF b \in running' THEN boot[b].tip ELSE NoNode, NoNode)
<1> DEFINE tip == IF b \in running' THEN boot[b].tip ELSE NoNode
           one == [boot[b] EXCEPT !.at = at, !.tip = tip, !.root = NoNode]
<1>1. boot[b] \in [at : BootStages, tip : Tips, root : Tips] /\ NoNode \in Tips
  BY DEF BootType, Tips
<1>2. tip \in Tips
  BY <1>1
<1>3. boot' = [boot EXCEPT ![b] = one]
  BY DEF Over, BootType
<1> HIDE DEF tip
<1>4. one \in [at : BootStages, tip : Tips, root : Tips]
  BY <1>1, <1>2
<1>5. one.at = at /\ one.tip = tip /\ one.root = NoNode
  BY <1>1
<1> HIDE DEF one
<1>6. Moved(b, at, tip, NoNode)
  BY <1>3, <1>4, <1>5 DEF Moved, BootType
<1> QED
  BY <1>6 DEF tip

(* Where a boot is says what it has found.                                  *)
BootInv ==
    \A b \in Boxes :
        /\ boot[b].at \in {"lock", "mint", "wait", "placed", "cut"} => boot[b].root \in Projects \union Markers
        /\ boot[b].at \in {"lock", "mint", "wait", "placed"} => boot[b].tip = boot[b].root
        /\ boot[b].at \in {"cut", "tipped"} => boot[b].tip \in Worktrees
        /\ boot[b].at \in {"up", "recorded"} => boot[b].tip \in Places

(* The steps by what they do to the boots.                                  *)
LEMMA BootMoves ==
    ASSUME boot \in BootType, NEW b \in Boxes
    PROVE  /\ \A root \in Projects \union Markers :
                 FindRoot(b, root) => \E at \in {"placed", "lock"} : Moved(b, at, root, root)
           /\ Lock(b) => \E at \in {"wait", "mint"} : Moved(b, at, boot[b].tip, boot[b].root)
           /\ Mint(b) \/ ReadWinner(b) => Moved(b, "placed", boot[b].tip, boot[b].root)
           /\ GiveUp(b) => Moved(b, "refused", IF b \in running' THEN boot[b].tip ELSE NoNode, NoNode)
           /\ \A w \in Worktrees : Cut(b, w) => Moved(b, "cut", w, boot[b].root)
           /\ \A w \in Worktrees : Bind(b, w) => Moved(b, "tipped", w, NoNode)
           /\ RecordCut(b) => Moved(b, "tipped", boot[b].tip, boot[b].root)
           /\ Up(b) => Moved(b, "up", boot[b].tip, boot[b].root)
           /\ RecordBox(b) => Moved(b, "recorded", boot[b].tip, boot[b].root)
           /\ LogUp(b) => Moved(b, "running", boot[b].tip, boot[b].root)
           /\ Teardown(b) \/ Die(b) =>
                 Moved(b, "over", IF b \in running' THEN boot[b].tip ELSE NoNode, NoNode)
<1>0. boot[b].tip \in Tips /\ NoNode \in Tips /\ Projects \union Markers \union Worktrees \subseteq Tips
  BY DEF BootType, Tips, Places
<1>1. ASSUME NEW root \in Projects \union Markers, FindRoot(b, root)
      PROVE  \E at \in {"placed", "lock"} : Moved(b, at, root, root)
  <2> DEFINE at == IF root \in DOMAIN recs THEN "placed" ELSE "lock"
             one == [at |-> at, tip |-> root, root |-> root]
  <2>1. boot' = [boot EXCEPT ![b] = one]
    BY <1>1 DEF FindRoot
  <2>2. at \in {"placed", "lock"}
    OBVIOUS
  <2> HIDE DEF at
  <2>3. one \in [at : BootStages, tip : Tips, root : Tips] /\ one.at = at /\ one.tip = root /\ one.root = root
    BY <1>0, <2>2 DEF BootStages
  <2> HIDE DEF one
  <2>4. Moved(b, at, root, root)
    BY <2>1, <2>3 DEF Moved, BootType
  <2> QED
    BY <2>2, <2>4
<1>2. ASSUME NEW w \in Worktrees, Bind(b, w) PROVE Moved(b, "tipped", w, NoNode)
  <2> DEFINE one == [at |-> "tipped", tip |-> w, root |-> NoNode]
  <2>1. boot' = [boot EXCEPT ![b] = one]
    BY <1>2 DEF Bind
  <2>2. one \in [at : BootStages, tip : Tips, root : Tips]
        /\ one.at = "tipped" /\ one.tip = w /\ one.root = NoNode
    BY <1>0 DEF BootStages
  <2> HIDE DEF one
  <2> QED
    BY <2>1, <2>2 DEF Moved, BootType
<1>3. ASSUME Lock(b)
      PROVE  \E at \in {"wait", "mint"} : Moved(b, at, boot[b].tip, boot[b].root)
  <2>1. \E at \in {"wait", "mint"} : Go(b, at, boot[b].tip)
    BY <1>3 DEF Lock
  <2>2. {"wait", "mint"} \subseteq BootStages
    BY DEF BootStages
  <2> QED
    BY <1>0, <2>1, <2>2, Goes
<1>4. {"placed", "cut", "tipped", "up", "recorded", "running", "over", "refused"} \subseteq BootStages
  BY DEF BootStages
<1>5. Mint(b) \/ ReadWinner(b) => Go(b, "placed", boot[b].tip)
  BY DEF Mint, ReadWinner
<1>6. RecordCut(b) => Go(b, "tipped", boot[b].tip)
  BY DEF RecordCut
<1>7. /\ Up(b) => Go(b, "up", boot[b].tip)
      /\ RecordBox(b) => Go(b, "recorded", boot[b].tip)
      /\ LogUp(b) => Go(b, "running", boot[b].tip)
  BY DEF Up, RecordBox, LogUp
<1>8. \A w \in Worktrees : Cut(b, w) => Go(b, "cut", w)
  BY DEF Cut
<1>9. /\ GiveUp(b) => Over(b, "refused")
      /\ Teardown(b) \/ Die(b) => Over(b, "over")
  BY DEF GiveUp, Teardown, Die
<1>10. \A at \in BootStages, tip \in Tips : Go(b, at, tip) => Moved(b, at, tip, boot[b].root)
  BY Goes
<1>11. \A at \in BootStages : Over(b, at) => Moved(b, at, IF b \in running' THEN boot[b].tip ELSE NoNode, NoNode)
  BY GoesOver
<1> QED
  BY <1>0, <1>1, <1>2, <1>3, <1>4, <1>5, <1>6, <1>7, <1>8, <1>9, <1>10, <1>11

--------------------------------------------------------------------------------
(* What is always so.                                                       *)

StoreTypes ==
    /\ Shaped(recs)
    /\ recs = [n \in DOMAIN recs |-> recs[n]]
    /\ locked \subseteq Projects \union Markers
    /\ git \in [Checkouts -> GitStates]
    /\ layout \in [Worktrees -> Layouts]
    /\ files \in [Nodes -> SUBSET Spaces]
    /\ running \subseteq Boxes
    /\ boot \in BootType

Entries == [event : {"up", "down"}, box : Boxes, wt : Worktrees]

(* Only a boot that is through is in the journal, and its box, while it     *)
(* runs, under the checkout it is on: the last entry says so, where there is *)
(* one.                                                                     *)
JournalInv ==
    /\ journal \in Seq(Entries)
    /\ \A b \in running : boot[b].at \in {"up", "recorded", "running"}
    /\ \A i \in DOMAIN journal :
          /\ boot[journal[i].box].at \in {"running", "over"}
          /\ journal[i].box \in running => journal[i].wt = boot[journal[i].box].tip
    /\ \A b \in running :
          boot[b].at = "running" /\ boot[b].tip \in Worktrees =>
              \E i \in LiveEntries(journal) : journal[i].box = b /\ journal[i].wt = boot[b].tip

Fields == {"stage", "verb", "yes", "force", "volume", "list", "asked", "present",
           "complete", "heads", "todo"}

(* The stages a removal goes through, by its verb, and the nodes it has in   *)
(* hand.                                                                    *)
RemovalInv ==
    /\ DOMAIN cmd = Fields
    /\ <<cmd.stage, cmd.verb>> \in
          {<<"none", "none">>} \union ({"ask", "guard", "reap"} \X {"rm"})
             \union ({"sweep", "reap"} \X {"clean"}) \union ({"look", "roots", "reap"} \X {"inactive"})
    /\ Shaped(cmd.list)
    /\ cmd.heads \union cmd.todo \subseteq Nodes
    /\ cmd.verb = "clean" => cmd.heads \subseteq Worktrees

(* What a removal is about to take it has looked at: unreviewed work it       *)
(* finds there was done since.                                              *)
GuardInv ==
    cmd.stage = "reap" /\ ~cmd.force =>
        \A w \in cmd.todo \intersect Worktrees :
            Resolves(layout[w]) /\ Unreviewed(git[w]) => <<w, SpaceOf(w)>> \in since

(* What `rm --inactive` still has before it: the branch it is taking, or the  *)
(* ones it has not come to.                                                 *)
Swept == cmd.todo \union Doomed(cmd.heads, cmd.list)

(* Nothing of that held a file when it looked; a checkout among it has its    *)
(* record, so that no boot cuts another there; and a node is in one branch   *)
(* only, so that the record is not taken before its turn.                   *)
SweepInv ==
    cmd.verb = "inactive" =>
        /\ cmd.stage = "look" => /\ cmd.heads = {} /\ cmd.todo = {}
                                 /\ Worktrees \intersect DOMAIN cmd.list \subseteq DOMAIN recs
        /\ \A n \in Swept, s \in {"held", "volume"} : Holds(n, s) => <<n, s>> \in since
        /\ Worktrees \intersect Swept \subseteq DOMAIN recs
        /\ cmd.todo \intersect Doomed(cmd.heads, cmd.list) = {}
        /\ \A r \in cmd.heads, q \in cmd.heads :
              Doomed({r}, cmd.list) \intersect Doomed({q}, cmd.list) # {} => r = q

LEMMA StartsSound == Init => StoreTypes /\ BootInv /\ JournalInv /\ RemovalInv /\ GuardInv /\ SweepInv
<1> SUFFICES ASSUME Init PROVE StoreTypes /\ BootInv /\ JournalInv /\ RemovalInv /\ GuardInv /\ SweepInv
  OBVIOUS
<1>1. StoreTypes
  <2>1. Shaped(recs) /\ recs = [n \in DOMAIN recs |-> recs[n]]
    BY NodeAssumption DEF Init, Shaped, Nodes, Places
  <2>2. layout \in [Worktrees -> Layouts]
    BY StoreAssumption DEF Init
  <2>3. boot \in BootType
    BY DEF Init, BootType, BootStages, Tips
  <2> QED
    BY <2>1, <2>2, <2>3 DEF Init, StoreTypes, GitStates
<1>2. BootInv
  BY DEF Init, BootInv
<1>3. JournalInv
  BY DEF Init, JournalInv
<1>4. RemovalInv
  BY DEF Init, RemovalInv, Idle, Fields, Shaped
<1>5. GuardInv /\ SweepInv
  BY DEF Init, GuardInv, SweepInv, Idle
<1> QED
  BY <1>1, <1>2, <1>3, <1>4, <1>5

(* The steps of the removal's own.                                          *)
RemovalStep ==
    \/ \E flags \in Flags : (\E n \in Nodes : Rm(n, flags)) \/ RmCleanWorktrees(flags)
    \/ RmInactive \/ Ask \/ Guard \/ Look \/ ReapFails \/ Done
    \/ \E n \in Nodes : Sweep(n) \/ Root(n) \/ Reap(n)

(* The steps of boots, by what they leave alone.                            *)
LEMMA BootsLeaveAlone ==
    ASSUME NEW b \in Boxes
    PROVE  /\ Boot(b) => UNCHANGED <<layout, cmd, since>>
           /\ Boot(b) => UNCHANGED git \/ \E w \in Worktrees : Cut(b, w)
           /\ Boot(b) => UNCHANGED files \/ Teardown(b)
           /\ Boot(b) => UNCHANGED recs \/ Mint(b) \/ RecordCut(b) \/ RecordBox(b) \/ Teardown(b)
           /\ Boot(b) => UNCHANGED journal \/ LogUp(b) \/ Teardown(b)
           /\ Boot(b) => UNCHANGED running \/ Up(b) \/ Teardown(b) \/ BoxEnds(b)
BY DEF Boot, FindRoot, Lock, Mint, ReadWinner, GiveUp, Cut, Bind, RecordCut, Up, RecordBox, LogUp,
       Teardown, BoxEnds, Die, BoxGoes, disk

(* A removal and a box's own end only take: records, files, checkouts and   *)
(* boxes.                                                                   *)
LEMMA OthersOnlyTake ==
    ASSUME StoreTypes,
           Work \/ RemovalStep \/ \E b \in Boxes, flags \in Flags : Archive(b, flags)
    PROVE  /\ UNCHANGED <<layout, boot>>
           /\ UNCHANGED recs \/ \E n \in Nodes : recs' = Without(recs, {n})
           /\ running' \subseteq running
           /\ locked' = locked
<1> USE DEF disk
<1>1. CASE Work
  BY <1>1 DEF Work, BoxWrites, Edit, Land, GitMoves
<1>2. ASSUME NEW b \in Boxes, NEW flags \in Flags, Archive(b, flags)
      PROVE  /\ UNCHANGED <<layout, boot, locked>>
             /\ UNCHANGED recs \/ \E n \in Nodes : recs' = Without(recs, {n})
             /\ running' \subseteq running
  BY <1>2 DEF Archive, BoxGoes, Nodes
<1>3. CASE \E flags \in Flags : (\E n \in Nodes : Rm(n, flags)) \/ RmCleanWorktrees(flags)
  BY <1>3 DEF Rm, RmCleanWorktrees, Start
<1>4. CASE RmInactive \/ Ask \/ Guard \/ Look \/ ReapFails \/ Done
  BY <1>4 DEF RmInactive, Start, Ask, Guard, Look, ReapFails, Done
<1>5. CASE \E n \in Nodes : Sweep(n) \/ Root(n) \/ Reap(n)
  BY <1>5 DEF Sweep, Root, Reap, Down
<1> QED
  BY <1>1, <1>2, <1>3, <1>4, <1>5 DEF RemovalStep

(* The boots' part of a step, for any step.                                 *)
LEMMA BootsStep ==
    ASSUME StoreTypes, BootInv, [Next]_vars
    PROVE  boot' \in BootType /\ BootInv'
<1> USE DEF StoreTypes
<1>1. ASSUME NEW b \in Boxes, Boot(b), boot' # boot PROVE boot' \in BootType /\ BootInv'
  <2> USE DEF Moved, BootInv
  <2>1. ASSUME NEW root \in Projects \union Markers, FindRoot(b, root) PROVE boot' \in BootType /\ BootInv'
    BY <2>1, BootMoves
  <2>2. ASSUME Lock(b) PROVE boot' \in BootType /\ BootInv'
    <3>1. boot[b].at = "lock"
      BY <2>2 DEF Lock
    <3> QED
      BY <2>2, <3>1, BootMoves
  <2>3. ASSUME Mint(b) \/ ReadWinner(b) PROVE boot' \in BootType /\ BootInv'
    <3>1. boot[b].at \in {"mint", "wait"}
      BY <2>3 DEF Mint, ReadWinner
    <3> QED
      BY <2>3, <3>1, BootMoves
  <2>4. ASSUME GiveUp(b) \/ Teardown(b) \/ Die(b) PROVE boot' \in BootType /\ BootInv'
    BY <2>4, BootMoves
  <2>5. ASSUME NEW w \in Worktrees, Cut(b, w) PROVE boot' \in BootType /\ BootInv'
    <3>1. boot[b].at = "placed"
      BY <2>5 DEF Cut
    <3> QED
      BY <2>5, <3>1, BootMoves
  <2>6. ASSUME NEW w \in Worktrees, Bind(b, w) PROVE boot' \in BootType /\ BootInv'
    BY <2>6, BootMoves
  <2>7. ASSUME RecordCut(b) PROVE boot' \in BootType /\ BootInv'
    <3>1. boot[b].at = "cut"
      BY <2>7 DEF RecordCut
    <3> QED
      BY <2>7, <3>1, BootMoves
  <2>8. ASSUME Up(b) PROVE boot' \in BootType /\ BootInv'
    <3>1. boot[b].at \in {"placed", "tipped"}
      BY <2>8 DEF Up
    <3>2. boot[b].tip \in Places
      BY <3>1 DEF Places
    <3> QED
      BY <2>8, <3>2, BootMoves
  <2>9. ASSUME RecordBox(b) PROVE boot' \in BootType /\ BootInv'
    <3>1. boot[b].at = "up"
      BY <2>9 DEF RecordBox
    <3> QED
      BY <2>9, <3>1, BootMoves
  <2>10. ASSUME LogUp(b) PROVE boot' \in BootType /\ BootInv'
    BY <2>10, BootMoves
  <2>11. ASSUME BoxEnds(b) PROVE FALSE
    BY <1>1, <2>11 DEF BoxEnds
  <2> QED
    BY <1>1, <2>1, <2>2, <2>3, <2>4, <2>5, <2>6, <2>7, <2>8, <2>9, <2>10, <2>11 DEF Boot
<1>2. ASSUME UNCHANGED boot PROVE boot' \in BootType /\ BootInv'
  BY <1>2 DEF BootInv
<1>3. ASSUME Work \/ Removal PROVE UNCHANGED boot
  BY <1>3, OthersOnlyTake DEF Removal, RemovalStep
<1> QED
  BY <1>1, <1>2, <1>3 DEF Next, vars

(* Records are written with the parent their kind has.                      *)
LEMMA RecordWritten ==
    ASSUME NEW f, Shaped(f), NEW n \in Nodes, NEW p, Shaped([k \in {n} |-> p])
    PROVE  Shaped(With(f, n, p)) /\ With(f, n, p) = [k \in DOMAIN With(f, n, p) |-> With(f, n, p)[k]]
BY DEF Shaped, With

LEMMA RecordsTaken ==
    ASSUME NEW f, Shaped(f), NEW set
    PROVE  Shaped(Without(f, set)) /\ Without(f, set) = [k \in DOMAIN Without(f, set) |-> Without(f, set)[k]]
BY DEF Shaped, Without

LEMMA TypesStep ==
    ASSUME StoreTypes, BootInv, [Next]_vars
    PROVE  StoreTypes'
<1> USE DEF StoreTypes
<1>1. boot' \in BootType
  BY BootsStep
<1>2. ASSUME NEW b \in Boxes, Boot(b) PROVE Shaped(recs') /\ recs' = [n \in DOMAIN recs' |-> recs'[n]]
  <2>1. ASSUME Mint(b) PROVE recs' = With(recs, boot[b].tip, ChainRootParent(boot[b].tip)) /\ boot[b].at = "mint"
    BY <2>1 DEF Mint
  <2>2. ASSUME Mint(b) PROVE Shaped(recs') /\ recs' = [n \in DOMAIN recs' |-> recs'[n]]
    <3>1. boot[b].tip \in Projects \union Markers
      BY <2>1, <2>2 DEF BootInv
    <3>2. Shaped([k \in {boot[b].tip} |-> ChainRootParent(boot[b].tip)])
      BY <3>1, NodeAssumption DEF ChainRootParent, Shaped, Nodes, Places
    <3>3. boot[b].tip \in Nodes
      BY <3>1 DEF Nodes, Places
    <3>4. recs' = With(recs, boot[b].tip, ChainRootParent(boot[b].tip))
      BY <2>1, <2>2
    <3> QED
      BY <3>2, <3>3, <3>4, RecordWritten
  <2>3. ASSUME RecordCut(b) PROVE Shaped(recs') /\ recs' = [n \in DOMAIN recs' |-> recs'[n]]
    <3>1. boot[b].tip \in Worktrees /\ boot[b].root \in Projects \union Markers
      BY <2>3 DEF BootInv, RecordCut
    <3>2. Shaped([k \in {boot[b].tip} |-> boot[b].root])
      BY <3>1, NodeAssumption DEF Shaped, Nodes, Places
    <3> QED
      BY <2>3, <3>1, <3>2, RecordWritten, ZenonT(40) DEF RecordCut, Nodes, Places
  <2>4. ASSUME RecordBox(b) PROVE Shaped(recs') /\ recs' = [n \in DOMAIN recs' |-> recs'[n]]
    <3>1. boot[b].tip \in Places
      BY <2>4 DEF BootInv, RecordBox
    <3>2. Shaped([k \in {b} |-> boot[b].tip])
      BY <3>1, NodeAssumption DEF Shaped, Nodes, Places
    <3> QED
      BY <2>4, <3>2, RecordWritten, ZenonT(40) DEF RecordBox, Nodes
  <2>5. ASSUME Teardown(b) PROVE recs' = recs \/ recs' = Without(recs, {b})
    BY <2>5 DEF Teardown, BoxGoes
  <2> QED
    BY <1>2, <2>2, <2>3, <2>4, <2>5, RecordsTaken, BootsLeaveAlone
<1>3. ASSUME Work \/ Removal PROVE Shaped(recs') /\ recs' = [n \in DOMAIN recs' |-> recs'[n]]
  <2>1. recs' = recs \/ \E n \in Nodes : recs' = Without(recs, {n})
    BY <1>3, OthersOnlyTake DEF Removal, RemovalStep
  <2>2. CASE recs' = recs
    BY <2>2
  <2>3. ASSUME NEW n \in Nodes, recs' = Without(recs, {n})
        PROVE  Shaped(recs') /\ recs' = [k \in DOMAIN recs' |-> recs'[k]]
    BY <2>3, RecordsTaken
  <2> QED
    BY <2>1, <2>2, <2>3
<1>4. locked' \subseteq Projects \union Markers
  <2>1. ASSUME NEW b \in Boxes, Boot(b) PROVE locked' \subseteq locked \union {boot[b].tip} /\
                                             (locked' # locked => boot[b].at \in {"lock", "mint"})
    BY <2>1 DEF Boot, FindRoot, Lock, Mint, ReadWinner, GiveUp, Cut, Bind, RecordCut, Up, RecordBox,
                LogUp, Teardown, BoxEnds, Die, BoxGoes, disk
  <2> QED
    BY <2>1, OthersOnlyTake DEF BootInv, Next, Removal, RemovalStep, vars
<1>5. git' \in [Checkouts -> GitStates]
  <2> USE DEF GitStates, disk
  <2>1. ASSUME NEW b \in Boxes, Boot(b) PROVE git' \in [Checkouts -> GitStates]
    <3>1. ASSUME NEW w \in Worktrees, Cut(b, w) PROVE git' \in [Checkouts -> GitStates]
      BY <3>1 DEF Cut
    <3> QED
      BY <2>1, <3>1, BootsLeaveAlone
  <2>2. CASE Work
    BY <2>2 DEF Work, BoxWrites, Edit, Land, GitMoves
  <2>3. ASSUME NEW n \in Nodes, Reap(n) PROVE git' \in [Checkouts -> GitStates]
    BY <2>3 DEF Reap
  <2>4. CASE \E flags \in Flags : (\E n \in Nodes : Rm(n, flags)) \/ RmCleanWorktrees(flags) \/ (\E b \in Boxes : Archive(b, flags))
    BY <2>4 DEF Rm, RmCleanWorktrees, Start, Archive, BoxGoes
  <2>5. CASE RmInactive \/ Ask \/ Guard \/ Look \/ ReapFails \/ Done
    BY <2>5 DEF RmInactive, Start, Ask, Guard, Look, ReapFails, Done
  <2>6. ASSUME NEW n \in Nodes, Sweep(n) \/ Root(n) PROVE git' \in [Checkouts -> GitStates]
    BY <2>6 DEF Sweep, Root
  <2> QED
    BY <2>1, <2>2, <2>3, <2>4, <2>5, <2>6 DEF Next, Removal, vars
<1>6. files' \in [Nodes -> SUBSET Spaces]
  <2> USE DEF Spaces, disk
  <2>1. ASSUME NEW b \in Boxes, Boot(b) PROVE files' \in [Nodes -> SUBSET Spaces]
    <3>1. ASSUME Teardown(b) PROVE files' \in [Nodes -> SUBSET Spaces]
      BY <3>1 DEF Teardown, BoxGoes
    <3> QED
      BY <2>1, <3>1, BootsLeaveAlone
  <2>2. ASSUME NEW b \in Boxes, NEW at \in Written, BoxWrites(b, at[1], at[2])
        PROVE  files' \in [Nodes -> SUBSET Spaces]
    <3>1. at[1] \in Nodes /\ at[2] \in Spaces
      BY StoreAssumption
    <3> QED
      BY <2>2, <3>1 DEF BoxWrites
  <2>3. ASSUME NEW c \in Checkouts, Edit(c) \/ Land(c) PROVE files' \in [Nodes -> SUBSET Spaces]
    BY <2>3 DEF Edit, Land, GitMoves
  <2>4. ASSUME NEW n \in Nodes, Reap(n) PROVE files' \in [Nodes -> SUBSET Spaces]
    BY <2>4 DEF Reap
  <2>5. CASE \E flags \in Flags : (\E n \in Nodes : Rm(n, flags)) \/ RmCleanWorktrees(flags)
    BY <2>5 DEF Rm, RmCleanWorktrees, Start
  <2>6. ASSUME NEW b \in Boxes, NEW flags \in Flags, Archive(b, flags) PROVE files' \in [Nodes -> SUBSET Spaces]
    BY <2>6, ZenonT(40) DEF Archive, BoxGoes
  <2>7. CASE RmInactive \/ Ask \/ Guard \/ Look \/ ReapFails \/ Done
    BY <2>7 DEF RmInactive, Start, Ask, Guard, Look, ReapFails, Done
  <2>8. ASSUME NEW n \in Nodes, Sweep(n) \/ Root(n) PROVE files' \in [Nodes -> SUBSET Spaces]
    BY <2>8 DEF Sweep, Root
  <2> QED
    BY <2>1, <2>2, <2>3, <2>4, <2>5, <2>6, <2>7, <2>8 DEF Next, Work, Removal, vars
<1>7. UNCHANGED layout
  BY BootsLeaveAlone, OthersOnlyTake DEF Next, Removal, RemovalStep, vars
<1>8. running' \subseteq Boxes
  <2>1. ASSUME NEW b \in Boxes, Boot(b) PROVE running' \subseteq Boxes
    BY <2>1, BootsLeaveAlone DEF Up, Teardown, BoxGoes, BoxEnds
  <2> QED
    BY <2>1, OthersOnlyTake DEF Next, Removal, RemovalStep, vars
<1>9. Shaped(recs') /\ recs' = [n \in DOMAIN recs' |-> recs'[n]]
  BY <1>2, <1>3 DEF Next, vars
<1> QED
  BY <1>1, <1>4, <1>5, <1>6, <1>7, <1>8, <1>9

--------------------------------------------------------------------------------
(* The journal.                                                             *)

(* A box's down names its last up, if it has one; nothing else changes.      *)
LEMMA DownLogged ==
    ASSUME journal \in Seq(Entries), NEW b \in Boxes, LogDown(b)
    PROVE  \/ journal' = journal
           \/ \E w \in Worktrees : /\ journal' = Append(journal, Entry("down", b, w))
                                   /\ \E i \in DOMAIN journal : journal[i].box = b
<1> DEFINE last == {i \in LiveEntries(journal) : journal[i].box = b}
<1>1. CASE last = {}
  BY <1>1 DEF LogDown
<1>2. CASE last # {}
  <2> DEFINE k == CHOOSE i \in last : TRUE
  <2>1. k \in last
    BY <1>2
  <2>2. k \in DOMAIN journal /\ journal[k].box = b
    BY <2>1 DEF LiveEntries, Ups
  <2>3. journal[k] \in Entries
    BY <2>2
  <2>4. journal' = Append(journal, Entry("down", b, journal[k].wt))
    BY <1>2 DEF LogDown
  <2> QED
    BY <2>2, <2>3, <2>4 DEF Entries
<1> QED
  BY <1>1, <1>2

LEMMA JournalGrows ==
    ASSUME journal \in Seq(Entries), NEW e \in Entries, journal' = Append(journal, e)
    PROVE  /\ journal' \in Seq(Entries)
           /\ DOMAIN journal' = DOMAIN journal \union {Len(journal) + 1}
           /\ Len(journal) + 1 \notin DOMAIN journal
           /\ journal'[Len(journal) + 1] = e
           /\ \A i \in DOMAIN journal : journal'[i] = journal[i]
           /\ \A i \in LiveEntries(journal) : journal[i].box # e.box => i \in LiveEntries(journal')
           /\ e.event = "up" => Len(journal) + 1 \in LiveEntries(journal')
<1>1. /\ journal' \in Seq(Entries)
      /\ Len(journal') = Len(journal) + 1 /\ Len(journal) \in Nat
      /\ journal'[Len(journal) + 1] = e
      /\ \A i \in 1..Len(journal) : journal'[i] = journal[i]
  BY AppendProperties
<1>2. DOMAIN journal = 1..Len(journal) /\ DOMAIN journal' = 1..(Len(journal) + 1)
  BY <1>1
<1>3. DOMAIN journal' = DOMAIN journal \union {Len(journal) + 1} /\ Len(journal) + 1 \notin DOMAIN journal
  BY <1>1, <1>2
<1>4. ASSUME NEW i \in LiveEntries(journal), journal[i].box # e.box PROVE i \in LiveEntries(journal')
  BY <1>1, <1>2, <1>3, <1>4 DEF LiveEntries, Ups
<1>5. ASSUME e.event = "up" PROVE Len(journal) + 1 \in LiveEntries(journal')
  <2>1. \A j \in DOMAIN journal' : ~(j > Len(journal) + 1)
    BY <1>1, <1>2
  <2> QED
    BY <1>1, <1>3, <1>5, <2>1 DEF LiveEntries, Ups
<1> QED
  BY <1>1, <1>2, <1>3, <1>4, <1>5

LEMMA WhatEntriesSay ==
    ASSUME journal \in Seq(Entries), NEW i \in DOMAIN journal
    PROVE  journal[i] \in Entries /\ journal[i].box \in Boxes /\ journal[i].wt \in Worktrees
<1>1. journal[i] \in Entries
  OBVIOUS
<1> QED
  BY <1>1 DEF Entries

(* A box that comes down with its entry, or is gone already.                *)
LEMMA DownKeepsJournal ==
    ASSUME StoreTypes, JournalInv, NEW b \in Boxes, LogDown(b), running' = running \ {b},
           \A c \in Boxes : boot'[c] = boot[c] \/ (c = b /\ boot[c].at = "running" /\ boot'[c].at = "over")
    PROVE  JournalInv'
<1> USE DEF JournalInv, StoreTypes
<1>0. \A c \in running' : c \in Boxes /\ c # b /\ boot'[c] = boot[c] /\ c \in running
  OBVIOUS
<1>1. CASE journal' = journal
  <2>1. ASSUME NEW k \in DOMAIN journal
        PROVE  /\ boot'[journal[k].box].at \in {"running", "over"}
               /\ journal[k].box \in running' => journal[k].wt = boot'[journal[k].box].tip
    <3>1. journal[k].box \in Boxes
      BY WhatEntriesSay
    <3>2. boot[journal[k].box].at \in {"running", "over"}
      OBVIOUS
    <3> QED
      BY <1>0, <3>1, <3>2
  <2>2. LiveEntries(journal') = LiveEntries(journal)
    BY <1>1
  <2> QED
    BY <1>0, <1>1, <2>1, <2>2
<1>2. ASSUME NEW w \in Worktrees, journal' = Append(journal, Entry("down", b, w)),
             NEW i \in DOMAIN journal, journal[i].box = b
      PROVE  JournalInv'
  <2> DEFINE e == Entry("down", b, w)
  <2>1. e \in Entries /\ e.box = b /\ e.event = "down" /\ e.wt = w
    BY DEF Entries, Entry
  <2> HIDE DEF e
  <2>2. journal' = Append(journal, e)
    BY <1>2 DEF e
  <2>3. /\ journal' \in Seq(Entries)
        /\ DOMAIN journal' = DOMAIN journal \union {Len(journal) + 1}
        /\ journal'[Len(journal) + 1] = e
        /\ \A k \in DOMAIN journal : journal'[k] = journal[k]
        /\ \A k \in LiveEntries(journal) : journal[k].box # b => k \in LiveEntries(journal')
    BY <2>1, <2>2, JournalGrows
  <2>5. boot'[b].at \in {"running", "over"}
    BY <1>2
  <2>6. \A k \in DOMAIN journal : journal[k].box \in Boxes
    BY WhatEntriesSay
  <2>7. ASSUME NEW k \in DOMAIN journal'
        PROVE  /\ boot'[journal'[k].box].at \in {"running", "over"}
               /\ journal'[k].box \in running' => journal'[k].wt = boot'[journal'[k].box].tip
    BY <1>0, <2>1, <2>3, <2>5, <2>6
  <2>8. ASSUME NEW c \in running', boot'[c].at = "running", boot'[c].tip \in Worktrees
        PROVE  \E k \in LiveEntries(journal') : journal'[k].box = c /\ journal'[k].wt = boot'[c].tip
    <3>1. PICK k \in LiveEntries(journal) : journal[k].box = c /\ journal[k].wt = boot[c].tip
      BY <1>0, <2>8
    <3>2. k \in LiveEntries(journal') /\ k \in DOMAIN journal
      BY <1>0, <2>3, <3>1 DEF LiveEntries, Ups
    <3> QED
      BY <1>0, <2>3, <3>1, <3>2
  <2> QED
    BY <1>0, <2>3, <2>7, <2>8
<1> QED
  BY <1>1, <1>2, DownLogged

(* Boxes that end with no entry.                                            *)
LEMMA EndKeepsJournal ==
    ASSUME StoreTypes, JournalInv, UNCHANGED <<journal, boot>>, running' \subseteq running
    PROVE  JournalInv'
BY DEF JournalInv, StoreTypes, LiveEntries, Ups

(* A boot that is not through has no entries, wherever it goes but through.  *)
LEMMA BootKeepsJournal ==
    ASSUME StoreTypes, JournalInv, NEW b \in Boxes, UNCHANGED journal,
           boot[b].at \notin {"running", "over"}, boot'[b].at # "running",
           \A c \in Boxes : c # b => boot'[c] = boot[c],
           running' \subseteq running \union {b}, b \in running' => boot'[b].at \in {"up", "recorded"}
    PROVE  JournalInv'
<1> USE DEF JournalInv, StoreTypes
<1>1. ASSUME NEW k \in DOMAIN journal
      PROVE  /\ boot'[journal[k].box].at \in {"running", "over"}
             /\ journal[k].box \in running' => journal[k].wt = boot'[journal[k].box].tip
  <2>1. journal[k].box \in Boxes /\ journal[k].box # b
    BY WhatEntriesSay
  <2> QED
    BY <2>1
<1>2. \A c \in running' : c # b => c \in running /\ boot'[c] = boot[c]
  OBVIOUS
<1>3. LiveEntries(journal') = LiveEntries(journal)
  OBVIOUS
<1> QED
  BY <1>1, <1>2, <1>3

LEMMA UpKeepsJournal ==
    ASSUME StoreTypes, JournalInv, NEW b \in Boxes, LogUp(b), Moved(b, "running", boot[b].tip, boot[b].root)
    PROVE  JournalInv'
<1> USE DEF StoreTypes
<1>0. /\ boot[b].at = "recorded" /\ boot'[b].at = "running" /\ boot'[b].tip = boot[b].tip
      /\ \A c \in Boxes : c # b => boot'[c] = boot[c]
      /\ running' = running
  BY DEF LogUp, Moved
<1>1. ASSUME NEW k \in DOMAIN journal
      PROVE  /\ journal[k].box \in Boxes \ {b}
             /\ boot'[journal[k].box].at \in {"running", "over"}
             /\ journal[k].box \in running' => journal[k].wt = boot'[journal[k].box].tip
  BY <1>0, WhatEntriesSay DEF JournalInv
<1>2. CASE boot[b].tip \notin Worktrees
  <2>1. journal' = journal
    BY <1>2 DEF LogUp
  <2> QED
    BY <1>0, <1>1, <1>2, <2>1 DEF JournalInv, LiveEntries, Ups
<1>3. CASE boot[b].tip \in Worktrees
  <2> DEFINE e == Entry("up", b, boot[b].tip)
             l == Len(journal) + 1
  <2>1. e \in Entries /\ e.box = b /\ e.event = "up" /\ e.wt = boot[b].tip
    BY <1>3 DEF Entries, Entry
  <2> HIDE DEF e
  <2>2. journal' = Append(journal, e)
    BY <1>3 DEF e, LogUp
  <2>3. /\ journal' \in Seq(Entries)
        /\ DOMAIN journal' = DOMAIN journal \union {l}
        /\ journal'[l] = e
        /\ \A k \in DOMAIN journal : journal'[k] = journal[k]
        /\ \A k \in LiveEntries(journal) : journal[k].box # b => k \in LiveEntries(journal')
        /\ l \in LiveEntries(journal')
    BY <2>1, <2>2, JournalGrows DEF JournalInv
  <2> HIDE DEF l
  <2>4. ASSUME NEW k \in DOMAIN journal'
        PROVE  /\ boot'[journal'[k].box].at \in {"running", "over"}
               /\ journal'[k].box \in running' => journal'[k].wt = boot'[journal'[k].box].tip
    BY <1>0, <1>1, <2>1, <2>3
  <2>5. ASSUME NEW c \in running', boot'[c].at = "running", boot'[c].tip \in Worktrees
        PROVE  \E k \in LiveEntries(journal') : journal'[k].box = c /\ journal'[k].wt = boot'[c].tip
    <3>1. CASE c = b
      BY <1>0, <2>1, <2>3, <3>1
    <3>2. CASE c # b
      <4>1. PICK k \in LiveEntries(journal) : journal[k].box = c /\ journal[k].wt = boot[c].tip
        BY <1>0, <2>5, <3>2 DEF JournalInv
      <4>2. k \in LiveEntries(journal') /\ k \in DOMAIN journal
        BY <2>3, <3>2, <4>1 DEF LiveEntries, Ups
      <4> QED
        BY <1>0, <2>3, <2>5, <3>2, <4>1, <4>2
    <3> QED
      BY <3>1, <3>2
  <2>6. \A c \in running' : boot'[c].at \in {"up", "recorded", "running"}
    BY <1>0 DEF JournalInv
  <2> QED
    BY <2>3, <2>4, <2>5, <2>6 DEF JournalInv
<1> QED
  BY <1>2, <1>3

LEMMA JournalStep ==
    ASSUME StoreTypes, BootInv, JournalInv, [Next]_vars
    PROVE  JournalInv'
<1> USE DEF StoreTypes
<1>1. ASSUME NEW b \in Boxes, Boot(b) PROVE JournalInv'
  <2>0. ASSUME boot[b].at \notin {"up", "recorded", "running"} PROVE b \notin running
    BY <2>0 DEF JournalInv
  <2>1. ASSUME \/ \E root \in Projects \union Markers : FindRoot(b, root)
               \/ Lock(b) \/ Mint(b) \/ ReadWinner(b) \/ GiveUp(b)
               \/ \E w \in Worktrees : Cut(b, w) \/ Bind(b, w)
               \/ RecordCut(b) \/ Die(b)
        PROVE  JournalInv'
    <3>1. boot[b].at \in {"new", "lock", "mint", "wait", "placed", "cut"} /\ UNCHANGED <<journal, running>>
      BY <2>1 DEF FindRoot, Lock, Mint, ReadWinner, GiveUp, Cut, Bind, RecordCut, Die
    <3>2. boot'[b].at # "running" /\ \A c \in Boxes : c # b => boot'[c] = boot[c]
      BY <2>1, BootMoves DEF Moved
    <3> QED
      BY <2>0, <3>1, <3>2, BootKeepsJournal
  <2>2. ASSUME Up(b) \/ RecordBox(b) PROVE JournalInv'
    <3>1. /\ boot[b].at \notin {"running", "over"} /\ boot'[b].at \in {"up", "recorded"}
          /\ \A c \in Boxes : c # b => boot'[c] = boot[c]
      BY <2>2, BootMoves DEF Moved, Up, RecordBox
    <3>2. UNCHANGED journal /\ running' \subseteq running \union {b}
      BY <2>2 DEF Up, RecordBox
    <3> QED
      BY <3>1, <3>2, BootKeepsJournal
  <2>3. ASSUME LogUp(b) PROVE JournalInv'
    BY <2>3, BootMoves, UpKeepsJournal
  <2>4. ASSUME Teardown(b) PROVE JournalInv'
    <3>1. boot[b].at = "running" /\ LogDown(b) /\ running' = running \ {b}
      BY <2>4 DEF Teardown, BoxGoes
    <3>2. boot'[b].at = "over" /\ \A c \in Boxes : c # b => boot'[c] = boot[c]
      BY <2>4, BootMoves DEF Moved
    <3> QED
      BY <3>1, <3>2, DownKeepsJournal
  <2>5. ASSUME BoxEnds(b) PROVE JournalInv'
    BY <2>5, EndKeepsJournal DEF BoxEnds
  <2> QED
    BY <1>1, <2>1, <2>2, <2>3, <2>4, <2>5 DEF Boot
<1>2. ASSUME NEW b \in Boxes, NEW flags \in Flags, Archive(b, flags) PROVE JournalInv'
  <2>1. LogDown(b) /\ running' = running \ {b} /\ UNCHANGED boot
    BY <1>2 DEF Archive, BoxGoes
  <2> QED
    BY <2>1, DownKeepsJournal
<1>3. ASSUME NEW n \in Nodes, Reap(n) PROVE JournalInv'
  <2>1. UNCHANGED boot /\ Down(n)
    BY <1>3 DEF Reap
  <2>2. ASSUME n \in Boxes, running' = running \ {n}, LogDown(n) PROVE JournalInv'
    BY <2>1, <2>2, DownKeepsJournal
  <2> QED
    BY <2>1, <2>2, EndKeepsJournal DEF Down
<1>4. ASSUME \/ Work
             \/ \E flags \in Flags : (\E n \in Nodes : Rm(n, flags)) \/ RmCleanWorktrees(flags)
             \/ RmInactive \/ Ask \/ Guard \/ Look \/ ReapFails \/ Done
             \/ \E n \in Nodes : Sweep(n) \/ Root(n)
             \/ UNCHANGED vars
      PROVE  JournalInv'
  <2>1. UNCHANGED <<journal, boot, running>>
    BY <1>4 DEF Work, BoxWrites, Edit, Land, GitMoves, Rm, RmCleanWorktrees, RmInactive, Start, Ask,
                Guard, Look, ReapFails, Done, Sweep, Root, vars
  <2> QED
    BY <2>1, EndKeepsJournal
<1> QED
  BY <1>1, <1>2, <1>3, <1>4 DEF Next, Removal

--------------------------------------------------------------------------------
(* A removal's own variables.                                               *)

LEMMA IdleIsSound == cmd' = Idle => RemovalInv'
BY DEF RemovalInv, Idle, Fields, Shaped

LEMMA DoomedAreNodes ==
    ASSUME NEW f, Shaped(f), NEW R \in SUBSET Nodes
    PROVE  Doomed(R, f) \subseteq Nodes
BY DEF Doomed, DescendantsOf, Shaped

(* The steps by what they do to the removal.                                *)
LEMMA RemovalMoves ==
    ASSUME DOMAIN cmd = Fields
    PROVE  /\ \A verb, flags, stage, heads :
                 Start(verb, flags, stage, heads) =>
                     /\ DOMAIN cmd' = Fields /\ cmd'.stage = stage /\ cmd'.verb = verb
                     /\ cmd'.force = ("force" \in flags)
                     /\ cmd'.list = recs /\ cmd'.heads = heads /\ cmd'.todo = {}
           /\ Ask => \/ cmd' = Idle
                     \/ /\ cmd.stage = "ask" /\ cmd'.stage = "guard" /\ DOMAIN cmd' = Fields
                        /\ cmd'.verb = cmd.verb /\ cmd'.force = cmd.force /\ cmd'.list = cmd.list
                        /\ cmd'.heads = cmd.heads /\ cmd'.todo = cmd.todo
           /\ Guard => \/ cmd' = Idle
                       \/ /\ cmd.stage = "guard" /\ cmd'.stage = "reap" /\ DOMAIN cmd' = Fields
                          /\ cmd'.verb = cmd.verb /\ cmd'.force = cmd.force /\ cmd'.list = cmd.list
                          /\ cmd'.heads = {} /\ cmd'.todo = DoomedNow(cmd.heads)
                          /\ ~\E n \in DoomedNow(cmd.heads) : Guarded(n, cmd.force)
           /\ \A w : Sweep(w) =>
                 /\ cmd.stage = "sweep" /\ w \in cmd.heads /\ DOMAIN cmd' = Fields
                 /\ cmd'.verb = cmd.verb /\ cmd'.force = cmd.force /\ cmd'.list = cmd.list
                 /\ cmd'.heads = cmd.heads \ {w}
                 /\ \/ cmd'.stage = "sweep" /\ cmd'.todo = cmd.todo
                    \/ /\ cmd'.stage = "reap" /\ cmd'.todo = {w} \union DescendantsOf(w, cmd.list)
                       /\ ~Guarded(w, cmd.force)
           /\ Look => \E ans \in Answers, view \in GitViews(cmd.list) :
                 /\ cmd.stage = "look" /\ cmd'.stage = "roots" /\ DOMAIN cmd' = Fields
                 /\ cmd'.verb = cmd.verb /\ cmd'.force = cmd.force /\ cmd'.list = cmd.list
                 /\ cmd'.todo = cmd.todo
                 /\ cmd'.heads = InactiveRoots(cmd.list, Living(cmd.list, ans, view))
           /\ \A r : Root(r) => \/ cmd' = Idle
                                \/ /\ cmd.stage = "roots" /\ r \in cmd.heads /\ cmd'.stage = "reap"
                                   /\ DOMAIN cmd' = Fields
                                   /\ cmd'.verb = cmd.verb /\ cmd'.force = cmd.force /\ cmd'.list = cmd.list
                                   /\ cmd'.heads = cmd.heads \ {r} /\ cmd'.todo = DoomedNow({r})
                                   /\ ~\E n \in DoomedNow({r}) : Guarded(n, FALSE)
           /\ \A n : Reap(n) => \/ cmd' = Idle
                                \/ /\ cmd.stage = "reap" /\ n \in cmd.todo /\ DOMAIN cmd' = Fields
                                   /\ cmd'.verb = cmd.verb /\ cmd'.force = cmd.force /\ cmd'.list = cmd.list
                                   /\ cmd'.heads = cmd.heads /\ cmd'.todo = cmd.todo \ {n}
                                   /\ \/ cmd'.stage = "reap"
                                      \/ /\ cmd.verb # "rm"
                                         /\ cmd'.stage = IF cmd.verb = "clean" THEN "sweep" ELSE "roots"
           /\ ReapFails \/ Done => cmd' = Idle
<1> USE DEF Fields
<1>1. ASSUME NEW verb, NEW flags, NEW stage, NEW heads, Start(verb, flags, stage, heads)
      PROVE  /\ DOMAIN cmd' = Fields /\ cmd'.stage = stage /\ cmd'.verb = verb
             /\ cmd'.force = ("force" \in flags)
             /\ cmd'.list = recs /\ cmd'.heads = heads /\ cmd'.todo = {}
  BY <1>1 DEF Start, Idle
<1>2. ASSUME Ask, cmd' # Idle
      PROVE  /\ cmd.stage = "ask" /\ cmd'.stage = "guard" /\ DOMAIN cmd' = Fields
             /\ cmd'.verb = cmd.verb /\ cmd'.force = cmd.force /\ cmd'.list = cmd.list
             /\ cmd'.heads = cmd.heads /\ cmd'.todo = cmd.todo
  BY <1>2 DEF Ask
<1>3. ASSUME Guard, cmd' # Idle
      PROVE  /\ cmd.stage = "guard" /\ cmd'.stage = "reap" /\ DOMAIN cmd' = Fields
             /\ cmd'.verb = cmd.verb /\ cmd'.force = cmd.force /\ cmd'.list = cmd.list
             /\ cmd'.heads = {} /\ cmd'.todo = DoomedNow(cmd.heads)
             /\ ~\E n \in DoomedNow(cmd.heads) : Guarded(n, cmd.force)
  BY <1>3 DEF Guard, End
<1>4. ASSUME NEW w, Sweep(w)
      PROVE  /\ cmd.stage = "sweep" /\ w \in cmd.heads /\ DOMAIN cmd' = Fields
             /\ cmd'.verb = cmd.verb /\ cmd'.force = cmd.force /\ cmd'.list = cmd.list
             /\ cmd'.heads = cmd.heads \ {w}
             /\ \/ cmd'.stage = "sweep" /\ cmd'.todo = cmd.todo
                \/ /\ cmd'.stage = "reap" /\ cmd'.todo = {w} \union DescendantsOf(w, cmd.list)
                   /\ ~Guarded(w, cmd.force)
  BY <1>4 DEF Sweep
<1>5. ASSUME Look
      PROVE  \E ans \in Answers, view \in GitViews(cmd.list) :
                 /\ cmd.stage = "look" /\ cmd'.stage = "roots" /\ DOMAIN cmd' = Fields
                 /\ cmd'.verb = cmd.verb /\ cmd'.force = cmd.force /\ cmd'.list = cmd.list
                 /\ cmd'.todo = cmd.todo
                 /\ cmd'.heads = InactiveRoots(cmd.list, Living(cmd.list, ans, view))
  BY <1>5 DEF Look
<1>6. ASSUME NEW r, Root(r), cmd' # Idle
      PROVE  /\ cmd.stage = "roots" /\ r \in cmd.heads /\ cmd'.stage = "reap"
             /\ DOMAIN cmd' = Fields
             /\ cmd'.verb = cmd.verb /\ cmd'.force = cmd.force /\ cmd'.list = cmd.list
             /\ cmd'.heads = cmd.heads \ {r} /\ cmd'.todo = DoomedNow({r})
             /\ ~\E n \in DoomedNow({r}) : Guarded(n, FALSE)
  BY <1>6 DEF Root
<1>7. ASSUME NEW n, Reap(n), cmd' # Idle
      PROVE  /\ cmd.stage = "reap" /\ n \in cmd.todo /\ DOMAIN cmd' = Fields
             /\ cmd'.verb = cmd.verb /\ cmd'.force = cmd.force /\ cmd'.list = cmd.list
             /\ cmd'.heads = cmd.heads /\ cmd'.todo = cmd.todo \ {n}
             /\ \/ cmd'.stage = "reap"
                \/ /\ cmd.verb # "rm"
                   /\ cmd'.stage = IF cmd.verb = "clean" THEN "sweep" ELSE "roots"
  <2>1. Deepest(n) /\ Rest(n)
    BY <1>7 DEF Reap
  <2> QED
    BY <1>7, <2>1 DEF Deepest, Rest
<1>8. ReapFails \/ Done => cmd' = Idle
  BY DEF ReapFails, Done, End
<1> QED
  BY <1>1, <1>2, <1>3, <1>4, <1>5, <1>6, <1>7, <1>8

LEMMA RemovalKept ==
    ASSUME StoreTypes, RemovalInv, [Next]_vars
    PROVE  RemovalInv'
<1>1. CASE UNCHANGED cmd
  BY <1>1 DEF RemovalInv
<1>2. ASSUME RemovalStep, cmd' # Idle PROVE RemovalInv'
  <2> USE DEF RemovalInv
  <2>1. ASSUME NEW n \in Nodes, NEW flags \in Flags, Rm(n, flags) PROVE RemovalInv'
    BY <2>1, RemovalMoves DEF Rm, StoreTypes
  <2>2. ASSUME NEW flags \in Flags, RmCleanWorktrees(flags) PROVE RemovalInv'
    BY <2>2, RemovalMoves DEF RmCleanWorktrees, StoreTypes, Nodes, Places
  <2>3. CASE RmInactive
    BY <2>3, RemovalMoves DEF RmInactive, StoreTypes
  <2>4. CASE Ask
    BY <1>2, <2>4, RemovalMoves
  <2>5. CASE Guard
    <3>1. DoomedNow(cmd.heads) \subseteq Nodes
      BY DoomedAreNodes DEF DoomedNow
    <3> QED
      BY <1>2, <2>5, <3>1, RemovalMoves
  <2>6. ASSUME NEW w, Sweep(w) PROVE RemovalInv'
    <3>1. {w} \union DescendantsOf(w, cmd.list) \subseteq Nodes
      BY <2>6 DEF Sweep, DescendantsOf, Shaped
    <3> QED
      BY <2>6, <3>1, RemovalMoves
  <2>7. CASE Look
    <3>1. \A A : InactiveRoots(cmd.list, A) \subseteq Nodes
      BY DEF InactiveRoots, Shaped
    <3> QED
      BY <2>7, <3>1, RemovalMoves
  <2>8. ASSUME NEW r \in Nodes, Root(r) PROVE RemovalInv'
    <3>1. DoomedNow({r}) \subseteq Nodes
      BY DoomedAreNodes DEF DoomedNow
    <3> QED
      BY <1>2, <2>8, <3>1, RemovalMoves
  <2>9. ASSUME NEW n \in Nodes, Reap(n) PROVE RemovalInv'
    BY <1>2, <2>9, RemovalMoves
  <2> QED
    BY <1>2, <2>1, <2>2, <2>3, <2>4, <2>5, <2>6, <2>7, <2>8, <2>9, RemovalMoves DEF RemovalStep
<1>3. ASSUME Work \/ \E b \in Boxes : Boot(b) \/ \E flags \in Flags : Archive(b, flags)
      PROVE  UNCHANGED cmd
  BY <1>3, BootsLeaveAlone DEF Work, BoxWrites, Edit, Land, GitMoves, Archive, BoxGoes
<1> QED
  BY <1>1, <1>2, <1>3, IdleIsSound DEF Next, Removal, RemovalStep, vars

--------------------------------------------------------------------------------
(* What a removal looked at.                                                *)

(* The steps that are not the removal's.                                    *)
Others == (\E b \in Boxes : Boot(b) \/ \E flags \in Flags : Archive(b, flags)) \/ Work \/ UNCHANGED vars

(* What they write while a removal has looked is remembered, except in a     *)
(* checkout that is cut, which has no record; they take boxes' records only. *)
LEMMA OthersAreSeen ==
    ASSUME StoreTypes, BootInv, RemovalInv, Others
    PROVE  /\ UNCHANGED <<cmd, layout>>
           /\ since \subseteq since'
           /\ Worktrees \intersect DOMAIN recs \subseteq DOMAIN recs'
           /\ \A w \in Worktrees :
                 git'[w] = "unreviewed" /\ cmd.stage \in {"roots", "reap"} =>
                     git[w] = "unreviewed" \/ <<w, SpaceOf(w)>> \in since'
           /\ \A w \in Worktrees : git'[w] = "none" => git[w] = "none"
           /\ cmd.stage \in {"roots", "reap"} =>
                 \A n \in Nodes, s \in Spaces :
                     Holds(n, s)' => \/ Holds(n, s)
                                     \/ <<n, s>> \in since'
                                     \/ n \in Worktrees \ DOMAIN recs
<1> USE DEF StoreTypes, disk
<1>0. /\ UNCHANGED layout
      /\ \A b \in Boxes : Boot(b) => UNCHANGED <<layout, cmd, since>>
  BY BootsLeaveAlone, OthersOnlyTake DEF Others, vars
<1>00. \A n : UNCHANGED SpaceOf(n)
  BY <1>0 DEF SpaceOf
<1> DEFINE Seen ==
      \A n \in Nodes, s \in Spaces :
          Holds(n, s)' => \/ Holds(n, s)
                          \/ <<n, s>> \in since'
                          \/ n \in Worktrees \ DOMAIN recs
<1>1. ASSUME NEW b \in Boxes, Boot(b)
      PROVE  /\ Worktrees \intersect DOMAIN recs \subseteq DOMAIN recs'
             /\ \A w \in Worktrees : git'[w] = git[w] \/ (git[w] = "none" /\ git'[w] = "reviewed")
             /\ Seen
  <2>1. recs' = recs \/ recs' = Without(recs, {b}) \/ \E n, p : recs' = With(recs, n, p)
    BY <1>1, BootsLeaveAlone DEF Mint, RecordCut, RecordBox, Teardown, BoxGoes
  <2>2. Worktrees \intersect DOMAIN recs \subseteq DOMAIN recs'
    BY <2>1, NodeAssumption DEF With, Without
  <2>3. \A n \in Nodes : files'[n] \subseteq files[n]
    <3>1. ASSUME Teardown(b) PROVE \A n \in Nodes : files'[n] \subseteq files[n]
      BY <3>1 DEF Teardown, BoxGoes
    <3> QED
      BY <1>1, <3>1, BootsLeaveAlone
  <2>4. UNCHANGED git \/ \E w \in Worktrees : w \notin DOMAIN recs /\ git[w] = "none" /\ git' = [git EXCEPT ![w] = "reviewed"]
    BY <1>1, BootsLeaveAlone DEF Cut
  <2>5. \A w \in Worktrees : w \in Checkouts
    BY DEF Checkouts
  <2>6. \A w \in Worktrees : git'[w] = git[w] \/ (git[w] = "none" /\ git'[w] = "reviewed" /\ w \notin DOMAIN recs)
    BY <2>4, <2>5
  <2>7. Seen
    BY <1>00, <2>3, <2>6 DEF Holds
  <2> QED
    BY <2>2, <2>6, <2>7
<1>2. ASSUME NEW b \in Boxes, NEW flags \in Flags, Archive(b, flags)
      PROVE  /\ Worktrees \intersect DOMAIN recs \subseteq DOMAIN recs'
             /\ UNCHANGED <<git, cmd, since>>
             /\ Seen
  <2>1. PICK consent, volume : BoxGoes(b, consent, volume)
    BY <1>2 DEF Archive
  <2>2. /\ UNCHANGED <<git, cmd, since>>
        /\ \A n \in Nodes : files'[n] \subseteq files[n]
        /\ recs' = recs \/ recs' = Without(recs, {b})
    BY <2>1 DEF BoxGoes
  <2>3. Worktrees \intersect DOMAIN recs \subseteq DOMAIN recs'
    BY <2>2, NodeAssumption DEF Without
  <2> QED
    BY <1>00, <2>2, <2>3 DEF Holds
<1>3. ASSUME NEW b \in Boxes, NEW at \in Written, BoxWrites(b, at[1], at[2])
      PROVE  /\ UNCHANGED <<recs, git, cmd>>
             /\ since \subseteq since'
             /\ cmd.stage \in {"roots", "reap"} => Seen
  <2>1. UNCHANGED <<recs, git, cmd>> /\ since \subseteq since'
    BY <1>3 DEF BoxWrites, Wrote
  <2>2. /\ files' = [files EXCEPT ![at[1]] = @ \union {at[2]}]
        /\ cmd.stage \in {"roots", "reap"} => <<at[1], at[2]>> \in since'
    BY <1>3 DEF BoxWrites, Wrote
  <2>3. ASSUME NEW n \in Nodes, NEW s \in Spaces, s \in files'[n], s \notin files[n]
        PROVE  n = at[1] /\ s = at[2]
    BY <2>2, <2>3
  <2>4. cmd.stage \in {"roots", "reap"} => Seen
    BY <1>00, <2>1, <2>2, <2>3 DEF Holds
  <2> QED
    BY <2>1, <2>4
<1>4. ASSUME NEW c \in Checkouts, Edit(c) \/ Land(c)
      PROVE  /\ UNCHANGED <<recs, cmd>>
             /\ since \subseteq since'
             /\ \A w \in Worktrees : w # c => git'[w] = git[w]
             /\ git[c] # "none" /\ git'[c] # "none"
             /\ c \in Worktrees /\ cmd.stage \in {"roots", "reap"} => <<c, SpaceOf(c)>> \in since'
             /\ Seen
  <2>1. /\ UNCHANGED <<recs, cmd, files>>
        /\ since \subseteq since'
        /\ \A w \in Checkouts : w # c => git'[w] = git[w]
        /\ git[c] # "none" /\ git'[c] # "none"
        /\ c \in Worktrees /\ cmd.stage \in {"roots", "reap"} => <<c, SpaceOf(c)>> \in since'
    BY <1>4 DEF Edit, Land, GitMoves, Wrote
  <2>2. \A w \in Worktrees : w \in Checkouts
    BY DEF Checkouts
  <2>3. \A w \in Worktrees : git'[w] # "none" => git[w] # "none"
    BY <2>1, <2>2
  <2>4. Seen
    BY <1>00, <2>1, <2>3 DEF Holds
  <2> QED
    BY <2>1, <2>2, <2>4
<1>5. ASSUME UNCHANGED vars PROVE UNCHANGED <<recs, git, cmd, since>> /\ Seen
  BY <1>5, <1>00 DEF vars, Holds
<1> HIDE DEF Seen
<1>6. UNCHANGED <<cmd, layout>> /\ since \subseteq since' /\ Worktrees \intersect DOMAIN recs \subseteq DOMAIN recs'
  BY <1>0, <1>1, <1>2, <1>3, <1>4, <1>5 DEF Others, Work
<1>7. \A w \in Worktrees : git'[w] = "unreviewed" /\ cmd.stage \in {"roots", "reap"} =>
                               git[w] = "unreviewed" \/ <<w, SpaceOf(w)>> \in since'
  BY <1>1, <1>2, <1>3, <1>4, <1>5 DEF Others, Work
<1>8. \A w \in Worktrees : git'[w] = "none" => git[w] = "none"
  BY <1>1, <1>2, <1>3, <1>4, <1>5 DEF Others, Work
<1>9. cmd.stage \in {"roots", "reap"} => Seen
  BY <1>1, <1>2, <1>3, <1>4, <1>5 DEF Others, Work
<1> QED
  BY <1>6, <1>7, <1>8, <1>9 DEF Seen

(* The removal's own steps touch the node they reap and nothing else.       *)
LEMMA ReapTakesOne ==
    ASSUME StoreTypes, RemovalInv, NEW n \in Nodes, Reap(n)
    PROVE  /\ cmd' = Idle \/ since' = since
           /\ \A w \in Worktrees : git'[w] = git[w] \/ (w = n /\ git'[w] = "none")
           /\ \A m \in Nodes, s \in Spaces : m # n => (Holds(m, s)' <=> Holds(m, s))
           /\ DOMAIN recs \ {n} \subseteq DOMAIN recs'
           /\ n \in cmd.todo /\ cmd.stage = "reap"
<1> USE DEF StoreTypes
<1>1. UNCHANGED layout /\ Forget /\ Deepest(n)
  BY DEF Reap
<1>2. PICK taken :
         /\ files' = [files EXCEPT ![n] = @ \ taken]
         /\ recs' = recs \/ recs' = Without(recs, {n})
         /\ git' = git \/ git' = [git EXCEPT ![n] = "none"]
  BY DEF Reap
<1>3. \A w \in Worktrees : git'[w] = git[w] \/ (w = n /\ git'[w] = "none")
  BY <1>2 DEF Checkouts
<1>4. \A m \in Nodes : UNCHANGED SpaceOf(m)
  BY <1>1 DEF SpaceOf
<1>5. \A m \in Nodes, s \in Spaces : m # n => (Holds(m, s)' <=> Holds(m, s))
  BY <1>2, <1>3, <1>4 DEF Holds
<1>6. DOMAIN recs \ {n} \subseteq DOMAIN recs'
  BY <1>2 DEF Without
<1>7. ASSUME cmd' # Idle PROVE since' = since
  <2>1. cmd'.stage # "none"
    BY <1>7, RemovalMoves DEF RemovalInv
  <2> QED
    BY <1>1, <2>1 DEF Forget
<1> QED
  BY <1>1, <1>3, <1>5, <1>6, <1>7 DEF Deepest

LEMMA RestTouchesNothing ==
    ASSUME RemovalStep, ~\E n \in Nodes : Reap(n)
    PROVE  UNCHANGED disk
BY DEF RemovalStep, Rm, RmCleanWorktrees, RmInactive, Start, Ask, Guard, Look, ReapFails, Done, Sweep, Root

LEMMA NextSplits == [Next]_vars => Others \/ RemovalStep
BY DEF Next, Removal, RemovalStep, Others

LEMMA GuardKept ==
    ASSUME StoreTypes, BootInv, RemovalInv, GuardInv, [Next]_vars
    PROVE  GuardInv'
<1> USE DEF RemovalInv
<1> SUFFICES ASSUME cmd'.stage = "reap", ~cmd'.force, NEW w \in cmd'.todo \intersect Worktrees,
                    Resolves(layout'[w]), git'[w] = "unreviewed"
             PROVE  <<w, SpaceOf(w)'>> \in since'
  BY DEF GuardInv, Unreviewed
<1>1. UNCHANGED layout /\ UNCHANGED SpaceOf(w)
  BY NextSplits, OthersAreSeen, OthersOnlyTake DEF SpaceOf
<1>2. CASE Others
  <2>1. w \in cmd.todo /\ cmd.stage = "reap" /\ ~cmd.force
    BY <1>2, OthersAreSeen
  <2>2. git[w] = "unreviewed" \/ <<w, SpaceOf(w)>> \in since'
    BY <1>2, <2>1, OthersAreSeen
  <2>3. git[w] = "unreviewed" => <<w, SpaceOf(w)>> \in since
    BY <1>1, <2>1 DEF GuardInv, Unreviewed
  <2> QED
    BY <1>1, <1>2, <2>2, <2>3, OthersAreSeen
<1>3. ASSUME NEW n \in Nodes, Reap(n) PROVE <<w, SpaceOf(w)'>> \in since'
  <2>1. cmd' # Idle
    BY DEF Idle
  <2>2. cmd.stage = "reap" /\ ~cmd.force /\ w \in cmd.todo /\ since' = since
    BY <1>3, <2>1, RemovalMoves, ReapTakesOne
  <2>3. git[w] = "unreviewed"
    BY <1>3, ReapTakesOne
  <2> QED
    BY <1>1, <2>2, <2>3 DEF GuardInv, Unreviewed
<1>4. ASSUME RemovalStep, ~\E n \in Nodes : Reap(n) PROVE FALSE
  <2>1. git' = git /\ cmd' # Idle
    BY <1>4, RestTouchesNothing DEF disk, Idle
  <2>2. \A force : ~force => Guarded(w, force)
    BY <1>1, <2>1 DEF Guarded, Unreviewed
  <2>3. ASSUME NEW r \in Nodes, Root(r) PROVE FALSE
    BY <2>1, <2>2, <2>3, RemovalMoves
  <2>4. ASSUME NEW r \in Nodes, Sweep(r) PROVE FALSE
    <3>1. /\ cmd'.todo = {r} \union DescendantsOf(r, cmd.list) /\ ~Guarded(r, cmd.force)
          /\ ~cmd.force /\ r \in Worktrees
      BY <2>1, <2>4, RemovalMoves
    <3>2. w = r
      BY <3>1, OnlyBoxesOnWorktrees, NodeAssumption
    <3> QED
      BY <2>2, <3>1, <3>2
  <2>5. ASSUME Guard PROVE FALSE
    BY <2>1, <2>2, <2>5, RemovalMoves
  <2>6. ASSUME NEW flags, (\E n \in Nodes : Rm(n, flags)) \/ RmCleanWorktrees(flags) PROVE FALSE
    BY <2>6, RemovalMoves DEF Rm, RmCleanWorktrees
  <2>7. ASSUME RmInactive \/ Ask \/ Look \/ ReapFails \/ Done PROVE FALSE
    BY <2>1, <2>7, RemovalMoves DEF RmInactive
  <2> QED
    BY <1>4, <2>3, <2>4, <2>5, <2>6, <2>7 DEF RemovalStep
<1> QED
  BY <1>2, <1>3, <1>4, NextSplits

LEMMA SweepKept ==
    ASSUME StoreTypes, BootInv, RemovalInv, SweepInv, [Next]_vars
    PROVE  SweepInv'
<1> SUFFICES ASSUME cmd'.verb = "inactive"
             PROVE  /\ cmd'.stage = "look" => /\ cmd'.heads = {} /\ cmd'.todo = {}
                                              /\ Worktrees \intersect DOMAIN cmd'.list \subseteq DOMAIN recs'
                    /\ \A n \in Swept', s \in {"held", "volume"} : Holds(n, s)' => <<n, s>> \in since'
                    /\ Worktrees \intersect Swept' \subseteq DOMAIN recs'
                    /\ cmd'.todo \intersect Doomed(cmd'.heads, cmd'.list) = {}
                    /\ \A r \in cmd'.heads, q \in cmd'.heads :
                          Doomed({r}, cmd'.list) \intersect Doomed({q}, cmd'.list) # {} => r = q
  BY DEF SweepInv
<1> DEFINE Kept == /\ \A n \in Swept', s \in {"held", "volume"} : Holds(n, s)' => <<n, s>> \in since'
                   /\ Worktrees \intersect Swept' \subseteq DOMAIN recs'
           Apart == /\ cmd'.todo \intersect Doomed(cmd'.heads, cmd'.list) = {}
                    /\ \A r \in cmd'.heads, q \in cmd'.heads :
                          Doomed({r}, cmd'.list) \intersect Doomed({q}, cmd'.list) # {} => r = q
           Looks == cmd'.stage = "look" => /\ cmd'.heads = {} /\ cmd'.todo = {}
                                           /\ Worktrees \intersect DOMAIN cmd'.list \subseteq DOMAIN recs'
<1> SUFFICES Kept /\ Apart /\ Looks
  OBVIOUS
<1>0. Swept \subseteq Nodes /\ {"held", "volume"} \subseteq Spaces
  BY DoomedAreNodes DEF Swept, RemovalInv, Spaces
<1>00. \A f : Doomed({}, f) = {}
  BY DEF Doomed
<1>1. CASE Others
  <2>1. UNCHANGED cmd /\ since \subseteq since' /\ Worktrees \intersect DOMAIN recs \subseteq DOMAIN recs'
    BY <1>1, OthersAreSeen
  <2>2. UNCHANGED Swept
    BY <2>1 DEF Swept
  <2>3. Apart
    BY <2>1 DEF SweepInv
  <2>4. Looks
    BY <2>1 DEF SweepInv
  <2>5. Worktrees \intersect Swept \subseteq DOMAIN recs
    BY <2>1 DEF SweepInv
  <2>6. ASSUME NEW n \in Swept, NEW s \in {"held", "volume"}, Holds(n, s)' PROVE <<n, s>> \in since'
    <3>1. cmd.stage \in {"roots", "reap"}
      <4>1. cmd.stage = "look" => Swept = {}
        BY <1>00, <2>1 DEF SweepInv, Swept
      <4> QED
        BY <2>1, <2>6, <4>1 DEF RemovalInv
    <3>2. n \in Nodes /\ s \in Spaces
      BY <1>0
    <3>3. Holds(n, s) \/ <<n, s>> \in since' \/ n \in Worktrees \ DOMAIN recs
      BY <1>1, <2>6, <3>1, <3>2, OthersAreSeen
    <3>4. Holds(n, s) => <<n, s>> \in since
      BY <2>1 DEF SweepInv
    <3> QED
      BY <2>1, <2>5, <3>3, <3>4
  <2> QED
    BY <2>1, <2>2, <2>3, <2>4, <2>5, <2>6
<1>2. ASSUME NEW n \in Nodes, Reap(n) PROVE Kept /\ Apart /\ Looks
  <2>1. cmd' # Idle
    BY DEF Idle
  <2>2. /\ cmd.stage = "reap" /\ n \in cmd.todo /\ cmd.verb = "inactive" /\ cmd'.list = cmd.list
        /\ cmd'.heads = cmd.heads /\ cmd'.todo = cmd.todo \ {n} /\ cmd'.stage # "look"
    BY <1>2, <2>1, RemovalMoves DEF RemovalInv
  <2>3. Apart
    BY <2>2 DEF SweepInv
  <2>4. Swept' = Swept \ {n}
    BY <2>2 DEF Swept, SweepInv
  <2>5. since' = since /\ DOMAIN recs \ {n} \subseteq DOMAIN recs'
    BY <1>2, <2>1, ReapTakesOne
  <2>6. ASSUME NEW m \in Swept', NEW s \in {"held", "volume"}, Holds(m, s)' PROVE <<m, s>> \in since'
    <3>1. m # n /\ m \in Nodes /\ s \in Spaces /\ m \in Swept
      BY <1>0, <2>4
    <3>2. Holds(m, s)
      BY <1>2, <2>6, <3>1, ReapTakesOne
    <3> QED
      BY <2>2, <2>5, <3>1, <3>2 DEF SweepInv
  <2>7. Worktrees \intersect Swept' \subseteq DOMAIN recs'
    BY <2>2, <2>4, <2>5 DEF SweepInv
  <2> QED
    BY <2>2, <2>3, <2>6, <2>7
<1>3. ASSUME RemovalStep, ~\E n \in Nodes : Reap(n) PROVE Kept /\ Apart /\ Looks
  <2>1. recs' = recs /\ git' = git /\ layout' = layout /\ files' = files /\ cmd' # Idle
    BY <1>3, RestTouchesNothing DEF disk, Idle
  <2>2. \A n, s : UNCHANGED Holds(n, s)
    BY <2>1 DEF Holds, SpaceOf
  <2>3. CASE RmInactive
    <3>1. cmd'.heads = {} /\ cmd'.todo = {} /\ cmd'.list = recs
      BY <2>3, RemovalMoves DEF RmInactive, RemovalInv
    <3>2. Swept' = {}
      BY <1>00, <3>1 DEF Swept
    <3> QED
      BY <1>00, <2>1, <3>1, <3>2
  <2>4. CASE Look
    <3>1. PICK ans \in Answers, view \in GitViews(cmd.list) :
             /\ cmd.stage = "look" /\ cmd'.stage = "roots" /\ cmd'.list = cmd.list
             /\ cmd'.todo = cmd.todo /\ cmd.verb = "inactive"
             /\ cmd'.heads = InactiveRoots(cmd.list, Living(cmd.list, ans, view))
      BY <2>4, RemovalMoves DEF RemovalInv
    <3> DEFINE A == Living(cmd.list, ans, view)
    <3>2. GoesUp(A, cmd.list)
      BY ActiveIsUpward DEF Living
    <3>3. cmd.todo = {} /\ Worktrees \intersect DOMAIN cmd.list \subseteq DOMAIN recs
      BY <3>1 DEF SweepInv
    <3>4. ASSUME NEW n \in DOMAIN cmd.list \ A, NEW s \in {"held", "volume"} PROVE ~Holds(n, s)
      <4>1. n \notin Holding
        BY ActiveHasTheLiving DEF Living, SelfActive
      <4>2. n \in Nodes /\ s \in Spaces
        BY DEF RemovalInv, Shaped, Spaces
      <4> QED
        BY <4>1, <4>2 DEF Holding
    <3> HIDE DEF A
    <3>5. cmd'.heads = InactiveRoots(cmd.list, A)
      BY <3>1 DEF A
    <3>6. Swept' = Doomed(cmd'.heads, cmd.list)
      BY <3>1, <3>3 DEF Swept
    <3>7. \A n \in Swept' : n \in DOMAIN cmd.list \ A
      BY <3>2, <3>5, <3>6, DeadBranches
    <3>8. Kept
      BY <2>1, <2>2, <3>3, <3>4, <3>7
    <3>9. Apart
      BY <3>1, <3>2, <3>3, <3>5, BranchesAreDisjoint
    <3> QED
      BY <3>1, <3>8, <3>9
  <2>5. ASSUME NEW r \in Nodes, Root(r) PROVE Kept /\ Apart /\ Looks
    <3>1. /\ cmd.stage = "roots" /\ r \in cmd.heads /\ cmd'.stage = "reap" /\ cmd.verb = "inactive"
          /\ cmd'.list = cmd.list /\ cmd'.heads = cmd.heads \ {r} /\ cmd'.todo = Doomed({r}, cmd.list)
      BY <2>1, <2>5, RemovalMoves DEF DoomedNow, RemovalInv
    <3>2. Forget
      BY <2>5 DEF Root
    <3>3. since' = since
      BY <3>1, <3>2 DEF Forget
    <3>4. \A n : n \in Doomed(cmd.heads, cmd.list) <=> \E q \in cmd.heads : n \in Doomed({q}, cmd.list)
      BY DoomedUnion
    <3>5. \A n : n \in Doomed(cmd'.heads, cmd.list) <=> \E q \in cmd'.heads : n \in Doomed({q}, cmd.list)
      BY DoomedUnion
    <3>6. Swept' \subseteq Swept
      BY <3>1, <3>4, <3>5 DEF Swept
    <3>7. Kept
      BY <2>1, <2>2, <3>1, <3>3, <3>6 DEF SweepInv
    <3>8. Apart
      <4>1. ASSUME NEW n \in cmd'.todo, n \in Doomed(cmd'.heads, cmd'.list) PROVE FALSE
        <5>1. PICK q \in cmd.heads \ {r} : n \in Doomed({q}, cmd.list)
          BY <3>1, <3>5, <4>1
        <5>2. n \in Doomed({r}, cmd.list)
          BY <3>1
        <5> QED
          BY <3>1, <5>1, <5>2 DEF SweepInv
      <4>2. \A q \in cmd'.heads : q \in cmd.heads
        BY <3>1
      <4> QED
        BY <3>1, <4>1, <4>2 DEF SweepInv
    <3> QED
      BY <3>1, <3>7, <3>8
  <2>6. ASSUME NEW flags, (\E n \in Nodes : Rm(n, flags)) \/ RmCleanWorktrees(flags) PROVE FALSE
    BY <2>6, RemovalMoves DEF Rm, RmCleanWorktrees, RemovalInv
  <2>7. ASSUME Ask \/ Guard \/ ReapFails \/ Done \/ \E n \in Nodes : Sweep(n) PROVE FALSE
    BY <2>1, <2>7, RemovalMoves DEF RemovalInv
  <2> QED
    BY <1>3, <2>3, <2>4, <2>5, <2>6, <2>7 DEF RemovalStep
<1> HIDE DEF Kept, Apart, Looks
<1> QED
  BY <1>1, <1>2, <1>3, NextSplits

--------------------------------------------------------------------------------
(* What holds of the store.                                                 *)

IInv == StoreTypes /\ BootInv /\ JournalInv /\ RemovalInv /\ GuardInv /\ SweepInv

(* The types and every strengthening above, in every state of any number of  *)
(* boots and of one removal after another, over any records.                 *)
THEOREM Invariance == Spec => []IInv
<1>1. Init => IInv
  BY StartsSound DEF IInv
<1>2. IInv /\ [Next]_vars => IInv'
  BY BootsStep, TypesStep, JournalStep, RemovalKept, GuardKept, SweepKept DEF IInv
<1> QED
  BY <1>1, <1>2, PTL DEF Spec

THEOREM StoreTypesCorrect == Spec => []NodeTypeOK
<1>1. IInv => NodeTypeOK
  <2> SUFFICES ASSUME IInv PROVE NodeTypeOK
    OBVIOUS
  <2> USE DEF IInv, StoreTypes
  <2>1. DOMAIN recs \subseteq Nodes /\ recs \in [DOMAIN recs -> Nodes \union {NoNode}]
    BY DEF Shaped, Nodes, Places
  <2>2. \A i \in DOMAIN journal : journal[i] \in Entries
    BY WhatEntriesSay DEF JournalInv
  <2> QED
    BY <2>1, <2>2 DEF NodeTypeOK, BootType, BootStages, Tips, Entries, RemovalInv
<1> QED
  BY Invariance, <1>1, PTL

(* The journal and the drivers together name, for each checkout, the boxes   *)
(* that run there once their boots are through, and no other: however boots, *)
(* boxes' ends, archivings and removals fall between each other             *)
(* (wtlog.go:logWorktreeUp, logWorktreeDown, liveByWorktree).                *)
THEOREM JournalAndDrivers == Spec => []JournalTellsTheTruth
<1>1. IInv => JournalTellsTheTruth
  <2> SUFFICES ASSUME IInv, NEW w \in Worktrees
               PROVE  /\ \A b \in JournalLive(w, journal, running) : boot[b].tip = w
                      /\ \A b \in running : boot[b].at = "running" /\ boot[b].tip = w
                                               => b \in JournalLive(w, journal, running)
    BY DEF JournalTellsTheTruth
  <2>1. LiveEntries(journal) \subseteq DOMAIN journal
    BY DEF LiveEntries, Ups
  <2> QED
    BY <2>1 DEF IInv, JournalInv, JournalLive
<1> QED
  BY Invariance, <1>1, PTL

(* `rm --inactive` is for exactly what `ls` hides, on any answer of the      *)
(* drivers and of git: the dead branches have the whole of it and nothing else          *)
(* (ls.go:inactiveRoots, rm.go:rmInactive).                                 *)
THEOREM TheRestIsDead == Spec => []TheRestIsSwept
<1>1. IInv => TheRestIsSwept
  <2> SUFFICES ASSUME IInv, NEW ans \in Answers, NEW view \in GitViews(recs), NEW n
               PROVE  LET active == Living(recs, ans, view)
                      IN  n \in Doomed(InactiveRoots(recs, active), recs) <=> n \in DOMAIN recs \ active
    BY DEF TheRestIsSwept
  <2> DEFINE active == Living(recs, ans, view)
  <2>1. Shaped(recs) /\ GoesUp(active, recs)
    BY ActiveIsUpward DEF IInv, StoreTypes, Living
  <2> HIDE DEF active
  <2>2. n \in Doomed(InactiveRoots(recs, active), recs) <=> n \in DOMAIN recs \ active
    BY <2>1, DeadBranches, DeadAreSwept
  <2> QED
    BY <2>2 DEF active
<1> QED
  BY Invariance, <1>1, PTL

(* What stands above a set stands above one of its nodes.                   *)
LEMMA AboveSome ==
    ASSUME NEW f, NEW set, NEW m \in Above(set, f)
    PROVE  \E n \in set \intersect DOMAIN f : m \in ChainOf(n, f)
<1> DEFINE S == UNION {ChainOf(n, f) : n \in set \intersect DOMAIN f}
<1>1. S \in SUBSET DOMAIN f
  BY AboveIsLeast DEF ChainOf
<1>2. set \intersect DOMAIN f \subseteq S
  BY ChainUnrolls
<1>3. ASSUME NEW k \in S, f[k] \in DOMAIN f PROVE f[k] \in S
  <2>1. PICK n \in set \intersect DOMAIN f : k \in Above({n}, f)
    BY DEF ChainOf
  <2>2. f[k] \in Above({n}, f)
    BY <1>3, <2>1, AboveIsLeast
  <2> QED
    BY <2>2 DEF ChainOf
<1>4. Above(set, f) \subseteq S
  <2> HIDE DEF S
  <2> QED
    BY <1>1, <1>2, <1>3, AboveWithin
<1> QED
  BY <1>4

(* Whatever lives has its row where it belongs, on any answer of the         *)
(* drivers and of git, also while the record of what it stands on is gone or its own is  *)
(* not there yet (ls.go: groups, orphans, loose boxes).                      *)
THEOREM LifeIsListed == Spec => []EveryLifeIsShown
<1>1. IInv => EveryLifeIsShown
  <2> SUFFICES ASSUME IInv, NEW ans \in Answers, NEW view \in GitViews(recs)
               PROVE  LET shown == Shown(ans, view)
                          listed == Listed(shown, ans.present)
                      IN  /\ Places \intersect DOMAIN shown \subseteq listed
                          /\ \A b \in Orphans(shown, ans.present, listed) : recs[b] \notin DOMAIN recs
                          /\ Loose(shown, ans.present) \intersect DOMAIN recs = {}
    BY DEF EveryLifeIsShown
  <2> DEFINE active == Living(recs, ans, view)
             shown == Shown(ans, view)
             live == ans.present
  <2>1. Shaped(recs) /\ live \subseteq Boxes
    BY DEF IInv, StoreTypes, Answers
  <2>2. /\ active \subseteq DOMAIN recs
        /\ \A n \in active : recs[n] \in DOMAIN recs => recs[n] \in active
    BY AboveIsLeast DEF Living, Active
  <2>3. DOMAIN shown = active /\ \A n \in active : shown[n] = recs[n]
    BY DEF Shown
  <2>4. \A b \in live \intersect DOMAIN recs : b \in active
    BY <2>1, ActiveHasTheLiving DEF Living, SelfActive
  <2> HIDE DEF active, shown, live
  <2>5. ASSUME NEW p \in Places \intersect DOMAIN shown PROVE p \in Listed(shown, live)
    <3> DEFINE up == Above(Boxes \intersect DOMAIN shown \intersect live, shown)
    <3>1. CASE p \in up
      <4>1. PICK b \in Boxes \intersect DOMAIN shown \intersect live : p \in ChainOf(b, shown)
        BY <3>1, AboveSome
      <4>2. b \in Above({c \in Boxes \intersect DOMAIN shown \intersect live : Section[c] = Section[b]}, shown)
        BY AboveIsLeast
      <4>3. p \in ShownUp(Section[b], shown, live)
        BY <4>1, <4>2, ChainIsAbove DEF ShownUp
      <4> QED
        BY <4>3 DEF Listed
    <3>2. CASE p \notin up
      <4>1. p \in Above((Places \intersect DOMAIN shown) \ up, shown)
        BY <3>2, AboveIsLeast
      <4>2. p \notin Boxes
        BY NodeAssumption DEF Places
      <4>3. p \in ShownIdle(shown, live)
        BY <3>2, <4>1, <4>2 DEF ShownIdle
      <4> QED
        BY <4>3 DEF Listed
    <3> QED
      BY <3>1, <3>2
  <2>6. ASSUME NEW b \in Orphans(shown, live, Listed(shown, live)), recs[b] \in DOMAIN recs PROVE FALSE
    <3>1. b \in Boxes /\ b \in active /\ shown[b] \notin Listed(shown, live)
      BY <2>3 DEF Orphans, GoneBoxes
    <3>2. shown[b] = recs[b] /\ recs[b] \in active /\ recs[b] \in Places
      BY <2>1, <2>2, <2>3, <2>6, <3>1 DEF Shaped
    <3> QED
      BY <2>3, <2>5, <3>1, <3>2
  <2>7. Loose(shown, live) \intersect DOMAIN recs = {}
    BY <2>3, <2>4 DEF Loose
  <2> QED
    BY <2>5, <2>6, <2>7 DEF shown, live
<1> QED
  BY Invariance, <1>1, PTL

(* A plain removal, a cascade, a sweep of the worktrees or of the dead takes *)
(* no unreviewed work without --force but what was done after it looked       *)
(* (rm.go:guardWorktreeWork and its three callers).                         *)
THEOREM WorkIsGuarded == Spec => GuardedWork
<1> DEFINE Spared ==
      \A w \in Worktrees :
          /\ Resolves(layout[w]) /\ Unreviewed(git[w])
          /\ git'[w] = "none"
          => cmd.force \/ <<w, SpaceOf(w)>> \in since
<1>1. ASSUME IInv, [Next]_vars PROVE Spared
  <2> USE <1>1 DEF IInv
  <2> SUFFICES ASSUME NEW w \in Worktrees, Resolves(layout[w]), git[w] = "unreviewed",
                      git'[w] = "none", ~cmd.force
               PROVE  <<w, SpaceOf(w)>> \in since
    BY DEF Unreviewed
  <2>1. ~Others
    BY OthersAreSeen
  <2>2. PICK n \in Nodes : Reap(n)
    BY <2>1, NextSplits, RestTouchesNothing DEF disk
  <2>3. w = n /\ w \in cmd.todo /\ cmd.stage = "reap"
    BY <2>2, ReapTakesOne
  <2> QED
    BY <2>3 DEF GuardInv, Unreviewed
<1>2. IInv /\ [Next]_vars => [Spared]_vars
  BY <1>1
<1> QED
  BY Invariance, <1>2, PTL DEF Spec, GuardedWork

(* `rm --inactive` asks nobody and takes no file of a kept space but one      *)
(* written after it looked, though its list and its answer are old by then    *)
(* (rm.go:rmInactive).                                                      *)
THEOREM SweepIsHarmless == Spec => SweepTakesNoFiles
<1> DEFINE Harmless ==
      \A n \in Nodes, s \in {"held", "volume"} :
          /\ cmd.verb = "inactive" /\ cmd' # cmd
          /\ Holds(n, s) /\ ~Holds(n, s)'
          => <<n, s>> \in since
<1>1. ASSUME IInv, [Next]_vars PROVE Harmless
  <2> USE <1>1 DEF IInv
  <2> SUFFICES ASSUME NEW n \in Nodes, NEW s \in {"held", "volume"},
                      cmd.verb = "inactive", cmd' # cmd, Holds(n, s), ~Holds(n, s)'
               PROVE  <<n, s>> \in since
    OBVIOUS
  <2>1. ~Others
    BY OthersAreSeen
  <2>2. ASSUME ~\E m \in Nodes : Reap(m) PROVE FALSE
    <3>1. UNCHANGED disk
      BY <2>1, <2>2, NextSplits, RestTouchesNothing
    <3> QED
      BY <3>1 DEF disk, Holds, SpaceOf
  <2>3. PICK m \in Nodes : Reap(m)
    BY <2>2
  <2>4. n = m /\ n \in cmd.todo
    BY <2>3, ReapTakesOne DEF Spaces
  <2> QED
    BY <2>4 DEF SweepInv, Swept
<1>2. IInv /\ [Next]_vars => [Harmless]_vars
  BY <1>1
<1> QED
  BY Invariance, <1>2, PTL DEF Spec, SweepTakesNoFiles
================================================================================
