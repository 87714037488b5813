------------------------------ MODULE ImageProofs ------------------------------
(***************************************************************************)
(* Theorems about ImageStore for any number of dabs processes and versions, *)
(* and whatever fails.                                                     *)
(***************************************************************************)
EXTENDS ImageStore, FiniteSetTheorems, TLAPS

BuildStages == {"create", "stage", "untar", "meta", "clear", "clearing", "rename", "record"}
ImageStages ==
    {"new", "built", "digest", "has", "reuse", "docker", "up", "make", "enter", "lock", "mount",
     "inside", "down", "images", "ls", "prune", "pruning", "pruneNew", "over", "refused", "dead"}
        \cup BuildStages

Dirs == [there : BOOLEAN, of : SUBSET (Versions \cup {Staged, NoVersion}), json : BOOLEAN]
Minds ==
    [kind : {"run", "boot", "build", "exec", "rm", "prune", "force"},
     own : Versions \cup {NoVersion}, box : Procs, digest : Versions \cup {NoVersion},
     stale : {"unasked", "missing", "noRecord", "fresh", "changed"},
     cid : Versions \cup {NoVersion}, sees : SUBSET {"image", "new"},
     live : SUBSET Procs, began : SUBSET Procs]

(* The variables hold values of their types.                                 *)
ImageTypeOK ==
    /\ form \in {"inline", "bundled"}
    /\ builder \in BOOLEAN
    /\ source \in Versions
    /\ tag \in Versions \cup {NoVersion}
    /\ new \in Dirs
    /\ image \in Dirs
    /\ record \in Versions \cup {NoVersion}
    /\ box \in [Procs -> {"none", "half", "up"}]
    /\ holder \in [Procs -> Procs \cup {NoProc}]
    /\ inside \in [Procs -> SUBSET Procs]
    /\ at \in [Procs -> ImageStages]
    /\ mind \in [Procs -> Minds]
    /\ lapses \in SUBSET {"together", "unrecorded", "unlisted", "pruned", "unremoved", "edited",
                         "killed"}

(* The lock of an instance is with the process that mounts it or waits for its *)
(* command, and with nobody else.                                            *)
LockInv ==
    \A p \in Procs :
        /\ at[p] \in {"mount", "inside"} => holder[mind[p].box] = p
        /\ \A i \in Procs : holder[i] = p => at[p] \in {"mount", "inside"} /\ mind[p].box = i

(* Commands are in the box their dabs was asked for; one goes on without it.   *)
InsideInv ==
    \A i \in Procs : \A p \in inside[i] : at[p] \in {"inside", "dead"} /\ mind[p].box = i

DeadInv == \A p \in Procs : at[p] = "dead" => "killed" \in lapses

(* A box is there only once its boot has made it, which it does once.         *)
BornInv ==
    /\ \A i \in Procs : box[i] # "none" =>
          at[i] \in {"enter", "lock", "mount", "inside", "down", "over", "refused", "dead"}
    /\ \A p \in Procs : \A i \in mind[p].began :
          at[i] \in {"enter", "lock", "mount", "inside", "down", "over", "refused", "dead"}

(* A prune that goes by a listing goes by all the boxes that stood throughout. *)
ListedInv ==
    \A p \in Procs : at[p] = "prune" /\ mind[p].kind = "prune" /\ "unlisted" \notin lapses =>
        mind[p].began \cap Standing \subseteq mind[p].live

(* What a process knows of the source and of the record.                      *)
KnownInv ==
    /\ \A p \in Procs :
          /\ form = "bundled" /\ at[p] # "new" => mind[p].own \in Versions
          /\ form = "bundled" /\ at[p] \in {"has", "reuse", "docker"} \cup BuildStages =>
                mind[p].digest = mind[p].own
          /\ at[p] \in {"has", "reuse"} => mind[p].digest \in Versions
          /\ at[p] \in BuildStages => builder
          /\ ~builder /\ mind[p].stale = "noRecord" => record = NoVersion
          /\ at[p] = "pruning" => Prunes(p)

(* A build that nothing crosses has what it builds in hand at every step, and  *)
(* the image is whole and what the record says, but for the build that is      *)
(* about to write that, and while nobody is in the middle of removing it.      *)
Builds(p) ==
    /\ at[p] = "create" => tag = Current(p)
    /\ at[p] \in BuildStages \ {"create"} => mind[p].cid = Current(p)
    /\ at[p] = "untar" => new = Dir({}, FALSE)
    /\ at[p] = "meta" => new = Dir({Current(p)}, FALSE)
    /\ at[p] \in {"clear", "clearing", "rename"} => new = Dir({Current(p)}, TRUE)
    /\ at[p] = "rename" => ~image.there
    /\ at[p] = "record" /\ image.there /\ Removing = {} => image.of = {Current(p)}

Sound ==
    /\ \A p, q \in Building : p = q
    /\ \A p \in Procs : Builds(p)
    /\ image.there /\ Removing = {} => Whole(image)
    /\ image.there /\ Removing = {} /\ (\A p \in Procs : at[p] # "record") =>
          image.of = {IF record = NoVersion THEN Staged ELSE record}

WholeInv == lapses = {} => Sound

IInv ==
    /\ ImageTypeOK
    /\ LockInv
    /\ InsideInv
    /\ DeadInv
    /\ BornInv
    /\ ListedInv
    /\ KnownInv
    /\ WholeInv

--------------------------------------------------------------------------------
(* Each part of the invariant is kept by every step.                        *)

(* A build, a prune and a removal cut short leave directories.                 *)
LEMMA DirsType ==
  ASSUME ImageTypeOK
  PROVE  /\ NoDir \in Dirs
         /\ \A json \in BOOLEAN : Dir({}, json) \in Dirs
         /\ \A dir \in Dirs : Torn(dir) \subseteq Dirs
         /\ \A v \in Versions \cup {NoVersion} : [new EXCEPT !.of = @ \cup {v}] \in Dirs
         /\ [new EXCEPT !.json = TRUE] \in Dirs
<1>1. ASSUME NEW dir \in Dirs PROVE Torn(dir) \subseteq Dirs
  <2>1. [dir EXCEPT !.of = {}] \in Dirs /\ [dir EXCEPT !.json = FALSE] \in Dirs
    BY DEF Dirs
  <2>2. Dir({}, FALSE) \in Dirs
    BY DEF Dirs, Dir
  <2> QED
    BY <2>1, <2>2 DEF Torn
<1>2. NoDir \in Dirs /\ \A json \in BOOLEAN : Dir({}, json) \in Dirs
  BY DEF Dirs, Dir, NoDir
<1>3. /\ \A v \in Versions \cup {NoVersion} : [new EXCEPT !.of = @ \cup {v}] \in Dirs
      /\ [new EXCEPT !.json = TRUE] \in Dirs
  BY DEF ImageTypeOK, Dirs
<1> QED
  BY <1>1, <1>2, <1>3

(* What a process reads is put beside what it has read.                        *)
LEMMA MindsType ==
  ASSUME NEW m \in Minds
  PROVE  /\ \A v \in Versions \cup {NoVersion} : [m EXCEPT !.digest = v] \in Minds
         /\ \A stale \in {"noRecord", "fresh", "changed"} : [m EXCEPT !.stale = stale] \in Minds
         /\ \A sees \in SUBSET {"image", "new"} : [m EXCEPT !.sees = sees] \in Minds
BY DEF Minds

(* Nothing is written that is not of its type.                              *)
LEMMA ImageTypeOKStep ==
  ASSUME ImageTypeOK, [Next]_vars
  PROVE  ImageTypeOK'
<1> USE ImageAssumption DEF ImageTypeOK, ImageAssumption, ImageStages, BuildStages
<1>1. CASE Edit
  BY <1>1 DEF Edit, Goes, Refuse, store, boxes
<1>2. ASSUME NEW p \in Procs, Start(p) PROVE ImageTypeOK'
  <2>1. PICK kind \in Kinds, own \in IF form = "bundled" THEN Versions ELSE {NoVersion},
              i \in Procs :
          /\ mind' = [mind EXCEPT ![p].kind = kind, ![p].own = own, ![p].box = i]
          /\ Goes(p, CASE kind \in {"prune", "force"} -> "images"
                       [] kind = "exec" -> "enter"
                       [] kind = "rm" -> "down"
                       [] kind = "build" /\ form = "inline" -> "docker"
                       [] kind = "boot" /\ form = "inline" -> "built"
                       [] OTHER -> "digest")
    <3> HIDE DEF ImageTypeOK, ImageAssumption, ImageStages, BuildStages
    <3> QED
      BY <1>2 DEF Start
  <2> DEFINE k == [mind[p] EXCEPT !.kind = kind]
  <2> DEFINE o == [k EXCEPT !.own = own]
  <2> DEFINE b == [o EXCEPT !.box = i]
  <2>2. k \in Minds
    BY DEF Minds
  <2>3. o \in Minds
    BY <2>2 DEF Minds
  <2>4. b \in Minds
    BY <2>3 DEF Minds
  <2>5. mind' = [mind EXCEPT ![p] = b]
    BY <2>1
  <2> HIDE DEF b
  <2> QED
    BY <1>2, <2>4, <2>5, ZenonT(40) DEF Start, Goes, Refuse, store, boxes
<1>3. ASSUME NEW p \in Procs, BuiltImage(p) PROVE ImageTypeOK'
  BY <1>3 DEF BuiltImage, Serve, Goes, Refuse, store, boxes
<1>4. ASSUME NEW p \in Procs, Digest(p) PROVE ImageTypeOK'
  <2>1. Current(p) \in Versions \cup {NoVersion}
    BY DEF Current, Minds
  <2>2. \A v \in Versions \cup {NoVersion} : [mind[p] EXCEPT !.digest = v] \in Minds
    BY MindsType
  <2> QED
    BY <1>4, <2>1, <2>2 DEF Digest, Goes, Refuse, store, boxes
<1>5. ASSUME NEW p \in Procs, HasImage(p) PROVE ImageTypeOK'
  <2>1. [mind[p] EXCEPT !.stale = "missing"] \in Minds
    BY <1>5 DEF HasImage, Goes, Refuse, store, boxes, Minds
  <2> QED
    BY <1>5, <2>1 DEF HasImage, Goes, Refuse, store, boxes
<1>6. ASSUME NEW p \in Procs, Reuse(p) PROVE ImageTypeOK'
  <2> DEFINE stale == CASE record = NoVersion -> "noRecord"
                        [] record = mind[p].digest -> "fresh"
                        [] OTHER -> "changed"
  <2>1. mind' = [mind EXCEPT ![p].stale = stale]
    BY <1>6 DEF Reuse
  <2>2. [mind[p] EXCEPT !.stale = stale] \in Minds
    BY MindsType
  <2>3. mind' \in [Procs -> Minds]
    BY <2>1, <2>2
  <2>4. \E to \in {"up", "over", "docker"} : at' = [at EXCEPT ![p] = to]
    BY <1>6 DEF Reuse, Serve, Goes
  <2> QED
    BY <1>6, <2>3, <2>4 DEF Reuse, store, boxes
<1>7. ASSUME NEW p \in Procs, NoBuilder(p) PROVE ImageTypeOK'
  BY <1>7 DEF NoBuilder, Serve, Goes, Refuse, store, boxes
<1>8. ASSUME NEW p \in Procs, DockerBuild(p) PROVE ImageTypeOK'
  <2>1. Current(p) \in Versions \cup {NoVersion}
    BY DEF Current, Minds
  <2> QED
    BY <1>8, <2>1 DEF DockerBuild, Goes, Refuse, store, boxes
<1>9. ASSUME NEW p \in Procs, BuildFails(p) PROVE ImageTypeOK'
  BY <1>9 DEF BuildFails, Goes, Refuse, store, boxes
<1>10. ASSUME NEW p \in Procs, Create(p) PROVE ImageTypeOK'
  <2>1. [mind[p] EXCEPT !.cid = tag] \in Minds
    BY <1>10 DEF Create, Goes, Refuse, store, boxes, Minds
  <2> QED
    BY <1>10, <2>1 DEF Create, Goes, Refuse, store, boxes
<1>11. ASSUME NEW p \in Procs, Stage(p) PROVE ImageTypeOK'
  BY <1>11, DirsType DEF Stage, Goes, Refuse, store, boxes
<1>12. ASSUME NEW p \in Procs, Untar(p) PROVE ImageTypeOK'
  <2>1. mind[p].cid \in Versions \cup {NoVersion}
    BY DEF Minds
  <2>2. \/ new' = [new EXCEPT !.of = @ \cup {mind[p].cid}]
        \/ new' = Dir({}, FALSE) \/ new' = new
    BY <1>12 DEF Untar
  <2>3. new' \in Dirs
    BY <2>1, <2>2, DirsType
  <2> QED
    BY <1>12, <2>3 DEF Untar, Goes, Refuse, store, boxes
<1>13. ASSUME NEW p \in Procs, WriteMeta(p) PROVE ImageTypeOK'
  BY <1>13, DirsType DEF WriteMeta, Goes, Refuse, store, boxes
<1>14. ASSUME NEW p \in Procs, Clear(p) PROVE ImageTypeOK'
  BY <1>14, DirsType DEF Clear, Goes, Refuse, store, boxes
<1>15. ASSUME NEW p \in Procs, Rename(p) PROVE ImageTypeOK'
  BY <1>15, DirsType DEF Rename, Goes, Refuse, store, boxes
<1>16. ASSUME NEW p \in Procs, RecordDigest(p) PROVE ImageTypeOK'
  <2>1. Recorded(p) \in Versions \cup {NoVersion}
    BY DEF Recorded, Minds
  <2> QED
    BY <1>16, <2>1 DEF RecordDigest, Serve, Goes, Refuse, store, boxes
<1>17. ASSUME NEW p \in Procs, RecordFails(p) PROVE ImageTypeOK'
  BY <1>17 DEF RecordFails, Serve, Goes, Refuse, store, boxes
<1>18. ASSUME NEW p \in Procs, UpRefused(p) PROVE ImageTypeOK'
  BY <1>18 DEF UpRefused, Goes, Refuse, store, boxes
<1>19. ASSUME NEW p \in Procs, UpRead(p) PROVE ImageTypeOK'
  BY <1>19 DEF UpRead, Goes, Refuse, store, boxes
<1>20. ASSUME NEW p \in Procs, UpMake(p) PROVE ImageTypeOK'
  BY <1>20 DEF UpMake, Goes, Refuse, store, boxes
<1>21. ASSUME NEW p \in Procs, UpFails(p) PROVE ImageTypeOK'
  BY <1>21 DEF UpFails, Goes, Refuse, store, boxes
<1>22. ASSUME NEW p \in Procs, Enter(p) PROVE ImageTypeOK'
  BY <1>22 DEF Enter, Goes, Refuse, store, boxes
<1>23. ASSUME NEW p \in Procs, LockGone(p) PROVE ImageTypeOK'
  BY <1>23 DEF LockGone, Goes, Refuse, store, boxes
<1>24. ASSUME NEW p \in Procs, Lock(p) PROVE ImageTypeOK'
  BY <1>24 DEF Lock, Goes, Refuse, store, boxes
<1>25. ASSUME NEW p \in Procs, Mount(p) PROVE ImageTypeOK'
  BY <1>25 DEF Mount, Goes, Refuse, store, boxes
<1>26. ASSUME NEW p \in Procs, Leave(p) PROVE ImageTypeOK'
  BY <1>26 DEF Leave, Goes, Refuse, store, boxes
<1>27. ASSUME NEW p \in Procs, Down(p) PROVE ImageTypeOK'
  BY <1>27 DEF Down, Goes, Refuse, store, boxes
<1>28. ASSUME NEW p \in Procs, Images(p) PROVE ImageTypeOK'
  <2>1. PICK sees \in SUBSET {"image", "new"} :
          mind' = [mind EXCEPT ![p].sees = sees, ![p].began = Standing]
    BY <1>28 DEF Images
  <2> DEFINE m == [mind[p] EXCEPT !.sees = sees]
  <2> DEFINE b == [m EXCEPT !.began = Standing]
  <2>2. m \in Minds
    BY MindsType
  <2>3. b \in Minds
    BY <2>2 DEF Minds, Standing
  <2>4. mind' = [mind EXCEPT ![p] = b]
    BY <2>1
  <2>5. \E to \in {"over", "prune", "ls"} : at' = [at EXCEPT ![p] = to]
    BY <1>28 DEF Images, Goes
  <2>6. UNCHANGED <<form, builder, source, tag, new, image, record, box, holder, inside, lapses>>
    BY <1>28 DEF Images, store, boxes
  <2> HIDE DEF b
  <2> QED
    BY <2>3, <2>4, <2>5, <2>6
<1>29. ASSUME NEW p \in Procs, Ls(p) PROVE ImageTypeOK'
  <2>1. [mind[p] EXCEPT !.live = Standing] \in Minds
    BY DEF Minds, Standing
  <2> QED
    BY <1>29, <2>1 DEF Ls, Goes, Refuse, store, boxes
<1>30. ASSUME NEW p \in Procs, LsFails(p) PROVE ImageTypeOK'
  BY <1>30 DEF LsFails, Goes, Refuse, store, boxes
<1>31. ASSUME NEW p \in Procs, PruneImage(p) PROVE ImageTypeOK'
  BY <1>31, DirsType DEF PruneImage, Goes, Refuse, store, boxes
<1>32. ASSUME NEW p \in Procs, PruneNew(p) PROVE ImageTypeOK'
  BY <1>32, DirsType DEF PruneNew, Goes, Refuse, store, boxes
<1>33. ASSUME NEW p \in Procs, Dies(p) PROVE ImageTypeOK'
  BY <1>33, DirsType DEF Dies, Goes, Refuse, store, boxes
<1>34. ASSUME NEW p \in Procs, CommandDies(p) PROVE ImageTypeOK'
  BY <1>34 DEF CommandDies, Goes, Refuse, store, boxes
<1>36. ASSUME NEW p \in Procs, Tear(p) PROVE ImageTypeOK'
  BY <1>36, DirsType DEF Tear, Prunes, Goes, Refuse, store, boxes
<1>37. ASSUME NEW p \in Procs, RemoveFails(p) PROVE ImageTypeOK'
  BY <1>37, DirsType DEF RemoveFails, Prunes, Goes, Refuse, store, boxes
<1>38. ASSUME NEW p \in Procs, TearNew(p) PROVE ImageTypeOK'
  BY <1>38, DirsType DEF TearNew, Goes, Refuse, store, boxes
<1>35. CASE UNCHANGED vars
  BY <1>35 DEF vars, store, boxes
<1> QED
  BY <1>1, <1>2, <1>3, <1>4, <1>5, <1>6, <1>7, <1>8, <1>9, <1>10, <1>11, <1>12,
     <1>13, <1>14, <1>15, <1>16, <1>17, <1>18, <1>19, <1>20, <1>21, <1>22, <1>23,
     <1>24, <1>25, <1>26, <1>27, <1>28, <1>29, <1>30, <1>31, <1>32, <1>33, <1>34,
     <1>35, <1>36, <1>37, <1>38 DEF Next, Look, Build, Box, Prune, Remove

(* Who gets the lock found it free, and only its holder lets go of it.      *)
LEMMA LockInvStep ==
  ASSUME ImageTypeOK, LockInv, [Next]_vars
  PROVE  LockInv'
<1>0. /\ at \in [Procs -> ImageStages]
      /\ mind \in [Procs -> Minds]
      /\ box \in [Procs -> {"none", "half", "up"}]
      /\ holder \in [Procs -> Procs \cup {NoProc}]
      /\ inside \in [Procs -> SUBSET Procs]
      /\ NoProc \notin Procs
  BY ImageAssumption DEF ImageTypeOK, ImageAssumption
<1> USE <1>0 DEF LockInv, Minds
<1>1. CASE Edit
  BY <1>1 DEF Edit, Goes, Refuse, store, boxes
<1>2. ASSUME NEW p \in Procs, Start(p) PROVE LockInv'
  BY <1>2 DEF Start, Goes, Refuse, store, boxes
<1>3. ASSUME NEW p \in Procs, BuiltImage(p) PROVE LockInv'
  BY <1>3 DEF BuiltImage, Serve, Goes, Refuse, store, boxes
<1>4. ASSUME NEW p \in Procs, Digest(p) PROVE LockInv'
  BY <1>4 DEF Digest, Current, Goes, Refuse, store, boxes
<1>5. ASSUME NEW p \in Procs, HasImage(p) PROVE LockInv'
  BY <1>5 DEF HasImage, Goes, Refuse, store, boxes
<1>6. ASSUME NEW p \in Procs, Reuse(p) PROVE LockInv'
  BY <1>6 DEF Reuse, Serve, Goes, Refuse, store, boxes
<1>7. ASSUME NEW p \in Procs, NoBuilder(p) PROVE LockInv'
  BY <1>7 DEF NoBuilder, Serve, Goes, Refuse, store, boxes
<1>8. ASSUME NEW p \in Procs, DockerBuild(p) PROVE LockInv'
  BY <1>8 DEF DockerBuild, Current, Goes, Refuse, store, boxes
<1>9. ASSUME NEW p \in Procs, BuildFails(p) PROVE LockInv'
  BY <1>9 DEF BuildFails, Goes, Refuse, store, boxes
<1>10. ASSUME NEW p \in Procs, Create(p) PROVE LockInv'
  BY <1>10 DEF Create, Goes, Refuse, store, boxes
<1>11. ASSUME NEW p \in Procs, Stage(p) PROVE LockInv'
  BY <1>11 DEF Stage, Dir, Goes, Refuse, store, boxes
<1>12. ASSUME NEW p \in Procs, Untar(p) PROVE LockInv'
  BY <1>12 DEF Untar, Dir, Goes, Refuse, store, boxes
<1>13. ASSUME NEW p \in Procs, WriteMeta(p) PROVE LockInv'
  BY <1>13 DEF WriteMeta, Goes, Refuse, store, boxes
<1>14. ASSUME NEW p \in Procs, Clear(p) PROVE LockInv'
  BY <1>14 DEF Clear, NoDir, Goes, Refuse, store, boxes
<1>15. ASSUME NEW p \in Procs, Rename(p) PROVE LockInv'
  BY <1>15 DEF Rename, NoDir, Goes, Refuse, store, boxes
<1>16. ASSUME NEW p \in Procs, RecordDigest(p) PROVE LockInv'
  BY <1>16 DEF RecordDigest, Serve, Recorded, Goes, Refuse, store, boxes
<1>17. ASSUME NEW p \in Procs, RecordFails(p) PROVE LockInv'
  BY <1>17 DEF RecordFails, Serve, Goes, Refuse, store, boxes
<1>18. ASSUME NEW p \in Procs, UpRefused(p) PROVE LockInv'
  BY <1>18 DEF UpRefused, Goes, Refuse, store, boxes
<1>19. ASSUME NEW p \in Procs, UpRead(p) PROVE LockInv'
  BY <1>19 DEF UpRead, Goes, Refuse, store, boxes
<1>20. ASSUME NEW p \in Procs, UpMake(p) PROVE LockInv'
  BY <1>20 DEF UpMake, Goes, Refuse, store, boxes
<1>21. ASSUME NEW p \in Procs, UpFails(p) PROVE LockInv'
  BY <1>21 DEF UpFails, Goes, Refuse, store, boxes
<1>22. ASSUME NEW p \in Procs, Enter(p) PROVE LockInv'
  BY <1>22 DEF Enter, Goes, Refuse, store, boxes
<1>23. ASSUME NEW p \in Procs, LockGone(p) PROVE LockInv'
  BY <1>23 DEF LockGone, Goes, Refuse, store, boxes
<1>24. ASSUME NEW p \in Procs, Lock(p) PROVE LockInv'
  BY <1>24 DEF Lock, Goes, Refuse, store, boxes
<1>25. ASSUME NEW p \in Procs, Mount(p) PROVE LockInv'
  BY <1>25 DEF Mount, Goes, Refuse, store, boxes
<1>26. ASSUME NEW p \in Procs, Leave(p) PROVE LockInv'
  BY <1>26 DEF Leave, Goes, Refuse, store, boxes
<1>27. ASSUME NEW p \in Procs, Down(p) PROVE LockInv'
  BY <1>27 DEF Down, Goes, Refuse, store, boxes
<1>28. ASSUME NEW p \in Procs, Images(p) PROVE LockInv'
  BY <1>28 DEF Images, Standing, Goes, Refuse, store, boxes
<1>29. ASSUME NEW p \in Procs, Ls(p) PROVE LockInv'
  BY <1>29 DEF Ls, Standing, Goes, Refuse, store, boxes
<1>30. ASSUME NEW p \in Procs, LsFails(p) PROVE LockInv'
  BY <1>30 DEF LsFails, Goes, Refuse, store, boxes
<1>31. ASSUME NEW p \in Procs, PruneImage(p) PROVE LockInv'
  BY <1>31 DEF PruneImage, Prunes, NoDir, Goes, Refuse, store, boxes
<1>32. ASSUME NEW p \in Procs, PruneNew(p) PROVE LockInv'
  BY <1>32 DEF PruneNew, NoDir, Goes, Refuse, store, boxes
<1>33. ASSUME NEW p \in Procs, Dies(p) PROVE LockInv'
  BY <1>33 DEF Dies, Dir, Goes, Refuse, store, boxes
<1>34. ASSUME NEW p \in Procs, CommandDies(p) PROVE LockInv'
  BY <1>34 DEF CommandDies, Goes, Refuse, store, boxes
<1>36. ASSUME NEW p \in Procs, Tear(p) PROVE LockInv'
  BY <1>36 DEF Tear, Prunes, Goes, Refuse, store, boxes
<1>37. ASSUME NEW p \in Procs, RemoveFails(p) PROVE LockInv'
  BY <1>37 DEF RemoveFails, Prunes, Goes, Refuse, store, boxes
<1>38. ASSUME NEW p \in Procs, TearNew(p) PROVE LockInv'
  BY <1>38 DEF TearNew, Goes, Refuse, store, boxes
<1>35. CASE UNCHANGED vars
  BY <1>35 DEF vars, store, boxes
<1> QED
  BY <1>1, <1>2, <1>3, <1>4, <1>5, <1>6, <1>7, <1>8, <1>9, <1>10, <1>11, <1>12,
     <1>13, <1>14, <1>15, <1>16, <1>17, <1>18, <1>19, <1>20, <1>21, <1>22, <1>23,
     <1>24, <1>25, <1>26, <1>27, <1>28, <1>29, <1>30, <1>31, <1>32, <1>33, <1>34,
     <1>35, <1>36, <1>37, <1>38 DEF Next, Look, Build, Box, Prune, Remove

(* A command is started under the lock and waited for.                      *)
LEMMA InsideInvStep ==
  ASSUME ImageTypeOK, InsideInv, [Next]_vars
  PROVE  InsideInv'
<1>0. /\ at \in [Procs -> ImageStages]
      /\ mind \in [Procs -> Minds]
      /\ box \in [Procs -> {"none", "half", "up"}]
      /\ holder \in [Procs -> Procs \cup {NoProc}]
      /\ inside \in [Procs -> SUBSET Procs]
      /\ NoProc \notin Procs
  BY ImageAssumption DEF ImageTypeOK, ImageAssumption
<1> USE <1>0 DEF InsideInv, Minds
<1>1. CASE Edit
  BY <1>1 DEF Edit, Goes, Refuse, store, boxes
<1>2. ASSUME NEW p \in Procs, Start(p) PROVE InsideInv'
  BY <1>2 DEF Start, Goes, Refuse, store, boxes
<1>3. ASSUME NEW p \in Procs, BuiltImage(p) PROVE InsideInv'
  BY <1>3 DEF BuiltImage, Serve, Goes, Refuse, store, boxes
<1>4. ASSUME NEW p \in Procs, Digest(p) PROVE InsideInv'
  BY <1>4 DEF Digest, Current, Goes, Refuse, store, boxes
<1>5. ASSUME NEW p \in Procs, HasImage(p) PROVE InsideInv'
  BY <1>5 DEF HasImage, Goes, Refuse, store, boxes
<1>6. ASSUME NEW p \in Procs, Reuse(p) PROVE InsideInv'
  BY <1>6 DEF Reuse, Serve, Goes, Refuse, store, boxes
<1>7. ASSUME NEW p \in Procs, NoBuilder(p) PROVE InsideInv'
  BY <1>7 DEF NoBuilder, Serve, Goes, Refuse, store, boxes
<1>8. ASSUME NEW p \in Procs, DockerBuild(p) PROVE InsideInv'
  BY <1>8 DEF DockerBuild, Current, Goes, Refuse, store, boxes
<1>9. ASSUME NEW p \in Procs, BuildFails(p) PROVE InsideInv'
  BY <1>9 DEF BuildFails, Goes, Refuse, store, boxes
<1>10. ASSUME NEW p \in Procs, Create(p) PROVE InsideInv'
  BY <1>10 DEF Create, Goes, Refuse, store, boxes
<1>11. ASSUME NEW p \in Procs, Stage(p) PROVE InsideInv'
  BY <1>11 DEF Stage, Dir, Goes, Refuse, store, boxes
<1>12. ASSUME NEW p \in Procs, Untar(p) PROVE InsideInv'
  BY <1>12 DEF Untar, Dir, Goes, Refuse, store, boxes
<1>13. ASSUME NEW p \in Procs, WriteMeta(p) PROVE InsideInv'
  BY <1>13 DEF WriteMeta, Goes, Refuse, store, boxes
<1>14. ASSUME NEW p \in Procs, Clear(p) PROVE InsideInv'
  BY <1>14 DEF Clear, NoDir, Goes, Refuse, store, boxes
<1>15. ASSUME NEW p \in Procs, Rename(p) PROVE InsideInv'
  BY <1>15 DEF Rename, NoDir, Goes, Refuse, store, boxes
<1>16. ASSUME NEW p \in Procs, RecordDigest(p) PROVE InsideInv'
  BY <1>16 DEF RecordDigest, Serve, Recorded, Goes, Refuse, store, boxes
<1>17. ASSUME NEW p \in Procs, RecordFails(p) PROVE InsideInv'
  BY <1>17 DEF RecordFails, Serve, Goes, Refuse, store, boxes
<1>18. ASSUME NEW p \in Procs, UpRefused(p) PROVE InsideInv'
  BY <1>18 DEF UpRefused, Goes, Refuse, store, boxes
<1>19. ASSUME NEW p \in Procs, UpRead(p) PROVE InsideInv'
  BY <1>19 DEF UpRead, Goes, Refuse, store, boxes
<1>20. ASSUME NEW p \in Procs, UpMake(p) PROVE InsideInv'
  BY <1>20 DEF UpMake, Goes, Refuse, store, boxes
<1>21. ASSUME NEW p \in Procs, UpFails(p) PROVE InsideInv'
  BY <1>21 DEF UpFails, Goes, Refuse, store, boxes
<1>22. ASSUME NEW p \in Procs, Enter(p) PROVE InsideInv'
  BY <1>22 DEF Enter, Goes, Refuse, store, boxes
<1>23. ASSUME NEW p \in Procs, LockGone(p) PROVE InsideInv'
  BY <1>23 DEF LockGone, Goes, Refuse, store, boxes
<1>24. ASSUME NEW p \in Procs, Lock(p) PROVE InsideInv'
  BY <1>24 DEF Lock, Goes, Refuse, store, boxes
<1>25. ASSUME NEW p \in Procs, Mount(p) PROVE InsideInv'
  <2>1. /\ at[p] = "mount" /\ mind' = mind
        /\ \E to \in {"inside", "refused"} : at' = [at EXCEPT ![p] = to]
    BY <1>25 DEF Mount, Goes, Refuse
  <2>2. CASE inside' = inside
    BY <2>1, <2>2
  <2>3. CASE /\ inside' = [inside EXCEPT ![mind[p].box] = @ \cup {p}]
             /\ at' = [at EXCEPT ![p] = "inside"]
    BY <2>1, <2>3
  <2> QED
    BY <1>25, <2>2, <2>3 DEF Mount, Goes
<1>26. ASSUME NEW p \in Procs, Leave(p) PROVE InsideInv'
  BY <1>26 DEF Leave, Goes, Refuse, store, boxes
<1>27. ASSUME NEW p \in Procs, Down(p) PROVE InsideInv'
  BY <1>27 DEF Down, Goes, Refuse, store, boxes
<1>28. ASSUME NEW p \in Procs, Images(p) PROVE InsideInv'
  BY <1>28 DEF Images, Standing, Goes, Refuse, store, boxes
<1>29. ASSUME NEW p \in Procs, Ls(p) PROVE InsideInv'
  BY <1>29 DEF Ls, Standing, Goes, Refuse, store, boxes
<1>30. ASSUME NEW p \in Procs, LsFails(p) PROVE InsideInv'
  BY <1>30 DEF LsFails, Goes, Refuse, store, boxes
<1>31. ASSUME NEW p \in Procs, PruneImage(p) PROVE InsideInv'
  BY <1>31 DEF PruneImage, Prunes, NoDir, Goes, Refuse, store, boxes
<1>32. ASSUME NEW p \in Procs, PruneNew(p) PROVE InsideInv'
  BY <1>32 DEF PruneNew, NoDir, Goes, Refuse, store, boxes
<1>33. ASSUME NEW p \in Procs, Dies(p) PROVE InsideInv'
  BY <1>33 DEF Dies, Dir, Goes, Refuse, store, boxes
<1>34. ASSUME NEW p \in Procs, CommandDies(p) PROVE InsideInv'
  BY <1>34 DEF CommandDies, Goes, Refuse, store, boxes
<1>36. ASSUME NEW p \in Procs, Tear(p) PROVE InsideInv'
  BY <1>36 DEF Tear, Prunes, Goes, Refuse, store, boxes
<1>37. ASSUME NEW p \in Procs, RemoveFails(p) PROVE InsideInv'
  BY <1>37 DEF RemoveFails, Prunes, Goes, Refuse, store, boxes
<1>38. ASSUME NEW p \in Procs, TearNew(p) PROVE InsideInv'
  BY <1>38 DEF TearNew, Goes, Refuse, store, boxes
<1>35. CASE UNCHANGED vars
  BY <1>35 DEF vars, store, boxes
<1> QED
  BY <1>1, <1>2, <1>3, <1>4, <1>5, <1>6, <1>7, <1>8, <1>9, <1>10, <1>11, <1>12,
     <1>13, <1>14, <1>15, <1>16, <1>17, <1>18, <1>19, <1>20, <1>21, <1>22, <1>23,
     <1>24, <1>25, <1>26, <1>27, <1>28, <1>29, <1>30, <1>31, <1>32, <1>33, <1>34,
     <1>35, <1>36, <1>37, <1>38 DEF Next, Look, Build, Box, Prune, Remove

(* Only a kill ends a process without its knowing.                          *)
LEMMA DeadInvStep ==
  ASSUME ImageTypeOK, DeadInv, [Next]_vars
  PROVE  DeadInv'
<1>0. /\ at \in [Procs -> ImageStages]
      /\ mind \in [Procs -> Minds]
      /\ box \in [Procs -> {"none", "half", "up"}]
      /\ holder \in [Procs -> Procs \cup {NoProc}]
      /\ inside \in [Procs -> SUBSET Procs]
      /\ NoProc \notin Procs
  BY ImageAssumption DEF ImageTypeOK, ImageAssumption
<1> USE <1>0 DEF DeadInv, Minds
<1>1. CASE Edit
  BY <1>1 DEF Edit, Goes, Refuse, store, boxes
<1>2. ASSUME NEW p \in Procs, Start(p) PROVE DeadInv'
  BY <1>2 DEF Start, Goes, Refuse, store, boxes
<1>3. ASSUME NEW p \in Procs, BuiltImage(p) PROVE DeadInv'
  BY <1>3 DEF BuiltImage, Serve, Goes, Refuse, store, boxes
<1>4. ASSUME NEW p \in Procs, Digest(p) PROVE DeadInv'
  BY <1>4 DEF Digest, Current, Goes, Refuse, store, boxes
<1>5. ASSUME NEW p \in Procs, HasImage(p) PROVE DeadInv'
  BY <1>5 DEF HasImage, Goes, Refuse, store, boxes
<1>6. ASSUME NEW p \in Procs, Reuse(p) PROVE DeadInv'
  BY <1>6 DEF Reuse, Serve, Goes, Refuse, store, boxes
<1>7. ASSUME NEW p \in Procs, NoBuilder(p) PROVE DeadInv'
  BY <1>7 DEF NoBuilder, Serve, Goes, Refuse, store, boxes
<1>8. ASSUME NEW p \in Procs, DockerBuild(p) PROVE DeadInv'
  BY <1>8 DEF DockerBuild, Current, Goes, Refuse, store, boxes
<1>9. ASSUME NEW p \in Procs, BuildFails(p) PROVE DeadInv'
  BY <1>9 DEF BuildFails, Goes, Refuse, store, boxes
<1>10. ASSUME NEW p \in Procs, Create(p) PROVE DeadInv'
  BY <1>10 DEF Create, Goes, Refuse, store, boxes
<1>11. ASSUME NEW p \in Procs, Stage(p) PROVE DeadInv'
  BY <1>11 DEF Stage, Dir, Goes, Refuse, store, boxes
<1>12. ASSUME NEW p \in Procs, Untar(p) PROVE DeadInv'
  BY <1>12 DEF Untar, Dir, Goes, Refuse, store, boxes
<1>13. ASSUME NEW p \in Procs, WriteMeta(p) PROVE DeadInv'
  BY <1>13 DEF WriteMeta, Goes, Refuse, store, boxes
<1>14. ASSUME NEW p \in Procs, Clear(p) PROVE DeadInv'
  BY <1>14 DEF Clear, NoDir, Goes, Refuse, store, boxes
<1>15. ASSUME NEW p \in Procs, Rename(p) PROVE DeadInv'
  BY <1>15 DEF Rename, NoDir, Goes, Refuse, store, boxes
<1>16. ASSUME NEW p \in Procs, RecordDigest(p) PROVE DeadInv'
  BY <1>16 DEF RecordDigest, Serve, Recorded, Goes, Refuse, store, boxes
<1>17. ASSUME NEW p \in Procs, RecordFails(p) PROVE DeadInv'
  BY <1>17 DEF RecordFails, Serve, Goes, Refuse, store, boxes
<1>18. ASSUME NEW p \in Procs, UpRefused(p) PROVE DeadInv'
  BY <1>18 DEF UpRefused, Goes, Refuse, store, boxes
<1>19. ASSUME NEW p \in Procs, UpRead(p) PROVE DeadInv'
  BY <1>19 DEF UpRead, Goes, Refuse, store, boxes
<1>20. ASSUME NEW p \in Procs, UpMake(p) PROVE DeadInv'
  BY <1>20 DEF UpMake, Goes, Refuse, store, boxes
<1>21. ASSUME NEW p \in Procs, UpFails(p) PROVE DeadInv'
  BY <1>21 DEF UpFails, Goes, Refuse, store, boxes
<1>22. ASSUME NEW p \in Procs, Enter(p) PROVE DeadInv'
  BY <1>22 DEF Enter, Goes, Refuse, store, boxes
<1>23. ASSUME NEW p \in Procs, LockGone(p) PROVE DeadInv'
  BY <1>23 DEF LockGone, Goes, Refuse, store, boxes
<1>24. ASSUME NEW p \in Procs, Lock(p) PROVE DeadInv'
  BY <1>24 DEF Lock, Goes, Refuse, store, boxes
<1>25. ASSUME NEW p \in Procs, Mount(p) PROVE DeadInv'
  BY <1>25 DEF Mount, Goes, Refuse, store, boxes
<1>26. ASSUME NEW p \in Procs, Leave(p) PROVE DeadInv'
  BY <1>26 DEF Leave, Goes, Refuse, store, boxes
<1>27. ASSUME NEW p \in Procs, Down(p) PROVE DeadInv'
  BY <1>27 DEF Down, Goes, Refuse, store, boxes
<1>28. ASSUME NEW p \in Procs, Images(p) PROVE DeadInv'
  BY <1>28 DEF Images, Standing, Goes, Refuse, store, boxes
<1>29. ASSUME NEW p \in Procs, Ls(p) PROVE DeadInv'
  BY <1>29 DEF Ls, Standing, Goes, Refuse, store, boxes
<1>30. ASSUME NEW p \in Procs, LsFails(p) PROVE DeadInv'
  BY <1>30 DEF LsFails, Goes, Refuse, store, boxes
<1>31. ASSUME NEW p \in Procs, PruneImage(p) PROVE DeadInv'
  BY <1>31 DEF PruneImage, Prunes, NoDir, Goes, Refuse, store, boxes
<1>32. ASSUME NEW p \in Procs, PruneNew(p) PROVE DeadInv'
  BY <1>32 DEF PruneNew, NoDir, Goes, Refuse, store, boxes
<1>33. ASSUME NEW p \in Procs, Dies(p) PROVE DeadInv'
  BY <1>33 DEF Dies, Dir, Goes, Refuse, store, boxes
<1>34. ASSUME NEW p \in Procs, CommandDies(p) PROVE DeadInv'
  BY <1>34 DEF CommandDies, Goes, Refuse, store, boxes
<1>36. ASSUME NEW p \in Procs, Tear(p) PROVE DeadInv'
  BY <1>36 DEF Tear, Prunes, Goes, Refuse, store, boxes
<1>37. ASSUME NEW p \in Procs, RemoveFails(p) PROVE DeadInv'
  BY <1>37 DEF RemoveFails, Prunes, Goes, Refuse, store, boxes
<1>38. ASSUME NEW p \in Procs, TearNew(p) PROVE DeadInv'
  BY <1>38 DEF TearNew, Goes, Refuse, store, boxes
<1>35. CASE UNCHANGED vars
  BY <1>35 DEF vars, store, boxes
<1> QED
  BY <1>1, <1>2, <1>3, <1>4, <1>5, <1>6, <1>7, <1>8, <1>9, <1>10, <1>11, <1>12,
     <1>13, <1>14, <1>15, <1>16, <1>17, <1>18, <1>19, <1>20, <1>21, <1>22, <1>23,
     <1>24, <1>25, <1>26, <1>27, <1>28, <1>29, <1>30, <1>31, <1>32, <1>33, <1>34,
     <1>35, <1>36, <1>37, <1>38 DEF Next, Look, Build, Box, Prune, Remove

(* No process makes its box twice.                                          *)
LEMMA BornInvStep ==
  ASSUME ImageTypeOK, BornInv, [Next]_vars
  PROVE  BornInv'
<1>0. /\ at \in [Procs -> ImageStages]
      /\ mind \in [Procs -> Minds]
      /\ box \in [Procs -> {"none", "half", "up"}]
      /\ holder \in [Procs -> Procs \cup {NoProc}]
      /\ inside \in [Procs -> SUBSET Procs]
      /\ NoProc \notin Procs
  BY ImageAssumption DEF ImageTypeOK, ImageAssumption
<1> USE <1>0 DEF BornInv, Minds
<1>1. CASE Edit
  BY <1>1 DEF Edit, Goes, Refuse, store, boxes, Standing
<1>2. ASSUME NEW p \in Procs, Start(p) PROVE BornInv'
  BY <1>2 DEF Start, Goes, Refuse, store, boxes, Standing
<1>3. ASSUME NEW p \in Procs, BuiltImage(p) PROVE BornInv'
  BY <1>3 DEF BuiltImage, Serve, Goes, Refuse, store, boxes, Standing
<1>4. ASSUME NEW p \in Procs, Digest(p) PROVE BornInv'
  BY <1>4 DEF Digest, Current, Goes, Refuse, store, boxes, Standing
<1>5. ASSUME NEW p \in Procs, HasImage(p) PROVE BornInv'
  <2>1. box' = box /\ \A q \in Procs : mind'[q].began = mind[q].began
    <3>1. CASE image.there
      BY <1>5, <3>1 DEF HasImage, Goes, Refuse, store, boxes, Standing
    <3>2. CASE ~image.there
      <4>1. box' = box /\ mind' = [mind EXCEPT ![p].stale = "missing"]
        BY <1>5, <3>2 DEF HasImage, boxes
      <4> QED
        BY <4>1
    <3> QED
      BY <3>1, <3>2
  <2>2. at[p] = "has"
    BY <1>5 DEF HasImage
  <2>3. \A q \in Procs : q # p => at'[q] = at[q]
    BY <1>5 DEF HasImage, Goes, Refuse, store, boxes, Standing
  <2> QED
    BY <2>1, <2>2, <2>3
<1>6. ASSUME NEW p \in Procs, Reuse(p) PROVE BornInv'
  <2>1. box' = box /\ \A q \in Procs : mind'[q].began = mind[q].began
    BY <1>6 DEF Reuse, Serve, Goes, Refuse, store, boxes, Standing
  <2>2. at[p] = "reuse"
    BY <1>6 DEF Reuse
  <2>3. \A q \in Procs : q # p => at'[q] = at[q]
    BY <1>6 DEF Reuse, Serve, Goes, Refuse, store, boxes, Standing
  <2> QED
    BY <2>1, <2>2, <2>3
<1>7. ASSUME NEW p \in Procs, NoBuilder(p) PROVE BornInv'
  BY <1>7 DEF NoBuilder, Serve, Goes, Refuse, store, boxes, Standing
<1>8. ASSUME NEW p \in Procs, DockerBuild(p) PROVE BornInv'
  BY <1>8 DEF DockerBuild, Current, Goes, Refuse, store, boxes, Standing
<1>9. ASSUME NEW p \in Procs, BuildFails(p) PROVE BornInv'
  BY <1>9 DEF BuildFails, Goes, Refuse, store, boxes, Standing
<1>10. ASSUME NEW p \in Procs, Create(p) PROVE BornInv'
  BY <1>10 DEF Create, Goes, Refuse, store, boxes, Standing
<1>11. ASSUME NEW p \in Procs, Stage(p) PROVE BornInv'
  BY <1>11 DEF Stage, Dir, Goes, Refuse, store, boxes, Standing
<1>12. ASSUME NEW p \in Procs, Untar(p) PROVE BornInv'
  BY <1>12 DEF Untar, Dir, Goes, Refuse, store, boxes, Standing
<1>13. ASSUME NEW p \in Procs, WriteMeta(p) PROVE BornInv'
  BY <1>13 DEF WriteMeta, Goes, Refuse, store, boxes, Standing
<1>14. ASSUME NEW p \in Procs, Clear(p) PROVE BornInv'
  BY <1>14 DEF Clear, NoDir, Goes, Refuse, store, boxes, Standing
<1>15. ASSUME NEW p \in Procs, Rename(p) PROVE BornInv'
  BY <1>15 DEF Rename, NoDir, Goes, Refuse, store, boxes, Standing
<1>16. ASSUME NEW p \in Procs, RecordDigest(p) PROVE BornInv'
  BY <1>16 DEF RecordDigest, Serve, Recorded, Goes, Refuse, store, boxes, Standing
<1>17. ASSUME NEW p \in Procs, RecordFails(p) PROVE BornInv'
  BY <1>17 DEF RecordFails, Serve, Goes, Refuse, store, boxes, Standing
<1>18. ASSUME NEW p \in Procs, UpRefused(p) PROVE BornInv'
  BY <1>18 DEF UpRefused, Goes, Refuse, store, boxes, Standing
<1>19. ASSUME NEW p \in Procs, UpRead(p) PROVE BornInv'
  BY <1>19 DEF UpRead, Goes, Refuse, store, boxes, Standing
<1>20. ASSUME NEW p \in Procs, UpMake(p) PROVE BornInv'
  BY <1>20 DEF UpMake, Goes, Refuse, store, boxes, Standing
<1>21. ASSUME NEW p \in Procs, UpFails(p) PROVE BornInv'
  BY <1>21 DEF UpFails, Goes, Refuse, store, boxes, Standing
<1>22. ASSUME NEW p \in Procs, Enter(p) PROVE BornInv'
  BY <1>22, ZenonT(40) DEF Enter, Goes, Refuse, store, boxes, Standing
<1>23. ASSUME NEW p \in Procs, LockGone(p) PROVE BornInv'
  BY <1>23 DEF LockGone, Goes, Refuse, store, boxes, Standing
<1>24. ASSUME NEW p \in Procs, Lock(p) PROVE BornInv'
  BY <1>24 DEF Lock, Goes, Refuse, store, boxes, Standing
<1>25. ASSUME NEW p \in Procs, Mount(p) PROVE BornInv'
  <2>1. box' = box /\ mind' = mind
    BY <1>25 DEF Mount, Goes, Refuse, store, boxes, Standing
  <2>2. at'[p] \in {"inside", "refused"}
    BY <1>25 DEF Mount, Goes, Refuse, store, boxes, Standing
  <2>3. \A q \in Procs : q # p => at'[q] = at[q]
    BY <1>25 DEF Mount, Goes, Refuse, store, boxes, Standing
  <2> QED
    BY <2>1, <2>2, <2>3
<1>26. ASSUME NEW p \in Procs, Leave(p) PROVE BornInv'
  BY <1>26 DEF Leave, Goes, Refuse, store, boxes, Standing
<1>27. ASSUME NEW p \in Procs, Down(p) PROVE BornInv'
  BY <1>27 DEF Down, Goes, Refuse, store, boxes, Standing
<1>28. ASSUME NEW p \in Procs, Images(p) PROVE BornInv'
  BY <1>28 DEF Images, Standing, Goes, Refuse, store, boxes
<1>29. ASSUME NEW p \in Procs, Ls(p) PROVE BornInv'
  BY <1>29 DEF Ls, Standing, Goes, Refuse, store, boxes
<1>30. ASSUME NEW p \in Procs, LsFails(p) PROVE BornInv'
  BY <1>30 DEF LsFails, Goes, Refuse, store, boxes, Standing
<1>31. ASSUME NEW p \in Procs, PruneImage(p) PROVE BornInv'
  BY <1>31 DEF PruneImage, Prunes, NoDir, Goes, Refuse, store, boxes, Standing
<1>32. ASSUME NEW p \in Procs, PruneNew(p) PROVE BornInv'
  BY <1>32 DEF PruneNew, NoDir, Goes, Refuse, store, boxes, Standing
<1>33. ASSUME NEW p \in Procs, Dies(p) PROVE BornInv'
  BY <1>33 DEF Dies, Dir, Goes, Refuse, store, boxes, Standing
<1>34. ASSUME NEW p \in Procs, CommandDies(p) PROVE BornInv'
  BY <1>34 DEF CommandDies, Goes, Refuse, store, boxes, Standing
<1>36. ASSUME NEW p \in Procs, Tear(p) PROVE BornInv'
  BY <1>36 DEF Tear, Prunes, Goes, Refuse, store, boxes, Standing
<1>37. ASSUME NEW p \in Procs, RemoveFails(p) PROVE BornInv'
  BY <1>37 DEF RemoveFails, Prunes, Goes, Refuse, store, boxes, Standing
<1>38. ASSUME NEW p \in Procs, TearNew(p) PROVE BornInv'
  BY <1>38 DEF TearNew, Goes, Refuse, store, boxes, Standing
<1>35. CASE UNCHANGED vars
  BY <1>35 DEF vars, store, boxes
<1> QED
  BY <1>1, <1>2, <1>3, <1>4, <1>5, <1>6, <1>7, <1>8, <1>9, <1>10, <1>11, <1>12,
     <1>13, <1>14, <1>15, <1>16, <1>17, <1>18, <1>19, <1>20, <1>21, <1>22, <1>23,
     <1>24, <1>25, <1>26, <1>27, <1>28, <1>29, <1>30, <1>31, <1>32, <1>33, <1>34,
     <1>35, <1>36, <1>37, <1>38 DEF Next, Look, Build, Box, Prune, Remove

(* No box comes to stand that stood when the prune began.                   *)
LEMMA ListedInvStep ==
  ASSUME ImageTypeOK, BornInv, ListedInv, [Next]_vars
  PROVE  ListedInv'
<1>0. /\ at \in [Procs -> ImageStages]
      /\ mind \in [Procs -> Minds]
      /\ box \in [Procs -> {"none", "half", "up"}]
      /\ holder \in [Procs -> Procs \cup {NoProc}]
      /\ inside \in [Procs -> SUBSET Procs]
      /\ NoProc \notin Procs
  BY ImageAssumption DEF ImageTypeOK, ImageAssumption
<1> USE <1>0 DEF ListedInv, BornInv, Minds, Standing
<1>1. CASE Edit
  BY <1>1 DEF Edit, Goes, Refuse, store, boxes
<1>2. ASSUME NEW p \in Procs, Start(p) PROVE ListedInv'
  BY <1>2 DEF Start, Goes, Refuse, store, boxes
<1>3. ASSUME NEW p \in Procs, BuiltImage(p) PROVE ListedInv'
  BY <1>3 DEF BuiltImage, Serve, Goes, Refuse, store, boxes
<1>4. ASSUME NEW p \in Procs, Digest(p) PROVE ListedInv'
  BY <1>4 DEF Digest, Current, Goes, Refuse, store, boxes
<1>5. ASSUME NEW p \in Procs, HasImage(p) PROVE ListedInv'
  BY <1>5 DEF HasImage, Goes, Refuse, store, boxes
<1>6. ASSUME NEW p \in Procs, Reuse(p) PROVE ListedInv'
  BY <1>6 DEF Reuse, Serve, Goes, Refuse, store, boxes
<1>7. ASSUME NEW p \in Procs, NoBuilder(p) PROVE ListedInv'
  BY <1>7 DEF NoBuilder, Serve, Goes, Refuse, store, boxes
<1>8. ASSUME NEW p \in Procs, DockerBuild(p) PROVE ListedInv'
  BY <1>8 DEF DockerBuild, Current, Goes, Refuse, store, boxes
<1>9. ASSUME NEW p \in Procs, BuildFails(p) PROVE ListedInv'
  BY <1>9 DEF BuildFails, Goes, Refuse, store, boxes
<1>10. ASSUME NEW p \in Procs, Create(p) PROVE ListedInv'
  BY <1>10 DEF Create, Goes, Refuse, store, boxes
<1>11. ASSUME NEW p \in Procs, Stage(p) PROVE ListedInv'
  BY <1>11 DEF Stage, Dir, Goes, Refuse, store, boxes
<1>12. ASSUME NEW p \in Procs, Untar(p) PROVE ListedInv'
  BY <1>12, SMTT(30) DEF Untar, Dir, Goes, Refuse, store, boxes
<1>13. ASSUME NEW p \in Procs, WriteMeta(p) PROVE ListedInv'
  BY <1>13 DEF WriteMeta, Goes, Refuse, store, boxes
<1>14. ASSUME NEW p \in Procs, Clear(p) PROVE ListedInv'
  BY <1>14 DEF Clear, NoDir, Goes, Refuse, store, boxes
<1>15. ASSUME NEW p \in Procs, Rename(p) PROVE ListedInv'
  BY <1>15, SMTT(30) DEF Rename, NoDir, Goes, Refuse, store, boxes
<1>16. ASSUME NEW p \in Procs, RecordDigest(p) PROVE ListedInv'
  BY <1>16 DEF RecordDigest, Serve, Recorded, Goes, Refuse, store, boxes
<1>17. ASSUME NEW p \in Procs, RecordFails(p) PROVE ListedInv'
  BY <1>17 DEF RecordFails, Serve, Goes, Refuse, store, boxes
<1>18. ASSUME NEW p \in Procs, UpRefused(p) PROVE ListedInv'
  BY <1>18 DEF UpRefused, Goes, Refuse, store, boxes
<1>19. ASSUME NEW p \in Procs, UpRead(p) PROVE ListedInv'
  BY <1>19 DEF UpRead, Goes, Refuse, store, boxes
<1>20. ASSUME NEW p \in Procs, UpMake(p) PROVE ListedInv'
  BY <1>20 DEF UpMake, Goes, Refuse, store, boxes
<1>21. ASSUME NEW p \in Procs, UpFails(p) PROVE ListedInv'
  BY <1>21 DEF UpFails, Goes, Refuse, store, boxes
<1>22. ASSUME NEW p \in Procs, Enter(p) PROVE ListedInv'
  BY <1>22 DEF Enter, Goes, Refuse, store, boxes
<1>23. ASSUME NEW p \in Procs, LockGone(p) PROVE ListedInv'
  BY <1>23 DEF LockGone, Goes, Refuse, store, boxes
<1>24. ASSUME NEW p \in Procs, Lock(p) PROVE ListedInv'
  BY <1>24 DEF Lock, Goes, Refuse, store, boxes
<1>25. ASSUME NEW p \in Procs, Mount(p) PROVE ListedInv'
  BY <1>25, SMTT(30) DEF Mount, Goes, Refuse, store, boxes
<1>26. ASSUME NEW p \in Procs, Leave(p) PROVE ListedInv'
  BY <1>26 DEF Leave, Goes, Refuse, store, boxes
<1>27. ASSUME NEW p \in Procs, Down(p) PROVE ListedInv'
  BY <1>27 DEF Down, Goes, Refuse, store, boxes
<1>28. ASSUME NEW p \in Procs, Images(p) PROVE ListedInv'
  BY <1>28 DEF Images, Standing, Goes, Refuse, store, boxes
<1>29. ASSUME NEW p \in Procs, Ls(p) PROVE ListedInv'
  BY <1>29 DEF Ls, Standing, Goes, Refuse, store, boxes
<1>30. ASSUME NEW p \in Procs, LsFails(p) PROVE ListedInv'
  BY <1>30 DEF LsFails, Goes, Refuse, store, boxes
<1>31. ASSUME NEW p \in Procs, PruneImage(p) PROVE ListedInv'
  BY <1>31 DEF PruneImage, Prunes, NoDir, Goes, Refuse, store, boxes
<1>32. ASSUME NEW p \in Procs, PruneNew(p) PROVE ListedInv'
  BY <1>32 DEF PruneNew, NoDir, Goes, Refuse, store, boxes
<1>33. ASSUME NEW p \in Procs, Dies(p) PROVE ListedInv'
  BY <1>33 DEF Dies, Dir, Goes, Refuse, store, boxes
<1>34. ASSUME NEW p \in Procs, CommandDies(p) PROVE ListedInv'
  BY <1>34 DEF CommandDies, Goes, Refuse, store, boxes
<1>36. ASSUME NEW p \in Procs, Tear(p) PROVE ListedInv'
  BY <1>36, SMTT(30) DEF Tear, Prunes, Goes, Refuse, store, boxes
<1>37. ASSUME NEW p \in Procs, RemoveFails(p) PROVE ListedInv'
  BY <1>37, SMTT(30) DEF RemoveFails, Prunes, Goes, Refuse, store, boxes
<1>38. ASSUME NEW p \in Procs, TearNew(p) PROVE ListedInv'
  BY <1>38 DEF TearNew, Goes, Refuse, store, boxes
<1>35. CASE UNCHANGED vars
  BY <1>35 DEF vars, store, boxes
<1> QED
  BY <1>1, <1>2, <1>3, <1>4, <1>5, <1>6, <1>7, <1>8, <1>9, <1>10, <1>11, <1>12,
     <1>13, <1>14, <1>15, <1>16, <1>17, <1>18, <1>19, <1>20, <1>21, <1>22, <1>23,
     <1>24, <1>25, <1>26, <1>27, <1>28, <1>29, <1>30, <1>31, <1>32, <1>33, <1>34,
     <1>35, <1>36, <1>37, <1>38 DEF Next, Look, Build, Box, Prune, Remove

(* Where nothing can be built, nothing is recorded.                         *)
LEMMA KnownInvStep ==
  ASSUME ImageTypeOK, KnownInv, [Next]_vars
  PROVE  KnownInv'
<1> USE ImageAssumption DEF KnownInv, Prunes, ImageTypeOK, ImageAssumption, Minds,
   BuildStages, ImageStages
<1>1. CASE Edit
  BY <1>1 DEF Edit, Goes, Refuse, store, boxes
<1>2. ASSUME NEW p \in Procs, Start(p) PROVE KnownInv'
  BY <1>2 DEF Start, Goes, Refuse, store, boxes
<1>3. ASSUME NEW p \in Procs, BuiltImage(p) PROVE KnownInv'
  BY <1>3 DEF BuiltImage, Serve, Goes, Refuse, store, boxes
<1>4. ASSUME NEW p \in Procs, Digest(p) PROVE KnownInv'
  BY <1>4 DEF Digest, Current, Goes, Refuse, store, boxes
<1>5. ASSUME NEW p \in Procs, HasImage(p) PROVE KnownInv'
  <2>1. CASE image.there
    BY <1>5, <2>1 DEF HasImage, Goes, store
  <2>2. CASE ~image.there
    <3>1. /\ mind' = [mind EXCEPT ![p].stale = "missing"] /\ at' = [at EXCEPT ![p] = "docker"]
          /\ at[p] = "has" /\ UNCHANGED <<form, builder, record>>
      BY <1>5, <2>2 DEF HasImage, Goes, store
    <3>2. ASSUME NEW q \in Procs
          PROVE  /\ mind'[q].own = mind[q].own /\ mind'[q].digest = mind[q].digest
                 /\ mind'[q].sees = mind[q].sees /\ mind'[q].live = mind[q].live
                 /\ mind'[q].stale \in {mind[q].stale, "missing"}
                 /\ at'[q] = at[q] \/ (at'[q] = "docker" /\ at[q] = "has")
      BY <3>1
    <3> QED
      BY <3>1, <3>2
  <2> QED
    BY <2>1, <2>2
<1>6. ASSUME NEW p \in Procs, Reuse(p) PROVE KnownInv'
  BY <1>6 DEF Reuse, Serve, Goes, Refuse, store, boxes
<1>7. ASSUME NEW p \in Procs, NoBuilder(p) PROVE KnownInv'
  BY <1>7 DEF NoBuilder, Serve, Goes, Refuse, store, boxes
<1>8. ASSUME NEW p \in Procs, DockerBuild(p) PROVE KnownInv'
  BY <1>8 DEF DockerBuild, Current, Goes, Refuse, store, boxes
<1>9. ASSUME NEW p \in Procs, BuildFails(p) PROVE KnownInv'
  BY <1>9 DEF BuildFails, Goes, Refuse, store, boxes
<1>10. ASSUME NEW p \in Procs, Create(p) PROVE KnownInv'
  BY <1>10 DEF Create, Goes, Refuse, store, boxes
<1>11. ASSUME NEW p \in Procs, Stage(p) PROVE KnownInv'
  BY <1>11 DEF Stage, Dir, Goes, Refuse, store, boxes
<1>12. ASSUME NEW p \in Procs, Untar(p) PROVE KnownInv'
  BY <1>12 DEF Untar, Dir, Goes, Refuse, store, boxes
<1>13. ASSUME NEW p \in Procs, WriteMeta(p) PROVE KnownInv'
  BY <1>13 DEF WriteMeta, Goes, Refuse, store, boxes
<1>14. ASSUME NEW p \in Procs, Clear(p) PROVE KnownInv'
  BY <1>14 DEF Clear, NoDir, Goes, Refuse, store, boxes
<1>15. ASSUME NEW p \in Procs, Rename(p) PROVE KnownInv'
  BY <1>15 DEF Rename, NoDir, Goes, Refuse, store, boxes
<1>16. ASSUME NEW p \in Procs, RecordDigest(p) PROVE KnownInv'
  BY <1>16 DEF RecordDigest, Serve, Recorded, Goes, Refuse, store, boxes
<1>17. ASSUME NEW p \in Procs, RecordFails(p) PROVE KnownInv'
  BY <1>17 DEF RecordFails, Serve, Goes, Refuse, store, boxes
<1>18. ASSUME NEW p \in Procs, UpRefused(p) PROVE KnownInv'
  BY <1>18 DEF UpRefused, Goes, Refuse, store, boxes
<1>19. ASSUME NEW p \in Procs, UpRead(p) PROVE KnownInv'
  BY <1>19 DEF UpRead, Goes, Refuse, store, boxes
<1>20. ASSUME NEW p \in Procs, UpMake(p) PROVE KnownInv'
  BY <1>20 DEF UpMake, Goes, Refuse, store, boxes
<1>21. ASSUME NEW p \in Procs, UpFails(p) PROVE KnownInv'
  BY <1>21 DEF UpFails, Goes, Refuse, store, boxes
<1>22. ASSUME NEW p \in Procs, Enter(p) PROVE KnownInv'
  BY <1>22 DEF Enter, Goes, Refuse, store, boxes
<1>23. ASSUME NEW p \in Procs, LockGone(p) PROVE KnownInv'
  BY <1>23 DEF LockGone, Goes, Refuse, store, boxes
<1>24. ASSUME NEW p \in Procs, Lock(p) PROVE KnownInv'
  BY <1>24 DEF Lock, Goes, Refuse, store, boxes
<1>25. ASSUME NEW p \in Procs, Mount(p) PROVE KnownInv'
  BY <1>25 DEF Mount, Goes, Refuse, store, boxes
<1>26. ASSUME NEW p \in Procs, Leave(p) PROVE KnownInv'
  BY <1>26 DEF Leave, Goes, Refuse, store, boxes
<1>27. ASSUME NEW p \in Procs, Down(p) PROVE KnownInv'
  BY <1>27 DEF Down, Goes, Refuse, store, boxes
<1>28. ASSUME NEW p \in Procs, Images(p) PROVE KnownInv'
  BY <1>28 DEF Images, Standing, Goes, Refuse, store, boxes
<1>29. ASSUME NEW p \in Procs, Ls(p) PROVE KnownInv'
  BY <1>29 DEF Ls, Standing, Goes, Refuse, store, boxes
<1>30. ASSUME NEW p \in Procs, LsFails(p) PROVE KnownInv'
  BY <1>30 DEF LsFails, Goes, Refuse, store, boxes
<1>31. ASSUME NEW p \in Procs, PruneImage(p) PROVE KnownInv'
  BY <1>31 DEF PruneImage, Prunes, NoDir, Goes, Refuse, store, boxes
<1>32. ASSUME NEW p \in Procs, PruneNew(p) PROVE KnownInv'
  BY <1>32 DEF PruneNew, NoDir, Goes, Refuse, store, boxes
<1>33. ASSUME NEW p \in Procs, Dies(p) PROVE KnownInv'
  BY <1>33 DEF Dies, Dir, Goes, Refuse, store, boxes
<1>34. ASSUME NEW p \in Procs, CommandDies(p) PROVE KnownInv'
  BY <1>34 DEF CommandDies, Goes, Refuse, store, boxes
<1>36. ASSUME NEW p \in Procs, Tear(p) PROVE KnownInv'
  BY <1>36 DEF Tear, Prunes, Goes, Refuse, store, boxes
<1>37. ASSUME NEW p \in Procs, RemoveFails(p) PROVE KnownInv'
  BY <1>37 DEF RemoveFails, Prunes, Goes, Refuse, store, boxes
<1>38. ASSUME NEW p \in Procs, TearNew(p) PROVE KnownInv'
  BY <1>38 DEF TearNew, Goes, Refuse, store, boxes
<1>35. CASE UNCHANGED vars
  BY <1>35 DEF vars, store, boxes
<1> QED
  BY <1>1, <1>2, <1>3, <1>4, <1>5, <1>6, <1>7, <1>8, <1>9, <1>10, <1>11, <1>12,
     <1>13, <1>14, <1>15, <1>16, <1>17, <1>18, <1>19, <1>20, <1>21, <1>22, <1>23,
     <1>24, <1>25, <1>26, <1>27, <1>28, <1>29, <1>30, <1>31, <1>32, <1>33, <1>34,
     <1>35, <1>36, <1>37, <1>38 DEF Next, Look, Build, Box, Prune, Remove

(* What went wrong is not forgotten.                                          *)
LEMMA LapsesGrow == [Next]_vars => lapses \subseteq lapses'
BY ZenonT(40) DEF Next, vars, store, boxes, Edit, Look, Build, Box, Prune, Remove, Dies, CommandDies,
       Start, BuiltImage, Digest, HasImage, Reuse, NoBuilder, DockerBuild,
          BuildFails, Create, Stage, Untar, WriteMeta, Clear, Rename,
          RecordDigest, RecordFails, UpRefused, UpRead, UpMake, UpFails, Enter,
          LockGone, Lock, Mount, Leave, Down, Images, Ls, LsFails, PruneImage,
          TearNew, PruneNew, Tear, RemoveFails

(* Whoever neither builds nor touches what is built leaves a build as it was.   *)
LEMMA BuildUntouched ==
  ASSUME ImageTypeOK, Sound,
         UNCHANGED <<form, source, tag, new, image, record>>,
         \A p \in Procs : \/ at'[p] = at[p]
                          \/ /\ at[p] \notin BuildStages \cup {"pruning"}
                             /\ at'[p] \notin BuildStages \cup {"pruning"},
         \A p \in Procs : at[p] \in BuildStages =>
            mind'[p].own = mind[p].own /\ mind'[p].cid = mind[p].cid
  PROVE  Sound'
<1>1. \A p \in Procs : at[p] \in BuildStages => Current(p)' = Current(p)
  BY DEF Current
<1>2. Building' = Building /\ Removing' = Removing
  BY DEF Building, Removing, BuildStages
<1>3. \A p \in Procs : at[p] \notin BuildStages => Builds(p)'
  BY DEF Builds, BuildStages
<1>4. ASSUME NEW p \in Procs, at[p] \in BuildStages PROVE Builds(p)'
  BY <1>1, <1>2, <1>4 DEF Sound, Builds
<1>5. (\A p \in Procs : at'[p] # "record") => (\A p \in Procs : at[p] # "record")
  BY DEF BuildStages
<1>6. Whole(image)' = Whole(image)
  BY DEF Whole
<1> QED
  BY <1>2, <1>3, <1>4, <1>5, <1>6 DEF Sound

(* A step of the one build has only that build to answer for.                 *)
LEMMA OwnBuild ==
  ASSUME ImageTypeOK, Sound,
         NEW p \in Procs, at[p] \in BuildStages, NEW to, at' = [at EXCEPT ![p] = to],
         Builds(p)',
         image'.there /\ Removing' = {} => Whole(image)',
         image'.there /\ Removing' = {} /\ to # "record" =>
            image'.of = {IF record' = NoVersion THEN Staged ELSE record'}
  PROVE  Sound'
<1>1. \A q \in Procs : q # p => at'[q] = at[q] /\ at[q] \notin BuildStages
  BY DEF ImageTypeOK, Sound, Building, BuildStages
<1>2. \A q \in Procs : q # p => Builds(q)'
  BY <1>1 DEF Builds, BuildStages
<1>3. Building' \subseteq {p}
  BY <1>1 DEF Building, BuildStages
<1>4. (\A q \in Procs : at'[q] # "record") => to # "record"
  BY DEF ImageTypeOK
<1> QED
  BY <1>2, <1>3, <1>4 DEF Sound

LEMMA OwnBuildAside ==
  ASSUME ImageTypeOK, Sound,
         NEW p \in Procs, at[p] \in BuildStages \ {"clearing", "record"},
         NEW to, at' = [at EXCEPT ![p] = to],
         Builds(p)', UNCHANGED <<image, record>>
  PROVE  Sound'
<1>1. \A q \in Procs : at[q] # "record"
  BY DEF ImageTypeOK, Sound, Building, BuildStages
<1>2. \A q \in Removing : q \in Removing'
  BY DEF ImageTypeOK, Removing, BuildStages
<1> QED
  BY <1>1, <1>2, OwnBuild DEF Sound, Whole

(* One build at a time, of one version, from the tag to the record.         *)
LEMMA SoundStep ==
  ASSUME ImageTypeOK, KnownInv, Sound, lapses = {}, lapses' = {}, [Next]_vars
  PROVE  Sound'
<1> USE ImageAssumption DEF ImageTypeOK, ImageAssumption, BuildStages, ImageStages
<1>1. CASE Edit
  <2>1. \A q \in Procs : at[q] \notin BuildStages
    BY <1>1 DEF Edit, Goes, Refuse, store, boxes, Building
  <2> QED
    BY <1>1, <2>1 DEF Edit, Goes, Refuse, store, boxes, Sound, Builds, Building, Removing, Whole
<1>2. ASSUME NEW p \in Procs, Start(p) PROVE Sound'
  <2>1. \A q \in Procs : at[q] \in BuildStages =>
          mind'[q].own = mind[q].own /\ mind'[q].cid = mind[q].cid
    BY <1>2 DEF Start, Goes, Refuse, store, boxes
  <2> QED
    BY <1>2, <2>1, BuildUntouched DEF Start, Goes, Refuse, store, boxes
<1>3. ASSUME NEW p \in Procs, BuiltImage(p) PROVE Sound'
  BY <1>3, BuildUntouched DEF BuiltImage, Serve, Goes, Refuse, store, boxes
<1>4. ASSUME NEW p \in Procs, Digest(p) PROVE Sound'
  <2>1. \A q \in Procs : at[q] \in BuildStages =>
          mind'[q].own = mind[q].own /\ mind'[q].cid = mind[q].cid
    BY <1>4 DEF Digest, Goes, Refuse, store, boxes
  <2> QED
    BY <1>4, <2>1, BuildUntouched DEF Digest, Goes, Refuse, store, boxes
<1>5. ASSUME NEW p \in Procs, HasImage(p) PROVE Sound'
  <2>1. \A q \in Procs : at[q] \in BuildStages =>
          mind'[q].own = mind[q].own /\ mind'[q].cid = mind[q].cid
    BY <1>5 DEF HasImage, Goes, Refuse, store, boxes
  <2> QED
    BY <1>5, <2>1, BuildUntouched DEF HasImage, Goes, Refuse, store, boxes
<1>6. ASSUME NEW p \in Procs, Reuse(p) PROVE Sound'
  <2>1. \A q \in Procs : at[q] \in BuildStages =>
          mind'[q].own = mind[q].own /\ mind'[q].cid = mind[q].cid
    BY <1>6 DEF Reuse, Serve, Goes, Refuse, store, boxes
  <2> QED
    BY <1>6, <2>1, BuildUntouched DEF Reuse, Serve, Goes, Refuse, store, boxes
<1>7. ASSUME NEW p \in Procs, NoBuilder(p) PROVE Sound'
  BY <1>7, BuildUntouched DEF NoBuilder, Serve, Goes, Refuse, store, boxes
<1>8. ASSUME NEW p \in Procs, DockerBuild(p) PROVE Sound'
  <2>1. \A q \in Procs : at[q] \notin BuildStages
    BY <1>8 DEF DockerBuild, Goes, Refuse, store, boxes, Building
  <2>2. Current(p)' = Current(p)
    BY <1>8 DEF Current, DockerBuild, Goes, Refuse, store, boxes
  <2>3. \A q \in Procs : q # p => at'[q] \notin BuildStages
    BY <1>8, <2>1 DEF DockerBuild, Goes, Refuse, store, boxes
  <2>4. at'[p] = "create" /\ tag' = Current(p)
    BY <1>8 DEF DockerBuild, Goes, Refuse, store, boxes
  <2>5. \A q \in Procs : Builds(q)'
    BY <2>2, <2>3, <2>4 DEF Builds
  <2>6. Building' = {p}
    BY <2>3, <2>4 DEF Building
  <2>7. image' = image /\ record' = record
    BY <1>8 DEF DockerBuild, Goes, Refuse, store, boxes
  <2>8. Removing' = Removing
    BY <1>8, <2>4 DEF DockerBuild, Goes, Removing
  <2> QED
    BY <2>1, <2>5, <2>6, <2>7, <2>8 DEF Sound, Whole
<1>9. ASSUME NEW p \in Procs, BuildFails(p) PROVE Sound'
  BY <1>9, BuildUntouched DEF BuildFails, Goes, Refuse, store, boxes
<1>10. ASSUME NEW p \in Procs, Create(p) PROVE Sound'
  <2>1. Current(p)' = Current(p)
    BY <1>10 DEF Create, Goes, Refuse, store, boxes, Current
  <2>2. Builds(p)
    BY DEF Sound
  <2>3. at'[p] = "stage" /\ mind'[p].cid = Current(p)
    BY <1>10, <2>2 DEF Create, Goes, Refuse, store, boxes, Builds
  <2>4. Builds(p)'
    BY <2>1, <2>3 DEF Builds
  <2> QED
    BY <1>10, <2>4, OwnBuildAside DEF Create, Goes, Refuse, store, boxes
<1>11. ASSUME NEW p \in Procs, Stage(p) PROVE Sound'
  <2>1. Current(p)' = Current(p)
    BY <1>11 DEF Stage, Dir, Goes, Refuse, store, boxes, Current
  <2>2. Builds(p)
    BY DEF Sound
  <2>3. at'[p] = "untar" /\ mind'[p].cid = Current(p) /\ new' = Dir({}, FALSE)
    BY <1>11, <2>2 DEF Stage, Dir, Goes, Refuse, store, boxes, Builds
  <2>4. Builds(p)'
    BY <2>1, <2>3 DEF Builds
  <2> QED
    BY <1>11, <2>4, OwnBuildAside DEF Stage, Dir, Goes, Refuse, store, boxes
<1>12. ASSUME NEW p \in Procs, Untar(p) PROVE Sound'
  <2>1. Current(p)' = Current(p)
    BY <1>12 DEF Untar, Dir, Goes, Refuse, store, boxes, Current
  <2>2. Builds(p)
    BY DEF Sound
  <2>3. at'[p] = "meta" /\ mind'[p].cid = Current(p) /\ new' = Dir({Current(p)}, FALSE)
    BY <1>12, <2>2 DEF Untar, Dir, Goes, Refuse, store, boxes, Builds
  <2>4. Builds(p)'
    BY <2>1, <2>3 DEF Builds
  <2> QED
    BY <1>12, <2>4, OwnBuildAside DEF Untar, Dir, Goes, Refuse, store, boxes
<1>13. ASSUME NEW p \in Procs, WriteMeta(p) PROVE Sound'
  <2>1. Current(p)' = Current(p)
    BY <1>13 DEF WriteMeta, Goes, Refuse, store, boxes, Current
  <2>2. Builds(p)
    BY DEF Sound
  <2>3. at'[p] = "clear" /\ mind'[p].cid = Current(p) /\ new' = Dir({Current(p)}, TRUE)
    BY <1>13, <2>2 DEF WriteMeta, Goes, Refuse, store, boxes, Builds, Dir
  <2>4. Builds(p)'
    BY <2>1, <2>3 DEF Builds
  <2> QED
    BY <1>13, <2>4, OwnBuildAside DEF WriteMeta, Goes, Refuse, store, boxes
<1>14. ASSUME NEW p \in Procs, Clear(p) PROVE Sound'
  <2>1. Current(p)' = Current(p)
    BY <1>14 DEF Clear, NoDir, Goes, Refuse, store, boxes, Current
  <2>2. Builds(p)
    BY DEF Sound
  <2>3. /\ at[p] \in {"clear", "clearing"} /\ at' = [at EXCEPT ![p] = "rename"] /\ ~image'.there
        /\ mind'[p].cid = Current(p) /\ new' = Dir({Current(p)}, TRUE)
    BY <1>14, <2>2 DEF Clear, NoDir, Goes, Refuse, store, boxes, Builds
  <2>4. Builds(p)'
    BY <2>1, <2>3 DEF Builds, Dir
  <2>5. image'.there => Whole(image)'
    BY <2>3
  <2> QED
    BY <1>14, <2>3, <2>4, <2>5, OwnBuild DEF Goes
<1>15. ASSUME NEW p \in Procs, Rename(p) PROVE Sound'
  <2>1. Current(p)' = Current(p)
    BY <1>15 DEF Rename, NoDir, Goes, Refuse, store, boxes, Current
  <2>2. Builds(p)
    BY DEF Sound
  <2>3. /\ at[p] = "rename" /\ at' = [at EXCEPT ![p] = "record"]
        /\ mind'[p].cid = Current(p) /\ image' = Dir({Current(p)}, TRUE)
    BY <1>15, <2>2 DEF Rename, NoDir, Goes, Refuse, store, boxes, Builds, Dir
  <2>4. Builds(p)'
    BY <2>1, <2>3 DEF Builds, Dir
  <2>6. Current(p) \in Versions
    BY <1>15 DEF Rename, Current, KnownInv, Minds
  <2>5. image'.there => Whole(image)'
    BY <2>3, <2>6 DEF Whole, Dir
  <2> QED
    BY <1>15, <2>3, <2>4, <2>5, OwnBuild DEF Goes
<1>16. ASSUME NEW p \in Procs, RecordDigest(p) PROVE Sound'
  <2>1. Current(p)' = Current(p)
    BY <1>16 DEF RecordDigest, Serve, Recorded, Goes, Refuse, store, boxes, Current
  <2>2. Builds(p)
    BY DEF Sound
  <2>3. PICK to \in {"up", "over"} : at' = [at EXCEPT ![p] = to]
    BY <1>16 DEF RecordDigest, Serve, Goes
  <2>7. at[p] = "record" /\ image' = image
    BY <1>16 DEF RecordDigest
  <2>8. Removing' = Removing
    BY <2>3, <2>7 DEF Removing
  <2>4. image.there /\ Removing = {} => Whole(image) /\ image.of = {Current(p)}
    BY <2>2, <2>7 DEF Builds, Sound
  <2>5. record' = Current(p) /\ Current(p) \in Versions
    BY <1>16 DEF RecordDigest, Recorded, Current, KnownInv, Minds
  <2>6. Builds(p)'
    BY <2>3 DEF Builds
  <2> QED
    BY <2>3, <2>4, <2>5, <2>6, <2>7, <2>8, OwnBuild DEF Whole
<1>17. ASSUME NEW p \in Procs, RecordFails(p) PROVE Sound'
  BY <1>17 DEF RecordFails, Serve, Goes, Refuse, store, boxes
<1>18. ASSUME NEW p \in Procs, UpRefused(p) PROVE Sound'
  BY <1>18, BuildUntouched DEF UpRefused, Goes, Refuse, store, boxes
<1>19. ASSUME NEW p \in Procs, UpRead(p) PROVE Sound'
  BY <1>19, BuildUntouched DEF UpRead, Goes, Refuse, store, boxes
<1>20. ASSUME NEW p \in Procs, UpMake(p) PROVE Sound'
  BY <1>20, BuildUntouched DEF UpMake, Goes, Refuse, store, boxes
<1>21. ASSUME NEW p \in Procs, UpFails(p) PROVE Sound'
  BY <1>21, BuildUntouched DEF UpFails, Goes, Refuse, store, boxes
<1>22. ASSUME NEW p \in Procs, Enter(p) PROVE Sound'
  BY <1>22, BuildUntouched DEF Enter, Goes, Refuse, store, boxes
<1>23. ASSUME NEW p \in Procs, LockGone(p) PROVE Sound'
  BY <1>23, BuildUntouched DEF LockGone, Goes, Refuse, store, boxes
<1>24. ASSUME NEW p \in Procs, Lock(p) PROVE Sound'
  BY <1>24, BuildUntouched DEF Lock, Goes, Refuse, store, boxes
<1>25. ASSUME NEW p \in Procs, Mount(p) PROVE Sound'
  BY <1>25, BuildUntouched DEF Mount, Goes, Refuse, store, boxes
<1>26. ASSUME NEW p \in Procs, Leave(p) PROVE Sound'
  BY <1>26, BuildUntouched DEF Leave, Goes, Refuse, store, boxes
<1>27. ASSUME NEW p \in Procs, Down(p) PROVE Sound'
  BY <1>27, BuildUntouched DEF Down, Goes, Refuse, store, boxes
<1>28. ASSUME NEW p \in Procs, Images(p) PROVE Sound'
  <2>1. \A q \in Procs : at[q] \in BuildStages =>
          mind'[q].own = mind[q].own /\ mind'[q].cid = mind[q].cid
    BY <1>28 DEF Images, Standing, Goes, Refuse, store, boxes
  <2> QED
    BY <1>28, <2>1, BuildUntouched DEF Images, Standing, Goes, Refuse, store, boxes
<1>29. ASSUME NEW p \in Procs, Ls(p) PROVE Sound'
  <2>1. \A q \in Procs : at[q] \in BuildStages =>
          mind'[q].own = mind[q].own /\ mind'[q].cid = mind[q].cid
    BY <1>29 DEF Ls, Standing, Goes, Refuse, store, boxes
  <2> QED
    BY <1>29, <2>1, BuildUntouched DEF Ls, Standing, Goes, Refuse, store, boxes
<1>30. ASSUME NEW p \in Procs, LsFails(p) PROVE Sound'
  BY <1>30, BuildUntouched DEF LsFails, Goes, Refuse, store, boxes
<1>31. ASSUME NEW p \in Procs, PruneImage(p) PROVE Sound'
  <2>1. /\ at[p] \in {"prune", "pruning"} /\ at' = [at EXCEPT ![p] = "pruneNew"]
        /\ UNCHANGED <<form, source, tag, new, record, mind>>
    BY <1>31 DEF PruneImage, Goes
  <2>2. \A q \in Procs : Current(q)' = Current(q)
    BY <2>1 DEF Current
  <2>3. CASE at[p] = "prune" /\ image' = image
    BY <2>1, <2>3, BuildUntouched
  <2>4. CASE ~image'.there
    <3>1. \A q \in Procs : Builds(q)'
      <4> SUFFICES ASSUME NEW q \in Procs PROVE Builds(q)'
        OBVIOUS
      <4>1. Builds(q) /\ (at'[q] = at[q] \/ at'[q] = "pruneNew")
        BY <2>1 DEF Sound
      <4> QED
        BY <2>1, <2>2, <2>4, <4>1 DEF Builds
    <3>2. Building' = Building
      BY <2>1 DEF Building
    <3> QED
      BY <2>4, <3>1, <3>2 DEF Sound
  <2>5. Prunes(p) => ~image'.there
    BY <1>31 DEF PruneImage, NoDir
  <2>6. ~Prunes(p) => image' = image
    BY <1>31 DEF PruneImage
  <2>7. at[p] = "pruning" => Prunes(p)
    BY DEF KnownInv
  <2> QED
    BY <2>1, <2>3, <2>4, <2>5, <2>6, <2>7
<1>32. ASSUME NEW p \in Procs, PruneNew(p) PROVE Sound'
  <2>1. new' = new
    BY <1>32 DEF PruneNew, NoDir, Goes, Refuse, store, boxes
  <2> QED
    BY <1>32, <2>1, BuildUntouched DEF PruneNew, NoDir, Goes, Refuse, store, boxes
<1>33. ASSUME NEW p \in Procs, Dies(p) PROVE Sound'
  BY <1>33 DEF Dies, Dir, Goes, Refuse, store, boxes
<1>34. ASSUME NEW p \in Procs, CommandDies(p) PROVE Sound'
  BY <1>34, BuildUntouched DEF CommandDies, Goes, Refuse, store, boxes
<1>36. ASSUME NEW p \in Procs, Tear(p) PROVE Sound'
  <2>1. \A q \in Procs : Current(q)' = Current(q)
    BY <1>36 DEF Tear, Current, boxes
  <2>2. /\ image.there /\ UNCHANGED <<tag, new, mind>>
        /\ \/ at[p] \in {"clear", "clearing"} /\ at' = [at EXCEPT ![p] = "clearing"]
           \/ at[p] \in {"prune", "pruning"} /\ at' = [at EXCEPT ![p] = "pruning"]
    BY <1>36 DEF Tear, Goes
  <2>3. p \in Removing'
    BY <2>2 DEF Removing
  <2>4. ASSUME NEW q \in Procs PROVE Builds(q)'
    <3>1. Builds(q) /\ at[q] # "rename"
      BY <2>2 DEF Sound, Builds
    <3>2. \/ at'[q] = at[q]
          \/ at[q] \in {"clear", "clearing"} /\ at'[q] = "clearing"
          \/ at'[q] = "pruning"
      BY <2>2
    <3> QED
      BY <2>1, <2>2, <2>3, <3>1, <3>2 DEF Builds
  <2>5. Building' = Building
    BY <2>2 DEF Building
  <2> QED
    BY <2>3, <2>4, <2>5 DEF Sound
<1>37. ASSUME NEW p \in Procs, RemoveFails(p) PROVE Sound'
  BY <1>37 DEF RemoveFails
<1>38. ASSUME NEW p \in Procs, TearNew(p) PROVE Sound'
  BY <1>38 DEF TearNew
<1>35. CASE UNCHANGED vars
  BY <1>35, BuildUntouched DEF vars
<1> QED
  BY <1>1, <1>2, <1>3, <1>4, <1>5, <1>6, <1>7, <1>8, <1>9, <1>10, <1>11, <1>12,
     <1>13, <1>14, <1>15, <1>16, <1>17, <1>18, <1>19, <1>20, <1>21, <1>22, <1>23,
     <1>24, <1>25, <1>26, <1>27, <1>28, <1>29, <1>30, <1>31, <1>32, <1>33, <1>34,
     <1>35, <1>36, <1>37, <1>38 DEF Next, Look, Build, Box, Prune, Remove

LEMMA WholeInvStep ==
  ASSUME ImageTypeOK, KnownInv, WholeInv, [Next]_vars
  PROVE  WholeInv'
BY LapsesGrow, SoundStep DEF WholeInv

--------------------------------------------------------------------------------
(* An image that is there to begin with is whole, and what the record says.  *)
LEMMA InitIInv == Init => IInv
<1> SUFFICES ASSUME Init PROVE IInv
  OBVIOUS
<1> USE ImageAssumption DEF Init, ImageAssumption
<1>1. \A p \in Procs : mind[p] \in Minds
  BY DEF Minds
<1> DEFINE of == IF record = NoVersion THEN Staged ELSE record
<1>0. of \in Versions \cup {Staged} /\ (image = NoDir \/ image = Dir({of}, TRUE))
  OBVIOUS
<1> HIDE DEF of
<1>2. image \in Dirs /\ new \in Dirs
  <2>1. NoDir \in Dirs /\ Dir({of}, TRUE) \in Dirs
    BY <1>0 DEF Dirs, NoDir, Dir
  <2> QED
    BY <1>0, <2>1
<1>3. ImageTypeOK
  BY <1>1, <1>2 DEF ImageTypeOK, ImageStages
<1>4. LockInv /\ InsideInv /\ DeadInv
  BY DEF LockInv, InsideInv, DeadInv
<1>5. BornInv /\ ListedInv
  BY DEF BornInv, ListedInv
<1>6. KnownInv
  BY DEF KnownInv, BuildStages
<1>7. WholeInv
  <2>1. ~NoDir.there /\ Dir({of}, TRUE).of = {of} /\ Whole(Dir({of}, TRUE))
    BY <1>0 DEF NoDir, Dir, Whole
  <2>2. image.there => Whole(image) /\ image.of = {of}
    BY <1>0, <2>1
  <2> QED
    BY <2>2 DEF of, WholeInv, Sound, Builds, Building, BuildStages
<1> QED
  BY <1>3, <1>4, <1>5, <1>6, <1>7 DEF IInv

LEMMA NextIInv == IInv /\ [Next]_vars => IInv'
BY ImageTypeOKStep, LockInvStep, InsideInvStep, DeadInvStep, BornInvStep, ListedInvStep,
   KnownInvStep, WholeInvStep
   DEF IInv

(* The inductive invariant of one image and its boxes, for any number of      *)
(* processes and versions, any kinds of commands and any faults.             *)
THEOREM Invariance == Spec => []IInv
BY InitIInv, NextIInv, PTL DEF Spec

--------------------------------------------------------------------------------
(* What the invariant gives.                                                *)

(* Whatever is killed: of the commands a dabs still waits for, one at a time   *)
(* has a box's overlay mounted.                                              *)
OneAwaited == \A i \in Procs : Cardinality({p \in inside[i] : at[p] # "dead"}) <= 1

(* The lock of an instance keeps two dabs that are alive from having their     *)
(* commands in one box (bwrap.go lock, enter).                               *)
THEOREM LockExcludes == Spec => []OneAwaited
<1>1. ASSUME IInv PROVE OneAwaited
  <2> SUFFICES ASSUME NEW i \in Procs
               PROVE  Cardinality({p \in inside[i] : at[p] # "dead"}) <= 1
    BY DEF OneAwaited
  <2> DEFINE S == {p \in inside[i] : at[p] # "dead"}
  <2>1. \A p \in S : p = holder[i]
    BY <1>1 DEF IInv, ImageTypeOK, InsideInv, LockInv
  <2>2. S = {} \/ S = {holder[i]}
    BY <2>1
  <2>3. Cardinality({}) = 0 /\ Cardinality({holder[i]}) = 1
    BY FS_EmptySet, FS_Singleton
  <2> HIDE DEF S
  <2>4. Cardinality(S) <= 1
    BY <2>2, <2>3
  <2> QED
    BY <2>4 DEF S
<1> QED
  BY Invariance, <1>1, PTL

(* So no two commands share an overlay as long as no dabs is killed: one that  *)
(* is may leave its command behind, and the lock is free (bwrap.go enter).   *)
THEOREM NoSharedOverlay == Spec => []OneCommand
<1>1. ASSUME IInv, OneAwaited PROVE OneCommand
  <2> SUFFICES ASSUME "killed" \notin lapses, NEW i \in Procs
               PROVE  Cardinality(inside[i]) <= 1
    BY DEF OneCommand
  <2>1. {p \in inside[i] : at[p] # "dead"} = inside[i]
    BY <1>1 DEF IInv, ImageTypeOK, DeadInv
  <2> QED
    BY <1>1, <2>1 DEF OneAwaited
<1> QED
  BY Invariance, LockExcludes, <1>1, PTL

(* The record beside an image names what it was built from, unless something   *)
(* crossed the build or the image is just being built or removed, file by file *)
(* (recipe.go buildDockerImage, bwrap.go Build and RemoveImage).             *)
THEOREM RecordsTrue == Spec => []RecordIsTheImage
<1>1. ASSUME IInv PROVE RecordIsTheImage
  <2> SUFFICES ASSUME lapses = {}, Building = {}, Removing = {}, record # NoVersion,
                      image.there
               PROVE  Whole(image) /\ image.of = {record}
    BY DEF RecordIsTheImage
  <2>1. \A p \in Procs : at[p] # "record"
    BY DEF Building
  <2> QED
    BY <1>1, <2>1 DEF IInv, WholeInv, Sound
<1> QED
  BY Invariance, <1>1, PTL

(* A command that is entered while nobody removes the image file by file is    *)
(* entered over one whole image, however many builds go on and prunes have     *)
(* been, unless something crossed a build: the new image comes with one rename *)
(* (bwrap.go Build, enter).                                                  *)
THEOREM MountsWhole == Spec => MountIsWhole
<1> DEFINE A == \A p \in Procs :
                  lapses = {} /\ Removing = {} /\ at[p] = "mount" /\ at'[p] = "inside" => Whole(image)
<1>1. ASSUME IInv, Next PROVE A
  <2> SUFFICES ASSUME NEW p \in Procs, lapses = {}, Removing = {}, at[p] = "mount",
                      at'[p] = "inside"
               PROVE  Whole(image)
    OBVIOUS
  <2>1. image.there
    <3> SUFFICES ASSUME ~image.there PROVE FALSE
      OBVIOUS
    <3> USE <1>1 DEF IInv, ImageTypeOK, Goes, Refuse, Serve
    <3>1. ASSUME NEW q \in Procs, Look(q) PROVE FALSE
      BY <3>1 DEF Look, Start, BuiltImage, Digest, HasImage, Reuse
    <3>2. ASSUME NEW q \in Procs, Build(q) PROVE FALSE
      BY <3>2 DEF Build, NoBuilder, DockerBuild, BuildFails, Create, Stage, Untar, WriteMeta, Clear,
                  Rename, RecordDigest, RecordFails
    <3>3. ASSUME NEW q \in Procs, Box(q) PROVE FALSE
      BY <3>3 DEF Box, UpRefused, UpRead, UpMake, UpFails, Enter, LockGone, Lock, Mount, Leave, Down
    <3>4. ASSUME NEW q \in Procs, Prune(q) \/ Remove(q) \/ Dies(q) \/ CommandDies(q) PROVE FALSE
      BY <3>4 DEF Prune, Images, Ls, LsFails, PruneImage, TearNew, PruneNew, Remove, Tear,
                  RemoveFails, Prunes, Dies, CommandDies
    <3>5. CASE Edit
      BY <3>5 DEF Edit
    <3> QED
      BY <1>1, <3>1, <3>2, <3>3, <3>4, <3>5 DEF Next
  <2> QED
    BY <1>1, <2>1 DEF IInv, WholeInv, Sound
<1>2. IInv /\ [Next]_vars => [A]_vars
  BY <1>1
<1> QED
  BY Invariance, <1>2, PTL DEF Spec, MountIsWhole

(* A prune that was not forced, and that could list the boxes, begins on no    *)
(* image from under a box that stands throughout, whatever boots, stops and    *)
(* reaps in between (prune.go pruneImages).                                  *)
THEOREM PrunesSpare == Spec => PruneSparesBoxes
<1> DEFINE A ==
      \A p \in Procs : at[p] = "prune" /\ at'[p] # "prune" /\ mind[p].kind = "prune"
                       /\ image' # image /\ "unlisted" \notin lapses
        => mind[p].began \cap Standing = {}
<1>1. ASSUME IInv, Next PROVE A
  <2> SUFFICES ASSUME NEW p \in Procs, at[p] = "prune", at'[p] # "prune",
                      mind[p].kind = "prune", image' # image, "unlisted" \notin lapses
               PROVE  mind[p].began \cap Standing = {}
    OBVIOUS
  <2>1. mind[p].live = {}
    <3> SUFFICES ASSUME mind[p].live # {} PROVE FALSE
      OBVIOUS
    <3> USE <1>1 DEF IInv, ImageTypeOK, Goes, Refuse, Serve
    <3>1. ASSUME NEW q \in Procs, Look(q) PROVE FALSE
      BY <3>1 DEF Look, Start, BuiltImage, Digest, HasImage, Reuse
    <3>2. ASSUME NEW q \in Procs, Build(q) PROVE FALSE
      BY <3>2 DEF Build, NoBuilder, DockerBuild, BuildFails, Create, Stage, Untar, WriteMeta, Clear,
                  Rename, RecordDigest, RecordFails
    <3>3. ASSUME NEW q \in Procs, Box(q) PROVE FALSE
      BY <3>3 DEF Box, UpRefused, UpRead, UpMake, UpFails, Enter, LockGone, Lock, Mount, Leave, Down
    <3>4. ASSUME NEW q \in Procs, PruneImage(q) PROVE FALSE
      <4>1. q = p
        BY <3>4 DEF PruneImage
      <4> QED
        BY <3>4, <4>1 DEF PruneImage, Prunes
    <3>6. ASSUME NEW q \in Procs, Tear(q) \/ RemoveFails(q) PROVE FALSE
      <4>1. q = p
        BY <3>6 DEF Tear, RemoveFails
      <4> QED
        BY <3>6, <4>1 DEF Tear, RemoveFails, Prunes
    <3>7. ASSUME NEW q \in Procs, Images(q) \/ Ls(q) \/ LsFails(q) \/ TearNew(q) \/ PruneNew(q)
          PROVE  FALSE
      BY <3>7 DEF Images, Ls, LsFails, TearNew, PruneNew
    <3>8. ASSUME NEW q \in Procs, Dies(q) \/ CommandDies(q) PROVE FALSE
      BY <3>8 DEF Dies, CommandDies, store
    <3>5. CASE Edit
      BY <3>5 DEF Edit
    <3> QED
      BY <1>1, <3>1, <3>2, <3>3, <3>4, <3>5, <3>6, <3>7, <3>8 DEF Next, Prune, Remove
  <2> QED
    BY <1>1, <2>1 DEF IInv, ListedInv
<1>2. IInv /\ [Next]_vars => [A]_vars
  BY <1>1
<1> QED
  BY Invariance, <1>2, PTL DEF Spec, PruneSparesBoxes

(* A process that nothing crossed is served without a build, while nobody      *)
(* builds or removes the image, only what the source it read says, or an image *)
(* no dabs built (imageReuse, serveUnbuildable).                             *)
THEOREM UnbuiltIsRight == Spec => ServedUnbuilt
<1> DEFINE A ==
      \A p \in Procs : lapses = {} /\ Building = {} /\ Removing = {} /\ Unbuilt(p)
        => image.of \in {{mind[p].digest}, {Staged}}
<1>1. ASSUME IInv, Next PROVE A
  <2> SUFFICES ASSUME NEW p \in Procs, lapses = {}, Building = {}, Removing = {}, Unbuilt(p)
               PROVE  image.of \in {{mind[p].digest}, {Staged}}
    OBVIOUS
  <2>1. at[p] \in {"reuse", "docker"} /\ at'[p] \in {"up", "over"} /\ image.there
    BY DEF Unbuilt
  <2>2. image.of = {IF record = NoVersion THEN Staged ELSE record}
    BY <1>1, <2>1 DEF IInv, WholeInv, Sound, Building
  <2>3. record = NoVersion \/ record = mind[p].digest
    <3> SUFFICES ASSUME record # NoVersion, record # mind[p].digest PROVE FALSE
      OBVIOUS
    <3> USE <1>1, <2>1 DEF IInv, ImageTypeOK, KnownInv, Goes, Refuse, Serve
    <3>1. ASSUME NEW q \in Procs, Start(q) \/ BuiltImage(q) \/ Digest(q) \/ HasImage(q) PROVE FALSE
      BY <3>1 DEF Start, BuiltImage, Digest, HasImage
    <3>2. ASSUME NEW q \in Procs, Reuse(q) PROVE FALSE
      BY <3>2 DEF Reuse
    <3>3. ASSUME NEW q \in Procs, Build(q) PROVE FALSE
      BY <3>3 DEF Build, NoBuilder, DockerBuild, BuildFails, Create, Stage, Untar, WriteMeta, Clear,
                  Rename, RecordDigest, RecordFails
    <3>4. ASSUME NEW q \in Procs, Box(q) PROVE FALSE
      BY <3>4 DEF Box, UpRefused, UpRead, UpMake, UpFails, Enter, LockGone, Lock, Mount, Leave, Down
    <3>5. ASSUME NEW q \in Procs, Prune(q) \/ Remove(q) \/ Dies(q) \/ CommandDies(q) PROVE FALSE
      BY <3>5 DEF Prune, Images, Ls, LsFails, PruneImage, TearNew, PruneNew, Remove, Tear,
                  RemoveFails, Prunes, Dies, CommandDies
    <3>6. CASE Edit
      BY <3>6 DEF Edit
    <3> QED
      BY <1>1, <3>1, <3>2, <3>3, <3>4, <3>5, <3>6 DEF Next, Look
  <2> QED
    BY <2>2, <2>3
<1>2. IInv /\ [Next]_vars => [A]_vars
  BY <1>1
<1> QED
  BY Invariance, <1>2, PTL DEF Spec, ServedUnbuilt
================================================================================
