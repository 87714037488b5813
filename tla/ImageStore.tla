------------------------------ MODULE ImageStore ------------------------------
(***************************************************************************)
(* One image and the boxes born from it, on the bwrap driver: dabs         *)
(* processes that look whether it may be served, build it, come up on it,  *)
(* enter their boxes and prune it, all at once and with nothing between    *)
(* them but the files under ~/.dabs and docker's tag                       *)
(* (src/core/actions: recipe.go, imagedigest.go, build.go, prune.go;       *)
(* src/core/sandbox/bwrap/bwrap.go).                                       *)
(*                                                                         *)
(* A version is what a Dockerfile says, and what an image built from it    *)
(* holds.  An inline recipe's is read off the disk and edited there; a     *)
(* bundled image's is a dabs binary's own, and two binaries may differ.    *)
(***************************************************************************)
EXTENDS Naturals, FiniteSets

CONSTANTS Procs,     \* dabs processes, each for one command; a box is named by its boot
          Versions,
          Staged,    \* what an image placed there by no dabs build holds
          NoVersion, \* no record, no tag
          NoProc,
          Forms,     \* whose image it may be: "inline", "bundled"
          Kinds,     \* what a process may be for
          Builders,  \* whether docker may be there
          Faults     \* "build", "record", "up", "ls", "remove" fails; dabs is "killed"

ASSUME ImageAssumption ==
    /\ {Staged, NoVersion} \cap Versions = {} /\ NoProc \notin Procs
    /\ Forms \subseteq {"inline", "bundled"}
    /\ Kinds \subseteq {"run", "boot", "build", "exec", "rm", "prune", "force"}
    /\ Builders \subseteq BOOLEAN
    /\ Faults \subseteq {"build", "record", "up", "ls", "remove", "killed"}

VARIABLES
    form,    \* whose image it is
    builder, \* docker is there
    source,  \* the Dockerfile on disk
    tag,     \* docker's image of that name
    new,     \* images/<name>.new, where a build is exported to
    image,   \* images/<name>
    record,  \* images-meta/<name>.json
    box,     \* box[i]: the instance directory of i, "none", "half" or "up"
    holder,  \* holder[i]: who has the lock of instance i
    inside,  \* inside[i]: whose commands have the overlay of i mounted
    at,      \* at[p]: where process p is
    mind,    \* mind[p]: what it has read
    lapses   \* what went wrong so far; no guard reads it

vars == <<form, builder, source, tag, new, image, record, box, holder, inside, at, mind, lapses>>
store == <<tag, new, image, record>>
boxes == <<box, holder, inside>>

\* A directory holds what was exported into it, and the image's own metadata.
NoDir == [there |-> FALSE, of |-> {}, json |-> FALSE]
Dir(of, json) == [there |-> TRUE, of |-> of, json |-> json]
Whole(dir) == dir.there /\ dir.json /\ \E v \in Versions \cup {Staged} : dir.of = {v}

\* A removal goes file by file: what others see of it until it is through has
\* lost some of the files, its metadata, or both.
Torn(dir) == {[dir EXCEPT !.of = {}], [dir EXCEPT !.json = FALSE], Dir({}, FALSE)} \ {dir}

Init ==
    /\ form \in Forms /\ builder \in Builders
    /\ source \in Versions
    /\ tag = NoVersion /\ new = NoDir
    /\ record \in Versions \cup {NoVersion}
    /\ image \in IF record = NoVersion THEN {NoDir, Dir({Staged}, TRUE)}
                 ELSE {NoDir, Dir({record}, TRUE)}
    /\ box = [p \in Procs |-> "none"]
    /\ holder = [p \in Procs |-> NoProc]
    /\ inside = [p \in Procs |-> {}]
    /\ at = [p \in Procs |-> "new"]
    /\ mind = [p \in Procs |-> [kind |-> "run", own |-> NoVersion, box |-> p, digest |-> NoVersion,
                                stale |-> "unasked", cid |-> NoVersion, sees |-> {}, live |-> {},
                                began |-> {}]]
    /\ lapses = {}

Goes(p, to) == at' = [at EXCEPT ![p] = to]

\* Where a process goes that has its image: `dabs build` is through.
Serve(p) == Goes(p, IF mind[p].kind = "build" THEN "over" ELSE "up")
Refuse(p) == Goes(p, "refused")

\* The source an image is built from now.
Current(p) == IF form = "inline" THEN source ELSE mind[p].own

-----------------------------------------------------------------------------
(* Looking: may the image there is be served?                              *)

\* A command begins; a bundled image's source is the binary's own.  `dabs
\* build` forces an inline image, and a detached boot asks no digest of one.
Start(p) ==
    /\ at[p] = "new"
    /\ \E kind \in Kinds, own \in IF form = "bundled" THEN Versions ELSE {NoVersion},
          i \in Procs :
         /\ kind \in {"exec", "rm"} => box[i] # "none"
         /\ kind \notin {"exec", "rm"} => i = p
         /\ mind' = [mind EXCEPT ![p].kind = kind, ![p].own = own, ![p].box = i]
         /\ Goes(p, CASE kind \in {"prune", "force"} -> "images"
                      [] kind = "exec" -> "enter"
                      [] kind = "rm" -> "down"
                      [] kind = "build" /\ form = "inline" -> "docker"
                      [] kind = "boot" /\ form = "inline" -> "built"
                      [] OTHER -> "digest")
    /\ UNCHANGED <<form, builder, source, store, boxes, lapses>>

\* resolveBuiltImage: an inline image that is there is booted as it is.
BuiltImage(p) ==
    /\ at[p] = "built"
    /\ IF image.there THEN Serve(p) ELSE Refuse(p)
    /\ UNCHANGED <<form, builder, source, store, boxes, mind, lapses>>

Digest(p) ==
    /\ at[p] = "digest"
    /\ mind' = [mind EXCEPT ![p].digest = Current(p)]
    /\ Goes(p, "has")
    /\ UNCHANGED <<form, builder, source, store, boxes, lapses>>

\* imageReuse asks the driver first ...
HasImage(p) ==
    /\ at[p] = "has"
    /\ IF image.there THEN Goes(p, "reuse") /\ UNCHANGED mind
       ELSE Goes(p, "docker") /\ mind' = [mind EXCEPT ![p].stale = "missing"]
    /\ UNCHANGED <<form, builder, source, store, boxes, lapses>>

\* ... and then compares the record with the source.
Reuse(p) ==
    /\ at[p] = "reuse"
    /\ LET stale == CASE record = NoVersion -> "noRecord"
                      [] record = mind[p].digest -> "fresh"
                      [] OTHER -> "changed"
       IN  /\ mind' = [mind EXCEPT ![p].stale = stale]
           /\ IF stale = "fresh" THEN Serve(p) ELSE Goes(p, "docker")
    /\ UNCHANGED <<form, builder, source, store, boxes, lapses>>

-----------------------------------------------------------------------------
(* Building.                                                               *)
Building == {p \in Procs : at[p] \in
               {"create", "stage", "untar", "meta", "clear", "clearing", "rename", "record"}}

\* Mutant: whatever stands in the way of a rebuild, the image there is serves.
NoBuilderServes(p) ==
    /\ at[p] = "docker" /\ ~builder
    /\ IF mind[p].stale \in {"noRecord", "changed"} THEN Serve(p) ELSE Refuse(p)
    /\ UNCHANGED <<form, builder, source, store, boxes, mind, lapses>>

\* serveUnbuildable: only an image nothing contradicts is served unbuilt.
NoBuilder(p) ==
    /\ at[p] = "docker" /\ ~builder
    /\ IF mind[p].stale = "noRecord" THEN Serve(p) ELSE Refuse(p)
    /\ UNCHANGED <<form, builder, source, store, boxes, mind, lapses>>

\* docker build reads the source itself; a bundled one was staged for it.
DockerBuild(p) ==
    /\ at[p] = "docker" /\ builder
    /\ tag' = Current(p)
    /\ Goes(p, "create")
    /\ lapses' = lapses \cup (IF Building = {} THEN {} ELSE {"together"})
    /\ UNCHANGED <<form, builder, source, new, image, record, boxes, mind>>

BuildFails(p) ==
    /\ at[p] = "docker" /\ builder /\ "build" \in Faults
    /\ Refuse(p)
    /\ UNCHANGED <<form, builder, source, store, boxes, mind, lapses>>

\* docker create: the container is of whatever the tag names by now.
Create(p) ==
    /\ at[p] = "create"
    /\ mind' = [mind EXCEPT ![p].cid = tag]
    /\ Goes(p, "stage")
    /\ UNCHANGED <<form, builder, source, store, boxes, lapses>>

Stage(p) ==
    /\ at[p] = "stage"
    /\ new' = Dir({}, FALSE)
    /\ Goes(p, "untar")
    /\ UNCHANGED <<form, builder, source, tag, image, record, boxes, mind, lapses>>

\* tar into a directory that is being removed fails, or makes it again with
\* what is still to come.
Untar(p) ==
    /\ at[p] = "untar"
    /\ \/ new.there /\ new' = [new EXCEPT !.of = @ \cup {mind[p].cid}] /\ Goes(p, "meta")
       \/ ~new.there /\ new' = Dir({}, FALSE) /\ Goes(p, "meta")
       \/ ~new.there /\ Refuse(p) /\ UNCHANGED new
    /\ UNCHANGED <<form, builder, source, tag, image, record, boxes, mind, lapses>>

WriteMeta(p) ==
    /\ at[p] = "meta"
    /\ IF new.there
       THEN new' = [new EXCEPT !.json = TRUE] /\ Goes(p, "clear")
       ELSE Refuse(p) /\ UNCHANGED new
    /\ UNCHANGED <<form, builder, source, tag, image, record, boxes, mind, lapses>>

\* The image there was is gone, and until the rename there is none.
Clear(p) ==
    /\ at[p] \in {"clear", "clearing"}
    /\ image' = NoDir
    /\ Goes(p, "rename")
    /\ UNCHANGED <<form, builder, source, tag, new, record, boxes, mind, lapses>>

\* Mutant: what was exported is moved into place piece by piece.
RenamePiecemeal(p) ==
    /\ at[p] = "rename"
    /\ IF new.there /\ ~image.there
       THEN image' = Dir({}, TRUE) /\ UNCHANGED new /\ UNCHANGED at
       ELSE IF new.there
       THEN image' = new /\ new' = NoDir /\ Goes(p, "record")
       ELSE Refuse(p) /\ UNCHANGED <<new, image>>
    /\ UNCHANGED <<form, builder, source, tag, record, boxes, mind, lapses>>

\* A directory is not renamed over one that holds files.
Rename(p) ==
    /\ at[p] = "rename"
    /\ IF new.there /\ ~image.there
       THEN image' = new /\ new' = NoDir /\ Goes(p, "record")
       ELSE Refuse(p) /\ UNCHANGED <<new, image>>
    /\ UNCHANGED <<form, builder, source, tag, record, boxes, mind, lapses>>

\* What a record says of the image just built: an inline source is read once
\* more, a bundled one's digest was computed before.
Recorded(p) == IF form = "inline" THEN source ELSE mind[p].digest

RecordDigest(p) ==
    /\ at[p] = "record"
    /\ record' = Recorded(p)
    /\ Serve(p)
    /\ UNCHANGED <<form, builder, source, tag, new, image, boxes, mind, lapses>>

\* The record there was stays; the build goes on as if it had been written.
RecordFails(p) ==
    /\ at[p] = "record" /\ "record" \in Faults
    /\ lapses' = lapses \cup {"unrecorded"}
    /\ Serve(p)
    /\ UNCHANGED <<form, builder, source, store, boxes, mind>>

-----------------------------------------------------------------------------
(* Boxes: an instance is a directory; every command enters it anew, under  *)
(* its lock, over whatever is in the image's place by then.                *)

UpRefused(p) ==
    /\ at[p] = "up" /\ ~(image.there /\ image.json)
    /\ Refuse(p)
    /\ UNCHANGED <<form, builder, source, store, boxes, mind, lapses>>

\* The image's metadata is read, and later the directory and its own written.
UpRead(p) ==
    /\ at[p] = "up" /\ image.there /\ image.json
    /\ Goes(p, "make")
    /\ UNCHANGED <<form, builder, source, store, boxes, mind, lapses>>

UpMake(p) ==
    /\ at[p] = "make"
    /\ box' = [box EXCEPT ![p] = "up"]
    /\ Goes(p, IF mind[p].kind = "run" THEN "enter" ELSE "over")
    /\ UNCHANGED <<form, builder, source, store, holder, inside, mind, lapses>>

UpFails(p) ==
    /\ at[p] = "make" /\ "up" \in Faults
    /\ box' = [box EXCEPT ![p] = "half"]
    /\ Refuse(p)
    /\ UNCHANGED <<form, builder, source, store, holder, inside, mind, lapses>>

\* enter reads the instance's metadata before the lock is asked for.
Enter(p) ==
    /\ at[p] = "enter"
    /\ IF box[mind[p].box] = "up" THEN Goes(p, "lock") ELSE Refuse(p)
    /\ UNCHANGED <<form, builder, source, store, boxes, mind, lapses>>

\* The lock file goes with its directory.
LockGone(p) ==
    /\ at[p] = "lock" /\ box[mind[p].box] = "none"
    /\ Refuse(p)
    /\ UNCHANGED <<form, builder, source, store, boxes, mind, lapses>>

\* Mutant: the lock is shared.
LockShared(p) ==
    /\ at[p] = "lock" /\ box[mind[p].box] # "none"
    /\ holder' = [holder EXCEPT ![mind[p].box] = p]
    /\ Goes(p, "mount")
    /\ UNCHANGED <<form, builder, source, store, box, inside, mind, lapses>>

Lock(p) ==
    /\ at[p] = "lock" /\ box[mind[p].box] # "none" /\ holder[mind[p].box] = NoProc
    /\ holder' = [holder EXCEPT ![mind[p].box] = p]
    /\ Goes(p, "mount")
    /\ UNCHANGED <<form, builder, source, store, box, inside, mind, lapses>>

\* bwrap mounts what there is; over what a removal has left of an image it may
\* find no command to run.
Mount(p) ==
    /\ at[p] = "mount"
    /\ LET i == mind[p].box
       IN  \/ /\ image.there /\ box[i] = "up"
              /\ inside' = [inside EXCEPT ![i] = @ \cup {p}]
              /\ Goes(p, "inside") /\ UNCHANGED holder
           \/ /\ ~image.there \/ image.of = {} \/ box[i] # "up"
              /\ holder' = [holder EXCEPT ![i] = NoProc]
              /\ Refuse(p) /\ UNCHANGED inside
    /\ UNCHANGED <<form, builder, source, store, box, mind, lapses>>

\* The command ends, dabs has waited for it, and the lock is closed; `run`
\* then takes its box down.
Leave(p) ==
    /\ at[p] = "inside"
    /\ LET i == mind[p].box
       IN  /\ inside' = [inside EXCEPT ![i] = @ \ {p}]
           /\ holder' = [holder EXCEPT ![i] = NoProc]
    /\ Goes(p, IF mind[p].kind = "run" THEN "down" ELSE "over")
    /\ UNCHANGED <<form, builder, source, store, box, mind, lapses>>

\* Down asks for no lock.
Down(p) ==
    /\ at[p] = "down"
    /\ box' = [box EXCEPT ![mind[p].box] = "none"]
    /\ Goes(p, "over")
    /\ UNCHANGED <<form, builder, source, store, holder, inside, mind, lapses>>

-----------------------------------------------------------------------------
(* Pruning.                                                                *)
Standing == {i \in Procs : box[i] # "none"}

\* Every directory under images/ is taken for an image, an export too.
Images(p) ==
    /\ at[p] = "images"
    /\ LET sees == {d \in {"image", "new"} : IF d = "image" THEN image.there ELSE new.there}
       IN  /\ mind' = [mind EXCEPT ![p].sees = sees, ![p].began = Standing]
           /\ Goes(p, IF sees = {} THEN "over"
                      ELSE IF mind[p].kind = "force" THEN "prune" ELSE "ls")
    /\ UNCHANGED <<form, builder, source, store, boxes, lapses>>

\* Mutant: only a box a command is in counts as live.
LsEntered(p) ==
    /\ at[p] = "ls"
    /\ mind' = [mind EXCEPT ![p].live = {i \in Standing : holder[i] # NoProc}]
    /\ Goes(p, "prune")
    /\ UNCHANGED <<form, builder, source, store, boxes, lapses>>

Ls(p) ==
    /\ at[p] = "ls"
    /\ mind' = [mind EXCEPT ![p].live = Standing]
    /\ Goes(p, "prune")
    /\ UNCHANGED <<form, builder, source, store, boxes, lapses>>

\* A listing that fails is warned of, and blocks nothing.
LsFails(p) ==
    /\ at[p] = "ls" /\ "ls" \in Faults
    /\ lapses' = lapses \cup {"unlisted"}
    /\ Goes(p, "prune")
    /\ UNCHANGED <<form, builder, source, store, boxes, mind>>

Prunes(p) == "image" \in mind[p].sees /\ mind[p].live = {}

PruneImage(p) ==
    /\ at[p] \in {"prune", "pruning"}
    /\ image' = IF Prunes(p) THEN NoDir ELSE image
    /\ Goes(p, "pruneNew")
    /\ UNCHANGED <<form, builder, source, tag, new, record, boxes, mind, lapses>>

\* No box is born of "<name>.new", so nothing holds its removal back.
TearNew(p) ==
    /\ at[p] = "pruneNew" /\ "new" \in mind[p].sees /\ new.there
    /\ new' \in Torn(new)
    /\ lapses' = lapses \cup {"pruned"}
    /\ UNCHANGED <<form, builder, source, tag, image, record, boxes, at, mind>>

PruneNew(p) ==
    /\ at[p] = "pruneNew"
    /\ new' = IF "new" \in mind[p].sees THEN NoDir ELSE new
    /\ lapses' = lapses \cup (IF new' # new THEN {"pruned"} ELSE {})
    /\ Goes(p, "over")
    /\ UNCHANGED <<form, builder, source, tag, image, record, boxes, mind>>

-----------------------------------------------------------------------------
(* os.RemoveAll of the image, by a build and by a prune: not one step.     *)
Removing == {p \in Procs : at[p] \in {"clearing", "pruning"}}

\* Some of it is gone; what has come into its place since is not spared.
Tear(p) ==
    /\ image.there /\ image' \in Torn(image)
    /\ \/ at[p] \in {"clear", "clearing"} /\ Goes(p, "clearing")
       \/ at[p] \in {"prune", "pruning"} /\ Prunes(p) /\ Goes(p, "pruning")
    /\ UNCHANGED <<form, builder, source, tag, new, record, boxes, mind, lapses>>

\* A file that cannot be removed: a build gives up; a prune warns and goes on.
RemoveFails(p) ==
    /\ "remove" \in Faults
    /\ \/ at[p] \in {"clear", "clearing"} /\ Refuse(p)
       \/ at[p] \in {"prune", "pruning"} /\ Prunes(p) /\ Goes(p, "pruneNew")
    /\ lapses' = lapses \cup {"unremoved"}
    /\ UNCHANGED <<form, builder, source, store, boxes, mind>>

-----------------------------------------------------------------------------
(* What is not asked for.                                                  *)

\* The Dockerfile is edited.
Edit ==
    /\ form = "inline"
    /\ source' \in Versions \ {source}
    /\ lapses' = lapses \cup (IF Building = {} THEN {} ELSE {"edited"})
    /\ UNCHANGED <<form, builder, tag, new, image, record, boxes, at, mind>>

\* dabs is killed.  The kernel closes its lock at once; its command is told to
\* die and may linger; a removal it was in the middle of stays half done.
Dies(p) ==
    /\ "killed" \in Faults
    /\ at[p] \notin {"new", "over", "refused", "dead"}
    /\ Goes(p, "dead")
    /\ holder' = [i \in Procs |-> IF holder[i] = p THEN NoProc ELSE holder[i]]
    /\ lapses' = lapses \cup {"killed"}
    /\ UNCHANGED <<form, builder, source, store, box, inside, mind>>

CommandDies(p) ==
    /\ at[p] = "dead"
    /\ \E i \in Procs : p \in inside[i] /\ inside' = [inside EXCEPT ![i] = @ \ {p}]
    /\ UNCHANGED <<form, builder, source, store, box, holder, at, mind, lapses>>

-----------------------------------------------------------------------------
Look(p) == Start(p) \/ BuiltImage(p) \/ Digest(p) \/ HasImage(p) \/ Reuse(p)
Build(p) ==
    \/ NoBuilder(p) \/ DockerBuild(p) \/ BuildFails(p) \/ Create(p) \/ Stage(p) \/ Untar(p)
    \/ WriteMeta(p) \/ Clear(p) \/ Rename(p) \/ RecordDigest(p) \/ RecordFails(p)
Box(p) ==
    \/ UpRefused(p) \/ UpRead(p) \/ UpMake(p) \/ UpFails(p) \/ Enter(p) \/ LockGone(p)
    \/ Lock(p) \/ Mount(p) \/ Leave(p) \/ Down(p)
Prune(p) == Images(p) \/ Ls(p) \/ LsFails(p) \/ PruneImage(p) \/ TearNew(p) \/ PruneNew(p)
Remove(p) == Tear(p) \/ RemoveFails(p)

Next ==
    \/ Edit
    \/ \E p \in Procs : Look(p) \/ Build(p) \/ Box(p) \/ Prune(p) \/ Remove(p)
                       \/ Dies(p) \/ CommandDies(p)

Spec == Init /\ [][Next]_vars

-----------------------------------------------------------------------------
(* What must hold.                                                         *)

\* While nobody builds and nobody is in the middle of removing the image, the
\* record beside it names what it was built from, all of it (recipe.go
\* buildDockerImage and buildBundledImage, bwrap.go Build), unless one of the
\* lapses the code does not guard against came first.
RecordIsTheImage ==
    lapses = {} /\ Building = {} /\ Removing = {} /\ record # NoVersion /\ image.there
        => Whole(image) /\ image.of = {record}

\* What is served without a build.
Unbuilt(p) == at[p] \in {"reuse", "docker"} /\ at'[p] \in {"up", "over"} /\ image.there

\* A command that looked and is served without a build is served what its
\* source says, or an image no dabs built (imageReuse, serveUnbuildable), if
\* nobody builds or removes the image at that moment, whatever builds, prunes
\* and edits were completed since it began to look.  The rest is not promised:
\* a look while a build goes on may find the new image beside the old record,
\* and one while a prune removes the image serves what is left of it
\* (bwrap.go HasImage asks for the directory only).
ServedUnbuilt ==
    [][\A p \in Procs : lapses = {} /\ Building = {} /\ Removing = {} /\ Unbuilt(p)
                        => image.of \in {{mind[p].digest}, {Staged}}]_vars

\* The same for an inline recipe with no lapse excused, nobody building and the
\* Dockerfile as it was read: imagedigest.go has it that a record is "never a
\* stale reuse", and buildDockerImage that it names "the source this image was
\* built from".
NeverStale ==
    [][\A p \in Procs : Building = {} /\ Unbuilt(p) /\ mind[p].digest = source
                        => image.of \in {{source}, {Staged}}]_vars

\* A prune that was not forced, and whose listing did not fail, begins to remove
\* no image from under a box that was there when it was asked for and still is
\* (pruneImages).  A rebuild may, in the meantime (bwrap.go Build).
PruneSparesBoxes ==
    [][\A p \in Procs : at[p] = "prune" /\ at'[p] # "prune" /\ mind[p].kind = "prune"
                        /\ image' # image /\ "unlisted" \notin lapses
         => mind[p].began \cap Standing = {}]_vars

\* One command at a time has a box's overlay mounted, "concurrent overlayfs
\* mounts sharing an upper dir" corrupting writes (bwrap.go lock), as long as
\* no dabs is killed: its command may outlive the lock.
OneCommand == "killed" \in lapses \/ \A i \in Procs : Cardinality(inside[i]) <= 1

\* What a command is entered over is one whole image, whatever is being built,
\* or reaped, or was pruned: an export comes into place with one rename (bwrap.go
\* Build, enter).  But a command entered while the old image is being removed,
\* file by file, mounts what is left of it.
MountIsWhole ==
    [][\A p \in Procs : lapses = {} /\ Removing = {} /\ at[p] = "mount" /\ at'[p] = "inside"
                        => Whole(image)]_vars
=============================================================================
