----------------------------- MODULE RecipeBoot -----------------------------
(***************************************************************************)
(* One boot of a recipe, from the files that define it to the box that     *)
(* stands: `dabs recipe`, its --no-command and --detach forms, and the Go  *)
(* entry Boot.  The registry is layered, the recipe named is checked,      *)
(* bound to a worktree, its place is provisioned and its sources become    *)
(* the mounts of a driver.  Host paths may come and go at any step.        *)
(*                                                                         *)
(* How a name is claimed is NameClaim's, how a project and a checkout are  *)
(* recorded NodeStore's, how an image is built ImageStore's, and the box's *)
(* relay and proxy BoxLifecycle's: here each is one step that succeeds or  *)
(* does not.                                                               *)
(***************************************************************************)
EXTENDS Recipe, TLC

CONSTANTS
  Home, Store, Cwd,     \* the user's home, dabs's own directory, where dabs runs
  Env,                  \* the host environment: variable -> path
  Bundled,              \* the file of recipes dabs carries
  Globals, Projects,    \* what ~/.dabs/recipes.yaml and ./dabs.yaml may hold
  PathArgs,             \* arguments shaped like a path -> directory of their dabs.yaml
  AtPaths,              \* what those files may hold
  Worktrees,            \* the worktree nodes there are: id -> [data, repo]
  Prefixed,             \* argument -> the ids it is a prefix of
  Disk, Fickle,         \* host path -> what is there; the paths that may come and go
  Drivers,              \* target -> [server, detaches, images]
  PlaceIds,             \* the ids a boot draws for the places it makes, in their order
  Requests              \* what is asked of dabs

\* No file stands there.
NoFile == [recipes |-> << >>, default |-> "", oddKeys |-> FALSE]

\* What dabs binds into a box itself: door, forwarder, CA, log.
CABoxDir == <<"/", "run", "dabs", "pub">>
LogDir == <<"/", "run", "dabs", "log">>
DoorPath == <<"/", "run", "dabs", "door.sock">>
ReservedBoxPaths == {DoorPath, <<"/", "run", "dabs", "forward">>, CABoxDir, LogDir}

\* A recipe somebody wrote, each of its sources having an id to draw.
Bootable(rec) == IsRecipe(rec) /\ Len(rec.sources) <= Len(PlaceIds)

\* A request is for a recipe of the registry, of a file, or of the caller's own.
IsRequest(req) ==
  /\ {"form", "arg", "extra", "worktree", "node", "detach"} \subseteq DOMAIN req
  /\ {req.worktree, req.node} \subseteq STRING
  /\ req.form = "go" => "rec" \in DOMAIN req /\ Bootable(req.rec)

\* The segments of the paths dabs makes up itself, and its own ids.
OwnNames == {"/", "run", "dabs", "log", "pub", "ca", "nodes", "volume", "tmp", "held", "worktree",
             "work", ".git", "box", "project"}

\* What the user's files and environment hold is written in strings, as dabs's
\* own names are; the directories dabs works out are absolute, and those it
\* looks up are clean.
ASSUME RecipeAssumption ==
  /\ OwnNames \subseteq STRING
  /\ IsFiniteSet(DOMAIN Disk) /\ Fickle \subseteq DOMAIN Disk
  /\ PlaceIds \in Seq(STRING)
  /\ \A dir \in {Home, Store, Cwd} : dir \in Paths /\ IsAbs(dir)
  /\ \A dir \in DOMAIN Disk \cup UNION {{Worktrees[w].data, Worktrees[w].repo} : w \in DOMAIN Worktrees} :
        dir \in Paths /\ IsAbs(dir) /\ Clean(dir) = dir
  /\ DOMAIN Worktrees \subseteq STRING
  /\ \A arg \in DOMAIN Prefixed : Prefixed[arg] \subseteq DOMAIN Worktrees
  /\ \A a \in DOMAIN PathArgs : PathArgs[a] \in Paths \ {NoPath}
  /\ \A file \in {Bundled} \cup Globals \cup Projects \cup AtPaths :
        \A n \in DOMAIN file.recipes : Bootable(file.recipes[n])
  /\ \A req \in Requests : IsRequest(req)

VARIABLES
  files,   \* the layers on disk: "global", "project", "at"
  disk,    \* the host's files: path -> "dir" | "file" | "socket" | "repo" | "bare"
  boot,    \* how far the boot is and what it knows
  done     \* what it changed: the name claimed, the places made, the image, the box

vars == <<files, disk, boot, done>>

NoBox == [up |-> FALSE]

Init ==
  /\ files \in [global : Globals, project : Projects, at : AtPaths]
  /\ disk = Disk
  /\ boot = [step |-> "idle"]
  /\ done = [claimed |-> FALSE, places |-> << >>, image |-> FALSE, box |-> NoBox]

\* The boot at another step, knowing more.
At(step, known) == Over(known, [boot EXCEPT !.step = step])

Goes(step, known) ==
  /\ boot' = At(step, known)
  /\ UNCHANGED <<files, disk, done>>

\* The boot ends with a refusal, what it changed so far staying.
Refuse(why) == Goes("refused", [why |-> why])

(***************************************************************************)
(* The registry and the recipe asked for.                                  *)
(***************************************************************************)
Layers == <<[origin |-> "bundled", file |-> Bundled],
            [origin |-> "global",  file |-> files.global],
            [origin |-> "project", file |-> files.project]>>

LoadRegistry(parsed) == Merge(Merge(parsed[1].reg, parsed[2].reg), parsed[3].reg)

\* For each name, the layer marked as the one that defined it.
Marks ==
  LET of(layer) == [n \in DOMAIN layer.file.recipes |-> layer.origin]
  IN Over(of(Layers[3]), Over(of(Layers[2]), of(Layers[1])))

\* A request is made; a caller of Boot brings its own recipe, any other has
\* the layers read, and one that is malformed refuses them all.
Ask ==
  /\ boot.step = "idle"
  /\ \E req \in Requests :
       IF req.form = "go"
       THEN /\ boot' = IF Boxless(req.rec) \/ ~Validate(req.rec)
                       THEN [step |-> "refused", req |-> req, why |-> "invalid"]
                       ELSE [step |-> "asked", req |-> req, name |-> req.arg, rec |-> req.rec,
                             dir |-> NoPath]
            /\ UNCHANGED <<files, disk, done>>
       ELSE \E parsed \in {[i \in DOMAIN Layers |-> Parse(Layers[i].file)]} :
              /\ boot' = IF \E i \in DOMAIN parsed : ~parsed[i].ok
                         THEN [step |-> "refused", req |-> req, why |-> "parse"]
                         ELSE [step |-> "loaded", req |-> req, reg |-> LoadRegistry(parsed),
                               origins |-> Marks]
              /\ UNCHANGED <<files, disk, done>>

\* A file loaded by its path is anchored on its own directory.
RebaseImagePaths(rec, dir) ==
  IF rec.image.dockerfile = NoPath THEN rec
  ELSE LET at(p) == IF IsAbs(p) THEN p ELSE Join(dir, p)
           ctx   == IF rec.image.context = NoPath THEN Front(rec.image.dockerfile)
                    ELSE rec.image.context
       IN [rec EXCEPT !.image.dockerfile = at(@), !.image.context = at(ctx)]

RebaseSourcePaths(rec, dir) ==
  LET at(p)    == IF IsHostRelative(p) THEN Join(dir, p) ELSE p
      again(s) == [k \in DOMAIN s.origins |-> IF k = "mkmount" THEN s.origins[k] ELSE at(s.origins[k])]
      chain    == rec.egress.chain
  IN [rec EXCEPT
        !.sources = [i \in DOMAIN rec.sources |->
                       [rec.sources[i] EXCEPT !.origins = again(rec.sources[i])]],
        !.egress = [rec.egress EXCEPT
                      !.chain = [i \in DOMAIN chain |-> [chain[i] EXCEPT !.module = at(chain[i].module)]]]]

Rebased(reg, dir) ==
  [reg EXCEPT !.recipes = [n \in DOMAIN @ |->
                             RebaseSourcePaths(RebaseImagePaths(@[n], dir), dir)]]

\* Registry.Get, of a registry whose recipes are anchored on dir
Get(reg, name, dir) ==
  IF name \notin DOMAIN reg.recipes THEN Refuse("no such recipe")
  ELSE Goes("asked", [name |-> name, rec |-> reg.recipes[name], dir |-> dir])

\* A file loaded by its path is merged over the layers; its default, or the
\* one recipe it holds, is meant.
GetAt(reg, parsed, dir) ==
  LET names == DOMAIN parsed.recipes
  IN IF parsed.default # "" THEN Get(Merge(reg, parsed), parsed.default, dir)
     ELSE IF \E n \in names : names = {n}
     THEN Get(Merge(reg, parsed), CHOOSE n \in names : TRUE, dir)
     ELSE Refuse("no default")

ResolveRecipe(reg, arg) ==
  IF arg = "" /\ reg.default = "" THEN Refuse("no default")
  ELSE IF arg = "" THEN Get(reg, reg.default, NoPath)
  ELSE IF arg \notin DOMAIN PathArgs THEN Get(reg, arg, NoPath)
  ELSE IF files.at = NoFile THEN Refuse("no file")
  ELSE \E parsed \in {Parse(files.at)} :
         IF ~parsed.ok THEN Refuse("parse")
         ELSE GetAt(reg, Rebased(parsed.reg, PathArgs[arg]), PathArgs[arg])

\* Which recipe a request is for.  A name in the registry comes before the
\* shape of a path, but not where --no-command or --detach resolves it.
Dispatch ==
  /\ boot.step = "loaded"
  /\ LET reg  == boot.reg
         form == boot.req.form
         arg  == boot.req.arg
     IN CASE form = "named" \/ (form = "args" /\ arg \in DOMAIN reg.recipes) ->
                 Get(reg, arg, NoPath)
          [] form = "default" -> Get(reg, IF reg.default = "" THEN "sh" ELSE reg.default, NoPath)
          [] OTHER -> ResolveRecipe(reg, arg)

(***************************************************************************)
(* Paths on the host and in the box.                                       *)
(***************************************************************************)
Space(id, space) == Store \o <<"nodes", id, space>>
NodeVars(id) ==
  [v \in {"$NODE_VOLUME", "$NODE_HELD", "$NODE_EPHEMERAL", "$NODE_TMP"} |->
     Space(id, CASE v = "$NODE_VOLUME" -> "volume" [] v = "$NODE_TMP" -> "tmp" [] OTHER -> "held")]
ParentVars(id) ==
  [v \in {"$PARENT_VOLUME", "$PARENT_HELD", "$PARENT_EPHEMERAL", "$PARENT_TMP"} |->
     Space(id, CASE v = "$PARENT_VOLUME" -> "volume" [] v = "$PARENT_TMP" -> "tmp"
                 [] OTHER -> "held")]

AbsPath(p) == IF IsAbs(p) THEN p ELSE Join(Cwd, p)

\* Mutant: a ".." may climb out of the space a path names.
ExpandAnywhere(p, own) ==
  IF Head(p) \in DOMAIN own THEN [ok |-> TRUE, path |-> Clean(own[Head(p)] \o Tail(p))]
  ELSE IF Head(p) = "~" THEN [ok |-> TRUE, path |-> Clean(Home \o Tail(p))]
  ELSE IF Head(p) \in {"/", "."} THEN [ok |-> TRUE, path |-> Clean(p)]
  ELSE IF Head(p) \in DOMAIN Env THEN [ok |-> TRUE, path |-> Clean(Env[Head(p)] \o Tail(p))]
  ELSE [ok |-> FALSE, path |-> NoPath]

\* expandPathWith: a variable of dabs's own, then one of the environment; a
\* path that names a space stays in it.
Expand(p, own) ==
  IF Head(p) \in DOMAIN own
  THEN LET to == Clean(own[Head(p)] \o Tail(p))
       IN [ok |-> WithinRoot(own[Head(p)], to), path |-> to]
  ELSE IF Head(p) = "~" THEN [ok |-> TRUE, path |-> Clean(Home \o Tail(p))]
  ELSE IF Head(p) \in {"/", "."} THEN [ok |-> TRUE, path |-> Clean(p)]
  ELSE IF Head(p) \in DOMAIN Env THEN [ok |-> TRUE, path |-> Clean(Env[Head(p)] \o Tail(p))]
  ELSE [ok |-> FALSE, path |-> NoPath]

\* expandBoxPath: the id of the box, the one variable a box path may name.
ExpandBoxPath(p, id) == [i \in DOMAIN p |-> IF p[i] = "$NODE_ID" THEN id ELSE p[i]]

SpaceVarNames == DOMAIN NodeVars("") \cup DOMAIN ParentVars("")
CheckBoxPath(p) ==
  p # NoPath => IsAbs(p) /\ ~HasDotDot(p) /\ Range(p) \cap SpaceVarNames = {}

Overlapped(p) == \E res \in ReservedBoxPaths : OverlapsPath(p, res)

(***************************************************************************)
(* The checks before anything happens.                                     *)
(***************************************************************************)
CheckSources(rec) ==
  LET formed == {i \in DOMAIN rec.sources : Kind(rec.sources[i]) # "malformed"}
      places == {i \in formed : MakesPlace(Kind(rec.sources[i]))}
  IN /\ \A i \in formed :
          /\ ~(IsHostRelative(Origin(rec.sources[i])) /\ EscapesRoot(Origin(rec.sources[i])))
          /\ ~Boxless(rec) => CheckBoxPath(rec.sources[i].path)
     /\ ~Boxless(rec) => \A i, j \in places : i = j

CheckSockets(rec) ==
  \A i \in DOMAIN rec.sockets :
    CheckBoxPath(rec.sockets[i].path) /\ ~Overlapped(rec.sockets[i].path)

ResolveOrigins(rec) ==
  LET at(p)    == IF IsHostRelative(p) THEN Join(Cwd, p) ELSE p
      again(s) == [k \in DOMAIN s.origins |-> at(s.origins[k])]
  IN [rec EXCEPT !.sources = [i \in DOMAIN rec.sources |->
                                [rec.sources[i] EXCEPT !.origins = again(rec.sources[i])]]]

Running == boot.req.form \in {"named", "default", "args"}
Detaching == boot.req.form = "boot" /\ boot.req.detach

\* The specs are checked, a detached command has a box and a command, and the
\* relative origins are anchored, except for a caller of Boot.
Check ==
  /\ boot.step = "asked"
  /\ IF \/ ~CheckSources(boot.rec)
        \/ ~CheckSockets(boot.rec)
        \/ Detaching /\ (Boxless(boot.rec) \/ ~boot.rec.command)
        \/ Running /\ ~Boxless(boot.rec) /\ ~boot.rec.command
     THEN Refuse("checks")
     ELSE Goes(IF Boxless(boot.rec) THEN "boxless" ELSE "checked",
               [rec |-> IF boot.req.form = "go" THEN boot.rec ELSE ResolveOrigins(boot.rec)])

\* resolveOwningWorktree: the checkout dabs runs in, if it is one of its own.
Owning == LET around == {w \in DOMAIN Worktrees : WithinRoot(Worktrees[w].data, Cwd)}
          IN IF WithinRoot(Store, Cwd) /\ around # {} THEN CHOOSE w \in around : TRUE ELSE ""

\* resolveWorktreeArg: an id is itself, a prefix of one id is that id.
ResolveWorktreeArg(arg) ==
  IF arg \in DOMAIN Worktrees THEN [ok |-> TRUE, id |-> arg]
  ELSE LET hits == IF arg \in DOMAIN Prefixed THEN Prefixed[arg] ELSE {}
       IN IF \E w \in hits : hits = {w} THEN [ok |-> TRUE, id |-> CHOOSE w \in hits : TRUE]
          ELSE [ok |-> FALSE, id |-> ""]

ChooseWorktree ==
  /\ boot.step = "checked"
  /\ LET asked == IF boot.req.form = "default" THEN "" ELSE boot.req.worktree
         arg   == IF asked = "" THEN Owning ELSE asked
         got   == ResolveWorktreeArg(arg)
     IN IF arg # "" /\ ~got.ok THEN Refuse("worktree")
        ELSE Goes("chosen", [worktree |-> IF arg = "" THEN "" ELSE got.id])

\* The look before running: the default recipe, or an appended command.
MustConfirm ==
  boot.req.form = "default" \/ (boot.req.form = "args" /\ boot.req.extra)

Confirm ==
  /\ boot.step = "chosen"
  /\ \/ MustConfirm /\ Refuse("aborted")
     \/ Goes("confirmed", << >>)

(***************************************************************************)
(* Binding onto an existing worktree.                                      *)
(***************************************************************************)
Mounted(host, path, ro) == [origins |-> From("mount", host), at |-> NoPath, path |-> path, ro |-> ro]
Copied(host, path) == [origins |-> From("copy", host), at |-> NoPath, path |-> path, ro |-> FALSE]
GitDir(repo) == Append(repo, ".git")

\* "yes", "no", or "error" when a live bind's origin names what is not set
CarriesTheWork(s) ==
  IF MakesPlace(Kind(s)) THEN "yes"
  ELSE IF Kind(s) # "mount" THEN "no"
  ELSE LET got == Expand(Origin(s), << >>)
       IN IF ~got.ok THEN "error" ELSE IF AbsPath(got.path) = Clean(Cwd) THEN "yes" ELSE "no"

\* The sources with those that carry the work put on the worktree, its git
\* store with the first that is mounted.
BindWorktree(in, w) ==
  LET wt    == Worktrees[w]
      store == Mounted(GitDir(wt.repo), GitDir(wt.repo), FALSE)
      live  == {i \in DOMAIN in : CarriesTheWork(in[i]) # "no" /\ Kind(in[i]) # "copy"}
      bound(i) ==
        IF i \in live
        THEN <<Mounted(wt.data, in[i].path, in[i].ro)>>
               \o (IF \E j \in live : j < i THEN << >> ELSE <<store>>)
        ELSE IF CarriesTheWork(in[i]) = "no" THEN <<in[i]>>
        ELSE <<Copied(wt.data, in[i].path)>>
  IN FlattenSeq([i \in DOMAIN in |-> bound(i)])

Bind ==
  /\ boot.step = "confirmed"
  /\ LET work == [i \in DOMAIN boot.rec.sources |->
                    IF Kind(boot.rec.sources[i]) = "malformed" THEN "error"
                    ELSE CarriesTheWork(boot.rec.sources[i])]
     IN IF boot.worktree = "" THEN Goes("bound", [sources |-> boot.rec.sources])
        ELSE IF "error" \in Range(work) \/ "yes" \notin Range(work) THEN Refuse("bind")
        ELSE Goes("bound", [sources |-> BindWorktree(boot.rec.sources, boot.worktree)])

(***************************************************************************)
(* The driver, the image and the name.                                     *)
(***************************************************************************)
Target == boot.rec.target
CheckSocketsReachable == boot.rec.sockets = << >> \/ ~Drivers[Target].server
CheckPublishReachable == ~boot.rec.publish \/ ~Drivers[Target].server
CheckDetach == Detaching => Drivers[Target].detaches

Reach ==
  /\ boot.step = "bound"
  /\ IF \/ Target \notin DOMAIN Drivers
        \/ ~CheckSocketsReachable
        \/ ~CheckPublishReachable
        \/ ~CheckDetach
     THEN Refuse("driver")
     ELSE Goes("reached", << >>)

\* preflightImage before a run's claim; resolveBuiltImage before a boot's,
\* which leaves a targeted driver's image to the driver.
ImageInReach ==
  IF Running
  THEN boot.req.node # "" /\ boot.rec.image.dockerfile = NoPath =>
         boot.rec.image.name \in Drivers[Target].images
  ELSE \/ Target # ""
       \/ (IF boot.rec.image.dockerfile = NoPath THEN boot.rec.image.name ELSE boot.name)
            \in Drivers[Target].images

\* No source is gone through yet and no place is made.
NoPlace == [next |-> 1, tip |-> "", hosts |-> << >>]

\* Mutant: the name is claimed before the image is looked for.
ClaimFirst ==
  /\ boot.step = "reached"
  /\ done' = [done EXCEPT !.claimed = boot.req.node # ""]
  /\ boot' = IF ImageInReach THEN At("claimed", NoPlace) ELSE At("refused", [why |-> "image"])
  /\ UNCHANGED <<files, disk>>

\* The name's inactive holder goes, once the image is known to be had.
Claim ==
  /\ boot.step = "reached"
  /\ IF ~ImageInReach THEN Refuse("image")
     ELSE /\ boot' = At("claimed", NoPlace)
          /\ done' = [done EXCEPT !.claimed = boot.req.node # ""]
          /\ UNCHANGED <<files, disk>>

(***************************************************************************)
(* The place a box stands on.                                              *)
(***************************************************************************)
Toplevels(host) == {p \in DOMAIN disk : disk[p] \in {"repo", "bare"} /\ WithinRoot(p, host)}
Toplevel(host) == CHOOSE p \in Toplevels(host) : \A q \in Toplevels(host) : Len(q) <= Len(p)
InARepo(host) == host \in DOMAIN disk /\ Toplevels(host) # {}
GitHasCommits(top) == disk[top] = "repo"

\* The one place of a boxless recipe bears the name asked for.
NodeId(i) == IF boot.step = "making" /\ boot.req.node # "" THEN boot.req.node ELSE PlaceIds[i]

\* placeAt: where `at:` says, else the held space.
PlaceAt(s, id, leaf) ==
  IF s.at = NoPath THEN [ok |-> TRUE, path |-> Append(NodeVars(id)["$NODE_HELD"], leaf)]
  ELSE Expand(s.at, NodeVars(id))

\* A box on a bound worktree stands on it; else the project is marked and the
\* sources are gone through.
StandOn ==
  /\ boot.step = "claimed"
  /\ IF boot.worktree # ""
     THEN Goes("placed", [tip |-> boot.worktree])
     ELSE Goes("placing", [tip |-> "project"])

\* provisionNodes: a recipe without a box is for its places alone.
Provision ==
  /\ boot.step = "boxless"
  /\ LET places == {i \in DOMAIN boot.rec.sources : MakesPlace(Kind(boot.rec.sources[i]))}
     IN IF \/ boot.req.worktree # "" /\ boot.req.form # "default"
           \/ boot.req.node # "" /\ ~\E i \in places : places = {i}
        THEN Refuse("boxless")
        ELSE /\ boot' = At("making", [next |-> 1, tip |-> "project", hosts |-> << >>,
                                       sources |-> boot.rec.sources])
             /\ done' = [done EXCEPT !.claimed = boot.req.node # ""]
             /\ UNCHANGED <<files, disk>>

Placing == boot.step \in {"placing", "making"} /\ boot.next <= Len(boot.sources)
Source == boot.sources[boot.next]
HostOf(s) == LET got == Expand(Origin(s), << >>) IN [got EXCEPT !.path = AbsPath(@)]

\* A live bind makes no place.
PassBy ==
  /\ Placing
  /\ ~MakesPlace(Kind(Source))
  /\ IF Kind(Source) = "malformed" THEN Refuse("source")
     ELSE Goes(boot.step, [next |-> boot.next + 1])

Place(kind, at, repo) ==
  [id |-> NodeId(boot.next), kind |-> kind, at |-> at, from |-> HostOf(Source).path, repo |-> repo]

\* The place is made at a path and becomes what the box stands on.
Made(kind, at, repo) ==
  /\ boot' = At(boot.step, [next |-> boot.next + 1, tip |-> NodeId(boot.next),
                            hosts |-> Over([i \in {boot.next} |-> at], boot.hosts)])
  /\ done' = [done EXCEPT !.places = Append(@, Place(kind, at, repo))]
  /\ UNCHANGED <<files, disk>>

\* Only a boxed recipe's place heeds `at:`.
Where(leaf) == IF boot.step = "placing" THEN PlaceAt(Source, NodeId(boot.next), leaf)
               ELSE PlaceAt([at |-> NoPath], NodeId(boot.next), leaf)

\* A directory is made for a place, and the place is not.
Littered(at) ==
  /\ boot' = At("refused", [why |-> "place"])
  /\ done' = [done EXCEPT !.places = Append(@, [kind |-> "litter", at |-> at])]
  /\ UNCHANGED <<files, disk>>

\* git may refuse the branch; the boxless form takes its directory back out.
CutPlace ==
  /\ Placing
  /\ Kind(Source) = "worktree"
  /\ IF \/ ~HostOf(Source).ok \/ ~Where("worktree").ok
        \/ ~InARepo(HostOf(Source).path)
        \/ ~GitHasCommits(Toplevel(HostOf(Source).path))
     THEN Refuse("place")
     ELSE \/ Made("worktree", Where("worktree").path, Toplevel(HostOf(Source).path))
          \/ boot.step = "placing" /\ Littered(Where("worktree").path)
          \/ boot.step = "making" /\ Refuse("place")

CopyPlace ==
  /\ Placing
  /\ Kind(Source) = "copy"
  /\ IF \/ ~HostOf(Source).ok \/ ~Where("work").ok
        \/ boot.step = "placing" /\ WithinRoot(HostOf(Source).path, Where("work").path)
     THEN Refuse("place")
     ELSE IF HostOf(Source).path \notin DOMAIN disk THEN Littered(Where("work").path)
     ELSE Made("workdir", Where("work").path, NoPath)

\* All the sources are gone through; a boxless boot ends here.
Placed ==
  /\ boot.step \in {"placing", "making"} /\ boot.next > Len(boot.sources)
  /\ IF boot.step = "placing" THEN Goes("placed", << >>)
     ELSE IF boot.hosts = << >> THEN Refuse("nothing")
     ELSE Goes("made", << >>)

(***************************************************************************)
(* The sources and sockets, looked at once the box has an id.              *)
(***************************************************************************)
BoxId == IF boot.req.node = "" THEN "box" ELSE boot.req.node
OwnVars == Over(NodeVars(BoxId), ParentVars(boot.tip))

\* A detached command's log is a source like any other.
WithLog == IF Detaching
           THEN Append(boot.sources, [origins |-> From("mkmount", Space(BoxId, "tmp")),
                                      at |-> NoPath, path |-> LogDir, ro |-> FALSE])
           ELSE boot.sources

Resolved(i) ==
  LET s == WithLog[i]
      x == Expand(Origin(s), OwnVars)
  IN IF i \in DOMAIN boot.hosts THEN boot.hosts[i]
     ELSE IF Kind(s) \in {"mount", "copy"} THEN AbsPath(x.path) ELSE x.path

ValidateSource(i) ==
  LET s == WithLog[i]
  IN /\ Kind(s) # "malformed" /\ ~NeedsBoxPath(s)
     /\ \/ i \in DOMAIN boot.hosts
        \/ /\ Expand(Origin(s), OwnVars).ok
           /\ Kind(s) \in {"mount", "copy"} => Resolved(i) \in DOMAIN disk

IsLive(host) == host \in DOMAIN disk /\ disk[host] = "socket"

SocketHost(s) == AbsPath(Expand(s.host, OwnVars).path)
\* Mutant: only the path as written was held to the reserved ones.
ResolveSocketAsWritten(s) ==
  /\ Expand(s.host, OwnVars).ok
  /\ ":" \notin Range(SocketHost(s))
  /\ IsLive(SocketHost(s))

ResolveSocket(s) ==
  /\ ~Overlapped(ExpandBoxPath(s.path, BoxId))
  /\ Expand(s.host, OwnVars).ok
  /\ ":" \notin Range(SocketHost(s))
  /\ IsLive(SocketHost(s))

Prepare ==
  /\ boot.step = "placed"
  /\ IF \/ \E i \in DOMAIN WithLog : ~ValidateSource(i)
        \/ \E i \in DOMAIN boot.rec.sockets : ~ResolveSocket(boot.rec.sockets[i])
     THEN Refuse("sources")
     ELSE Goes("prepared", [sources |-> WithLog,
                            resolved |-> [i \in DOMAIN WithLog |-> Resolved(i)]])

\* A run makes its image now; the build may fail.
EnsureImage ==
  /\ boot.step = "prepared"
  /\ IF ~Running THEN Goes("imaged", << >>)
     ELSE \/ Refuse("build")
          \/ /\ boot' = At("imaged", << >>)
             /\ done' = [done EXCEPT !.image = TRUE]
             /\ UNCHANGED <<files, disk>>

(***************************************************************************)
(* The box.                                                                *)
(***************************************************************************)
PathDepth(p) == IF Len(Clean(p)) = 1 THEN 1 ELSE Len(Clean(p)) - 1

\* Mutant: the mounts stay in the order the recipe lists them.
SortMountsAsListed(mounts) == mounts

\* Parents before children, those of one depth in the order they came.
SortMountsByDepth(mounts) ==
  LET before(i) == {j \in DOMAIN mounts :
                      \/ PathDepth(mounts[j].path) < PathDepth(mounts[i].path)
                      \/ PathDepth(mounts[j].path) = PathDepth(mounts[i].path) /\ j < i}
  IN [k \in DOMAIN mounts |->
        mounts[CHOOSE i \in DOMAIN mounts : Cardinality(before(i)) = k - 1]]

\* The repository a checkout's .git names.
RepoOf(at) == (CHOOSE p \in Range(done.places) : p.kind = "worktree" /\ p.at = at).repo

\* A directory cannot be made below what is none.
Obstructed(path) == \E p \in DOMAIN disk : disk[p] \in {"file", "socket"} /\ WithinRoot(p, path)

\* The sources become mounts one after the other, up to one that cannot: the
\* directories a recipe wants are made, a checkout's repository is looked for.
MakeMounts ==
  /\ boot.step = "imaged"
  /\ LET of(kind) == {i \in DOMAIN boot.sources : Kind(boot.sources[i]) = kind}
         failed == {i \in of("mkmount") : Obstructed(boot.resolved[i])}
                     \cup {i \in of("worktree") : RepoOf(boot.resolved[i]) \notin DOMAIN disk}
         made   == {i \in of("mkmount") : \A j \in failed : i < j}
     IN /\ disk' = Over(disk, [p \in {boot.resolved[i] : i \in made} |-> "dir"])
        /\ boot' = IF failed = {} THEN At("mounted", << >>) ELSE At("refused", [why |-> "mounts"])
        /\ UNCHANGED <<files, done>>

\* One source's mounts: a checkout cut here brings its repo's store along.
MountsOf(i) ==
  LET s    == boot.sources[i]
      bind == [host |-> boot.resolved[i], path |-> ExpandBoxPath(s.path, BoxId), ro |-> s.ro]
      store(p) == [host |-> GitDir(p), path |-> GitDir(p), ro |-> FALSE]
  IN IF Kind(s) = "worktree" THEN <<bind, store(RepoOf(boot.resolved[i]))>> ELSE <<bind>>

Mounts ==
  FlattenSeq([i \in DOMAIN boot.sources |-> MountsOf(i)])
    \o (IF EgressMode(boot.rec.egress) = "proxy"
        THEN <<[host |-> Append(Home, "ca"), path |-> CABoxDir, ro |-> TRUE]>> ELSE << >>)

\* The listeners the relay owns, and the door of a box with a crossing.
Carried ==
  [i \in DOMAIN boot.rec.sockets |->
     [dial |-> SocketHost(boot.rec.sockets[i]),
      path |-> ExpandBoxPath(boot.rec.sockets[i].path, BoxId)]]
Door == IF boot.rec.publish \/ EgressMode(boot.rec.egress) = "proxy"
        THEN <<[dial |-> NoPath, path |-> DoorPath]>> ELSE << >>

\* The copy of the recipe a node keeps, made by writing it and reading it.
SnapshotRecipe(rec) == RecipeOf(RecipeDoc(rec)).rec

BuildBox ==
  /\ boot.step = "mounted"
  /\ IF \E i \in DOMAIN Carried : ~IsLive(Carried[i].dial) THEN Refuse("socket")
     ELSE /\ boot' = At("up", << >>)
          /\ done' = [done EXCEPT !.box =
                        [up |-> TRUE, id |-> BoxId, parent |-> boot.tip,
                         mounts |-> SortMountsByDepth(Mounts), sockets |-> Carried \o Door,
                         spec |-> SnapshotRecipe(boot.rec)]]
          /\ UNCHANGED <<files, disk>>

(***************************************************************************)
(* The host's own files: a listener ends, a directory appears.             *)
(***************************************************************************)
Booting == boot.step \notin {"idle", "refused", "made", "up"}

Comes(p) == p \in Fickle \ DOMAIN disk /\ disk' = Over(disk, [q \in {p} |-> Disk[p]])
Leaves(p) == p \in Fickle \cap DOMAIN disk /\ disk' = [q \in DOMAIN disk \ {p} |-> disk[q]]

HostMoves ==
  /\ Booting
  /\ \E p \in Fickle : Comes(p) \/ Leaves(p)
  /\ UNCHANGED <<files, boot, done>>

Next ==
  \/ Ask \/ Dispatch \/ Check \/ ChooseWorktree \/ Confirm \/ Bind \/ Reach \/ Claim
  \/ StandOn \/ Provision \/ PassBy \/ CutPlace \/ CopyPlace \/ Placed
  \/ Prepare \/ EnsureImage \/ MakeMounts \/ BuildBox \/ HostMoves

Spec == Init /\ [][Next]_vars

----------------------------------------------------------------------------
Steps == {"idle", "loaded", "asked", "checked", "chosen", "confirmed", "bound", "reached", "claimed",
          "boxless", "placing", "making", "made", "placed", "prepared", "imaged",
          "mounted", "up", "refused"}

\* A boot is at one of its steps, and a box stands just when it is up.
BootTypeOK ==
  /\ boot.step \in Steps
  /\ done.box.up <=> boot.step = "up"
  /\ DOMAIN disk \subseteq DOMAIN Disk \cup {boot.resolved[i] : i \in
        IF "resolved" \in DOMAIN boot THEN DOMAIN boot.resolved ELSE {}}

\* What does not depend on the host's files is refused before the name is
\* claimed, a place is cut or an image is built (checkSources, checkSockets,
\* bindWorktree, the driver's reach, the image check: recipe.go:100-190,
\* up.go:25-150).
RefusedIsFree ==
  boot.step = "refused"
    /\ boot.why \in {"no such recipe", "no default", "no file", "parse", "invalid", "checks",
                     "worktree", "aborted", "bind", "driver", "image", "boxless"}
  => ~done.claimed /\ done.places = << >> /\ ~done.image /\ ~done.box.up

\* Among a box's mounts a later one never covers an earlier one: a nested
\* mount lands on top whatever order the recipe lists them in, and no two are
\* at one path (sortMountsByDepth, Validate, bindWorktree's one git store).
NothingIsMasked ==
  done.box.up =>
    \A i, j \in DOMAIN done.box.mounts :
      i < j => ~WithinRoot(done.box.mounts[j].path, done.box.mounts[i].path)

\* Every socket of a standing box leads to a listener that was there when the
\* relay was put before it, and none but the door is at a path dabs binds,
\* with the box's id spelled out too (resolveSockets, buildBox).
SocketsStandClear ==
  done.box.up =>
    \A i \in DOMAIN done.box.sockets :
      LET s == done.box.sockets[i]
      IN s.dial # NoPath => IsLive(s.dial) /\ ~Overlapped(s.path)

\* What a source names in a space of the box's node or of its parent is in
\* that space on the host, however many ".." it was written with
\* (expandPathWith).
SpacesHold ==
  done.box.up =>
    \A i \in DOMAIN boot.sources :
      LET p == IF i \in DOMAIN boot.hosts THEN boot.sources[i].at ELSE Origin(boot.sources[i])
          own == IF i \in DOMAIN boot.hosts THEN NodeVars(boot.tip) ELSE OwnVars
      IN p # NoPath /\ Head(p) \in DOMAIN own => WithinRoot(own[Head(p)], boot.resolved[i])

\* A box stands on the place it was given: the one its recipe makes or the
\* worktree it was bound to is its parent and is mounted in it, a live
\* checkout together with its repository's store (provisionPlaces,
\* bindWorktree, buildBox).
StandsOnItsPlace ==
  LET box   == done.box
      hosts == {m.host : m \in Range(box.mounts)}
      store(p) == \E m \in Range(box.mounts) : m.host = GitDir(p) /\ m.path = GitDir(p)
      copies == \E s \in Range(boot.sources) : Kind(s) = "copy"
  IN box.up =>
       CASE boot.worktree # "" ->
              /\ box.parent = boot.worktree
              /\ Worktrees[boot.worktree].data \in hosts
              /\ copies \/ store(Worktrees[boot.worktree].repo)
         [] boot.worktree = "" /\ done.places # << >> ->
              LET place == Last(done.places)
              IN /\ box.parent = place.id
                 /\ place.at \in hosts
                 /\ place.kind = "worktree" => store(place.repo)
         [] OTHER -> box.parent = "project"

\* The chain of a recipe that gets past the gate opens the plaintext window
\* at most once and closes it: modules stand before it, in it and after it
\* (validateProxies).
WindowIsClosed ==
  boot.step = "asked" =>
    LET c == boot.rec.egress.chain
        modules(a, b) == \A k \in a..b : IsModule(c[k]) /\ ~IsTLS(c[k])
    IN \/ modules(1, Len(c))
       \/ \E i, j \in DOMAIN c :
            /\ i < j /\ c[i].tls = "terminate" /\ c[j].tls = "originate"
            /\ modules(1, i - 1) /\ modules(i + 1, j - 1) /\ modules(j + 1, Len(c))

\* A recipe is marked with the layer whose definition of it is the one that
\* runs: the project's before the user's before the bundled one
\* (loadRegistryOrigins, Merge).
OriginIsTheWinner ==
  boot.step = "loaded" =>
    \A n \in DOMAIN boot.reg.recipes :
      \E i \in DOMAIN Layers :
        /\ n \in DOMAIN Layers[i].file.recipes
        /\ \A j \in DOMAIN Layers : j > i => n \notin DOMAIN Layers[j].file.recipes
        /\ boot.reg.recipes[n] = Parse(Layers[i].file).reg.recipes[n]
        /\ boot.origins[n] = Layers[i].origin

\* A recipe loaded by its file's path is anchored on that file's directory,
\* wherever dabs runs (rebaseSourcePaths): what it mounts, copies and cuts.
AnchoredOnItsFile ==
  boot.step \in {"checked", "boxless"} /\ boot.dir # NoPath =>
    \A i \in DOMAIN boot.rec.sources :
      LET was == files.at.recipes[boot.name].sources[i]
          now == boot.rec.sources[i]
      IN Kind(was) \in {"mount", "copy", "worktree"} /\ IsHostRelative(Origin(was))
           => Origin(now) = AbsPath(Join(boot.dir, Origin(was)))

(***************************************************************************)
(* What the repository says and the code does not keep.                    *)
(***************************************************************************)
\* "copy | a snapshot taken at box start | untouched" (README.md:221): what a
\* copy: source names is not what the box mounts.
CopyLeavesItsOrigin ==
  done.box.up =>
    \A i \in DOMAIN boot.sources :
      Kind(boot.sources[i]) = "copy" =>
        \A m \in Range(done.box.mounts) :
          m.host # AbsPath(Expand(Origin(boot.sources[i]), OwnVars).path)

\* "renders egress symmetrically with UnmarshalJSON, so a resolved recipe
\* round-trips through JSON" (core/recipe/recipe.go:110-112).
RecipeRoundTrips ==
  done.box.up => done.box.spec.egress.chain = boot.rec.egress.chain

\* "the claim runs after it and every other name-independent refusal, so a
\* boot refused for those reasons has not touched the name's holder"
\* (up.go:138-140): of one recipe on one host's files.
ClaimIsLast ==
  boot.step = "refused" /\ boot.why = "sources" /\ disk = Disk => ~done.claimed

\* "The other sources (a login dir, a skill) pass through untouched."
\* (recipe.go:1798): a source that is none of the work does not keep a recipe
\* from being bound.
OthersPassThrough ==
  boot.step = "refused" /\ boot.why = "bind" =>
    ~\E s \in Range(boot.rec.sources) : Kind(s) # "malformed" /\ CarriesTheWork(s) = "yes"
=============================================================================
