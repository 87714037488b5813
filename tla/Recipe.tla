------------------------------- MODULE Recipe -------------------------------
(***************************************************************************)
(* A recipe as core/recipe reads it from a file, judges it and writes it   *)
(* back.  Pure definitions: what a file says is a document, and Parse      *)
(* turns it into a registry or refuses it.                                 *)
(*                                                                         *)
(* A path is the sequence of its segments after a head that says where it  *)
(* starts: "/" the root, "." a relative path, "~" the home, "$NAME" a      *)
(* variable; << >> is the empty string.  A value the code only carries     *)
(* (an env value, a command, a module's setting) is left out; that some    *)
(* such value holds a control character is the field "control".            *)
(***************************************************************************)
EXTENDS Naturals, SequencesExt

\* One function laid over another, which says the rest.
Over(f, g) == [x \in DOMAIN f \cup DOMAIN g |-> IF x \in DOMAIN f THEN f[x] ELSE g[x]]

(***************************************************************************)
(* Paths.                                                                  *)
(***************************************************************************)
Paths == Seq(STRING)
NoPath == << >>
IsAbs(p) == p # NoPath /\ Head(p) = "/"

\* A segment followed from a directory: a ".." takes back the segment before
\* it; above the root there is nothing to take back, and above "." it stays.
Follow(dir, seg) ==
  IF seg # ".." THEN Append(dir, seg)
  ELSE IF Len(dir) > 1 /\ Last(dir) # ".." THEN Front(dir)
  ELSE IF IsAbs(dir) THEN dir
  ELSE Append(dir, seg)

\* filepath.Clean: the segments followed one after the other.
Clean(p) ==
  LET upTo[i \in DOMAIN p] == IF i = 1 THEN << p[1] >> ELSE Follow(upTo[i - 1], p[i])
  IN IF p = NoPath THEN NoPath ELSE upTo[Len(p)]

WithinRoot(root, target) == IsPrefix(Clean(root), Clean(target))
OverlapsPath(a, b) == WithinRoot(a, b) \/ WithinRoot(b, a)
HasDotDot(p) == ".." \in Range(p)
EscapesRoot(p) == LET c == Clean(p) IN Len(c) > 1 /\ c[2] = ".."
IsHostRelative(p) == p # NoPath /\ Head(p) = "."
Join(dir, p) == Clean(dir \o Tail(p))

(***************************************************************************)
(* Sources, sockets and images.  A source says its origin under one or     *)
(* more kinds; just one is well formed.                                    *)
(***************************************************************************)
Kinds == {"mount", "mkmount", "worktree", "copy"}
Sources == [origins : [Kinds -> Paths], at : Paths, path : Paths, ro : BOOLEAN]
From(kind, origin) == [k \in Kinds |-> IF k = kind THEN origin ELSE NoPath]
Sockets == [host : Paths, path : Paths]
Kind(s) == LET set == {k \in Kinds : s.origins[k] # NoPath}
           IN IF \E k \in set : set = {k} THEN CHOOSE k \in set : TRUE ELSE "malformed"
Origin(s) == s.origins[Kind(s)]
NeedsBoxPath(s) == s.path = NoPath
MakesPlace(kind) == kind \in {"worktree", "copy"}

NoImage == [name |-> "", dockerfile |-> NoPath, context |-> NoPath]
Boxless(rec) == rec.image.name = "" /\ rec.image.dockerfile = NoPath

\* An image is written as a name, or as a mapping.
ImageOf(doc) == IF doc.scalar THEN [NoImage EXCEPT !.name = doc.image.name] ELSE doc.image

(***************************************************************************)
(* A hop of the HTTP chain.  Its document is the set of the paths of keys  *)
(* it holds, with the values of those a tls directive takes.  A module's   *)
(* configuration is every key but "module", a set of paths of keys too.    *)
(***************************************************************************)
NoHop == [tls |-> "", domains |-> << >>, fail_open |-> FALSE, module |-> NoPath, config |-> {}]
Keys(doc) == {Head(k) : k \in doc.keys}
IsTLS(h) == h.tls # ""
IsModule(h) == h.module # NoPath

HopOf(doc) ==
  CASE "tls" \in Keys(doc) ->
         [ok  |-> /\ doc.tls # "not text"
                  /\ Keys(doc) \subseteq {"tls", "domains", "fail_open"}
                  /\ doc.tls # "terminate" => doc.domains = << >> /\ ~doc.fail_open,
          hop |-> [NoHop EXCEPT !.tls = doc.tls, !.domains = doc.domains,
                                !.fail_open = doc.fail_open]]
    [] "tls" \notin Keys(doc) /\ "module" \in Keys(doc) ->
         [ok  |-> doc.module # <<"not text">>,
          hop |-> [NoHop EXCEPT !.module = doc.module,
                                !.config = {k \in doc.keys : Head(k) # "module"}]]
    [] OTHER -> [ok |-> FALSE, hop |-> NoHop]

\* What encoding/json writes of a hop: each field under its own key, the
\* configuration under "config", what is empty left out.
HopDoc(h) ==
  [tls |-> h.tls, domains |-> h.domains, fail_open |-> h.fail_open, module |-> h.module,
   keys |-> UNION { IF IsTLS(h) THEN {<<"tls">>} ELSE {},
                    IF h.domains # << >> THEN {<<"domains">>} ELSE {},
                    IF h.fail_open THEN {<<"fail_open">>} ELSE {},
                    IF IsModule(h) THEN {<<"module">>} ELSE {},
                    {<<"config">> \o k : k \in h.config} }]

(***************************************************************************)
(* Egress: a mode, or a mapping with allow, deny and http_proxy.  A list   *)
(* of patterns is absent, null, a comma-separated text or a list; only a   *)
(* text is trimmed of its empty items.                                     *)
(***************************************************************************)
NoEgress == [mode |-> "", allow |-> << >>, deny |-> << >>, chain |-> << >>]
EgressMode(e) == IF e.mode = "" THEN "open" ELSE e.mode
Bare(e) == e.allow = << >> /\ e.deny = << >> /\ e.chain = << >>

ToPatternList(doc) ==
  CASE doc.form \in {"absent", "null"} -> [ok |-> TRUE, list |-> << >>]
    [] doc.form = "text"  -> [ok |-> TRUE, list |-> SelectSeq(doc.items, LAMBDA p : p # "")]
    [] doc.form = "list"  -> [ok |-> "not text" \notin Range(doc.items), list |-> doc.items]
    [] OTHER -> [ok |-> FALSE, list |-> << >>]

CheckEgressMapKeys(doc) ==
  /\ doc.keys # {}
  /\ doc.keys \subseteq {"allow", "deny", "http_proxy"}

\* setMapping, and the two Unmarshal that end in it
Mapping(doc, al, dl, hops) ==
  [ok     |-> /\ CheckEgressMapKeys(doc)
              /\ \A i \in DOMAIN hops : hops[i].ok
              /\ al.ok
              /\ dl.ok,
   egress |-> [mode |-> "proxy", allow |-> al.list, deny |-> dl.list,
               chain |-> [i \in DOMAIN hops |-> hops[i].hop]]]

EgressOf(doc) ==
  IF doc.scalar THEN [ok |-> TRUE, egress |-> [NoEgress EXCEPT !.mode = doc.mode]]
  ELSE Mapping(doc, ToPatternList(doc.allow), ToPatternList(doc.deny),
               [i \in DOMAIN doc.chain |-> HopOf(doc.chain[i])])

\* MarshalJSON and, through it, MarshalYAML
EgressDoc(e) ==
  LET list(items) == [form |-> IF items = << >> THEN "absent" ELSE "list", items |-> items]
  IN [scalar |-> Bare(e),
      mode   |-> IF Bare(e) THEN EgressMode(e) ELSE "",
      keys   |-> UNION { IF e.allow # << >> THEN {"allow"} ELSE {},
                         IF e.deny # << >> THEN {"deny"} ELSE {},
                         IF e.chain # << >> THEN {"http_proxy"} ELSE {} },
      allow  |-> list(e.allow),
      deny   |-> list(e.deny),
      chain  |-> [i \in DOMAIN e.chain |-> HopDoc(e.chain[i])]]

(***************************************************************************)
(* The gate after parsing.                                                 *)
(***************************************************************************)
\* A pattern is "*", "*." and a name, or a name; "" and "bad" stand for the
\* texts that are none of them.
ValidatePattern(p) == p \notin {"", "bad"}

\* The scan of the chain: the plaintext window opens once and is closed.
ValidateProxies(hops) ==
  LET scan == FoldLeft(
        LAMBDA st, h :
          CASE h.tls = "terminate" -> [ok |-> st.ok /\ ~st.open /\ st.windows = 0,
                                       open |-> TRUE, windows |-> st.windows + 1]
            [] h.tls = "originate" -> [st EXCEPT !.ok = st.ok /\ st.open, !.open = FALSE]
            [] OTHER -> [st EXCEPT !.ok = st.ok /\ ~IsTLS(h) /\ IsModule(h)],
        [ok |-> TRUE, open |-> FALSE, windows |-> 0], hops)
  IN scan.ok /\ ~scan.open

ValidateEgress(e) ==
  \/ e.mode \in {"", "open", "none"}
  \/ /\ e.mode = "proxy"
     /\ e.allow = << >> \/ e.deny = << >>
     /\ ~Bare(e)
     /\ \A p \in Range(e.allow) \cup Range(e.deny) : ValidatePattern(p)
     /\ ValidateProxies(e.chain)

\* No two of the things a recipe attaches are written at one box path.
DistinctPaths(rec) ==
  LET written == SelectSeq([i \in DOMAIN rec.sources |-> Clean(rec.sources[i].path)]
                             \o [i \in DOMAIN rec.sockets |-> Clean(rec.sockets[i].path)],
                           LAMBDA p : p # NoPath)
  IN IsInjective(written)

ValidateSockets(rec) ==
  /\ \A i \in DOMAIN rec.sockets :
       /\ rec.sockets[i].host # NoPath /\ rec.sockets[i].path # NoPath
       /\ ":" \notin Range(rec.sockets[i].host) \cup Range(rec.sockets[i].path)
  /\ rec.sockets # << >> => ~Boxless(rec)

ValidatePublish(rec) == rec.publish => ~Boxless(rec)
ValidateUser(rec) == rec.user \in {"", "numeric"}

Validate(rec) ==
  /\ ~rec.control
  /\ DistinctPaths(rec)
  /\ ValidateSockets(rec)
  /\ ValidatePublish(rec)
  /\ ValidateUser(rec)
  /\ ValidateEgress(rec.egress)

(***************************************************************************)
(* Recipes and registries.                                                 *)
(***************************************************************************)
Decoded(doc, got) == [ok  |-> got.ok,
                      rec |-> [doc EXCEPT !.egress = got.egress, !.image = ImageOf(doc.image)]]
RecipeOf(doc) == Decoded(doc, EgressOf(doc.egress))
RecipeDoc(rec) == [rec EXCEPT !.egress = EgressDoc(rec.egress),
                              !.image = [scalar |-> FALSE, image |-> rec.image]]

Fields == {"image", "command", "sources", "sockets", "target", "keep", "publish", "egress",
           "user", "control"}
IsRecipe(rec) == DOMAIN rec = Fields /\ rec.sources \in Seq(Sources) /\ rec.sockets \in Seq(Sockets)

\* A file with a name that is no plain text, a key the types do not have, or
\* a recipe the gate refuses is refused whole.
Gate(file, of) ==
  [ok  |-> /\ ~file.oddKeys
           /\ \A n \in DOMAIN of : of[n].ok /\ Validate(of[n].rec),
   reg |-> [recipes |-> [n \in DOMAIN of |-> of[n].rec], default |-> file.default]]

Parse(file) == Gate(file, [n \in DOMAIN file.recipes |-> RecipeOf(file.recipes[n])])

\* Registry.Merge, as a value
Merge(reg, other) ==
  [recipes |-> Over(other.recipes, reg.recipes),
   default |-> IF other.default # "" THEN other.default ELSE reg.default]
=============================================================================
