------------------------------ MODULE MCNodeStore ------------------------------
(* NodeStore for TLC: the box b2 runs on a server. *)
EXTENDS NodeStore, TLC

MCSection == [b \in Boxes |-> IF ToString(b) = "b2" THEN "server" ELSE "local"]
MCWritten == {<<b, "held">> : b \in {c \in Boxes : ToString(c) = "b1"}}
MCFlags == {{}}

\* What listings depend on: no guard reads the journal or `since`.
ListingView == <<recs, locked, git, layout, files, running, boot, cmd>>
================================================================================
