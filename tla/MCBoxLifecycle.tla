----------------------------- MODULE MCBoxLifecycle -----------------------------
(* BoxLifecycle for TLC: every box that needs anything needs both, since the    *)
(* proxy's crossings ride the relay's door.                                     *)
EXTENDS BoxLifecycle

BothOrNone == {{}, {"proxy", "relay"}}
================================================================================
