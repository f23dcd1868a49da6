----------------------------- MODULE MCShutdown -----------------------------
(* Two connections with a request each: one may be answered while the other is in flight. *)
EXTENDS Shutdown

CONSTANTS h1, h2
=============================================================================
