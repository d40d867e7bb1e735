-------------------------- MODULE MCServerLifecycle --------------------------
(* ServerLifecycle on a few runs and callers. *)
EXTENDS ServerLifecycle

CONSTANTS h1, g1

\* A /stop beside the caller of Stop, or /restarts.
Requests == {{h1}, {g1}}
===============================================================================
