----------------------------- MODULE MCCompanion -----------------------------
(* Companion with a few runs, instances, sessions and callers. *)
EXTENDS Companion

CONSTANTS c1, c2
MCStoppers == {c1, c2}

Load(r, i, k, c) == [runs |-> r, instances |-> i, sessions |-> k, stoppers |-> c]
\* Each service once, next to the others; the server and Harbrr twice; App Sync
\* three times with two callers that stop it.
MCWorkloads == {Load(1, 1, 1, {c1}), Load(2, 2, 0, {}), Load(0, 0, 3, MCStoppers)}
MCServerOnly == {Load(2, 0, 0, {})}
===============================================================================
