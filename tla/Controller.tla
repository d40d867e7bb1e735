------------------------------ MODULE Controller ------------------------------
(***************************************************************************)
(* What runtime.Controller promises its callers (the main program and the  *)
(* companion app): runs of the server follow one another, and the channel  *)
(* done of a run is closed once, after the run has ended.                  *)
(***************************************************************************)
EXTENDS Naturals

CONSTANT None   \* no run

VARIABLES
  current,    \* the run that Status and Running report, or None
  started,    \* how many runs there have been
  closed      \* the runs whose done channel is closed

vars == <<current, started, closed>>

Init == current = None /\ started = 0 /\ closed = {}

\* Controller.Start succeeds.
StartRun ==
  /\ current = None
  /\ started' = started + 1
  /\ current' = started'
  /\ UNCHANGED closed

\* wait has stopped the servers and cleared the fields of the Controller.
EndRun ==
  /\ current # None
  /\ current' = None
  /\ UNCHANGED <<started, closed>>

\* close(done): callers blocked in Stop and Wait go on.
CloseDone(r) ==
  /\ r \in 1 .. started
  /\ r # current
  /\ r \notin closed
  /\ closed' = closed \cup {r}
  /\ UNCHANGED <<current, started>>

Next == StartRun \/ EndRun \/ \E r \in 1 .. started : CloseDone(r)

Spec == Init /\ [][Next]_vars /\ WF_vars(\E r \in 1 .. started : CloseDone(r))
===============================================================================
