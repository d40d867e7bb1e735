------------------------ MODULE ServerLifecycleProofs ------------------------
(***************************************************************************)
(* Proofs about ServerLifecycle, for any number of runs, of callers of     *)
(* Stop, of /stop and of /restart requests.                                *)
(***************************************************************************)
EXTENDS ServerLifecycle, TLAPS

\* The Controller's fields are those of the last run that started, and its lock
\* is held over a start only while nothing runs.
ControllerOK ==
  /\ running => quit = started /\ started >= 1
  /\ mu = "start" => ~running /\ started < MaxRuns

\* A run: what has not started has nothing, its wait stops the run that the
\* Controller is in, under the lock, and closes done last.
RunOK(r) ==
  /\ r > started => listener[r] = "none" /\ serve[r] = "none" /\ waiter[r] = "none" /\ server[r] = None
  /\ waiter[r] \in {"receive", "lock", "stopping"} <=> quit = r
  /\ waiter[r] = "none" => r > started
  /\ waiter[r] = "stopping" <=> mu = "wait" /\ quit = r
  /\ r \in closed => waiter[r] = "gone"

\* A run is served with its own server or with that of a Start that failed, and
\* the latter only when its wait had closed its server before: as long as its
\* listener holds the port no other Start succeeds, and as long as it is the run
\* of the Controller none is made.
ListenerOK(r) ==
  /\ r \in shut <=> waiter[r] \in {"stopping", "unlocked", "gone"}
  /\ quit = r => httpServer = r
  /\ Bound(r) => httpServer \in {0, r}
  /\ listener[r] = "open" => serve[r] \in {"starting", "serving"}
  /\ server[r] \in {None, 0, r}
  /\ serve[r] = "starting" => listener[r] = "open"
  /\ serve[r] = "serving" => server[r] # None
  /\ serve[r] = "serving" /\ server[r] = r /\ r \in shut => listener[r] = "closed"
  /\ waiter[r] \in {"receive", "lock"} => listener[r] \in {"open", "failed"}
  /\ waiter[r] \in {"receive", "lock"} /\ serve[r] = "serving" => server[r] = r

\* StopTorrentClient is called by Start and wait under the lock.
StopsOK ==
  /\ stopping["start"] # "no" => mu = "start"
  /\ stopping["wait"] # "no" => mu = "wait"
  /\ \A h \in Restarts : stopping[h] # "no" => restart[h] = "stop"

NoRestart == \A h \in Restarts : restart[h] = "none"

\* As long as no /restart overlaps anything, an open client is the one the package
\* variable refers to, it is gone when StopTorrentClient has closed it, and none is
\* open where one is started.
ClientFacts ==
  /\ open # 0 => client = open
  /\ mu = "free" /\ ~running => open = 0
  /\ \A h \in Restarts : restart[h] = "start" => open = 0
  /\ \A x \in Closers : stopping[x] = "close" => closing[x] = client
  /\ \A x \in Closers : stopping[x] \in {"clear", "return"} => open = 0
  /\ NoRestart /\ mu = "start" /\ stopping["start"] = "no" => open # 0
  /\ NoRestart /\ running /\ mu = "free" => open # 0

ClientOK == ~raced => ~Overlap /\ ClientFacts

\* In the first run the serve goroutine has no other channel to send to than
\* that of its own run, and it sends when its listener is closed or has failed.
FirstRunOK ==
  /\ started \in {0, 1} => quitSignal \in {None, 0, started}
  /\ started = 1 /\ running => quitSignal = 1
  /\ serve[1] \in {"send", "gone"} => listener[1] # "open"
  /\ 1 \in {signal[1], cause[1]} => listener[1] # "open"
  /\ quit = 1 => {signal[1], cause[1]} \subseteq {None, User, 1}
  /\ waiter[1] = "lock" => cause[1] # None

\* Nobody holds the channel of a run that has not started.
ChannelsOK ==
  /\ quitSignal \in 0 .. started \cup {None}
  /\ \A r \in Runs : target[r] \in 0 .. started \cup {None}
  /\ \A s \in Stoppers : stopRun[s] \in 1 .. started \cup {None}
  /\ \A h \in StopReqs : stopReq[h] \in 0 .. started \cup {None}
  /\ \A r \in Runs : r > started => signal[r] = None /\ cause[r] = None

\* The inductive invariant.
IInv ==
  /\ TypeOK /\ ControllerOK
  /\ \A r \in Runs : RunOK(r) /\ ListenerOK(r)
  /\ StopsOK /\ ClientOK /\ ChannelsOK /\ FirstRunOK

-------------------------------------------------------------------------------
(* What a step preserves that leaves the variables of a conjunct alone. *)

LEMMA LockFrame ==
  ASSUME IInv, UNCHANGED <<mu, quit, started>>
  PROVE  ControllerOK'
  BY DEF IInv, ControllerOK, running

LEMMA RunFrame ==
  ASSUME IInv, UNCHANGED <<mu, quit, started, closed, httpVars, serve, server, waiter>>
  PROVE  \A r \in Runs : (RunOK(r) /\ ListenerOK(r))'
  BY DEF IInv, RunOK, ListenerOK, Bound, httpVars

LEMMA ClientFrame ==
  ASSUME IInv, Others, UNCHANGED <<mu, quit, clientVars, restart>>
  PROVE  StopsOK' /\ ClientOK'
  BY DEF IInv, StopsOK, ClientOK, ClientFacts, NoRestart, Overlap, Restarting, Others, MarksRace, running,
         clientVars, stopVars

LEMMA ChannelsFrame ==
  ASSUME IInv, UNCHANGED <<started, quitSignal, target, stopRun, stopReq, signal, cause>>
  PROVE  ChannelsOK'
  BY DEF IInv, ChannelsOK

LEMMA FirstRunFrame ==
  ASSUME IInv, UNCHANGED <<quit, started, quitSignal, serve, listener, signal, cause, waiter>>
  PROVE  FirstRunOK'
  BY DEF IInv, FirstRunOK, running

\* A /restart that is under way alone keeps everybody else from stopping a client.
LEMMA OneStops ==
  ASSUME IInv, ~raced, NEW x \in Closers, NEW y \in Closers, x # y, stopping[x] # "no"
  PROVE  stopping[y] = "no"
  BY RunsAssumption DEF IInv, StopsOK, ClientOK, Overlap, Restarting, Closers

\* What a step has to show about the client.
LEMMA ClientKeeps ==
  ASSUME IInv, Others, ~raced /\ ~Overlap /\ ~Overlap' /\ ClientFacts => ClientFacts'
  PROVE  ClientOK'
  BY DEF IInv, ClientOK, Others, MarksRace, TypeOK

LEMMA OthersKeep ==
  ASSUME IInv, Others
  PROVE  raced' \in BOOLEAN /\ workload' \in Workloads
  BY DEF IInv, TypeOK, Others, MarksRace

\* While a /restart that overlaps nothing is under way nobody else stops a client,
\* and none is while nothing runs.
LEMMA NobodyStops ==
  ASSUME IInv, ~Overlap, mu = "free" /\ ~running
  PROVE  \A x \in Closers : stopping[x] = "no"
  BY DEF IInv, StopsOK, Overlap, Restarting, Closers

LEMMA NobodyElseStops ==
  ASSUME IInv, ~Overlap, NEW h \in Restarts, Restarting(h)
  PROVE  \A x \in Closers \ {h} : stopping[x] = "no" /\ (x \in Restarts => ~Restarting(x))
  BY RunsAssumption DEF IInv, StopsOK, Overlap, Restarting, Closers

\* The run numbered 1 exists.
LEMMA FirstRun == 1 \in Runs /\ 1 \in Channels /\ 0 \in Channels /\ Runs \subseteq Channels
  BY RunsAssumption DEF Runs, Channels

LEMMA NoClient == 0 \in Clients
  BY RunsAssumption DEF Clients

USE DEF lockVars, httpVars, serverVars, stopVars, clientVars, runVars, callerVars

-------------------------------------------------------------------------------
(* Controller.Start. *)

LEMMA StartClientKeeps ==
  ASSUME IInv, Others, StartClient
  PROVE  IInv'
<1>0. raced' \in BOOLEAN /\ workload' \in Workloads
  BY OthersKeep
<1>1. TypeOK'
  BY <1>0, NoClient DEF IInv, TypeOK, StartClient, StartTorrentClient
<1>2. ControllerOK'
  BY DEF IInv, ControllerOK, StartClient, running
<1>3. \A r \in Runs : (RunOK(r) /\ ListenerOK(r))'
  BY DEF IInv, RunOK, ListenerOK, Bound, StartClient
<1>4. StopsOK'
  BY DEF IInv, StopsOK, StartClient, StartTorrentClient, stopVars
<1>7. ClientOK'
  <2> SUFFICES ASSUME ~Overlap, ClientFacts PROVE ClientFacts'
    BY ClientKeeps
  <2>1. \A x \in Closers : stopping[x] = "no"
    BY NobodyStops DEF StartClient
  <2>2. \A h \in Restarts : ~Restarting(h)
    BY DEF Overlap, StartClient
  <2> QED
    BY <2>1, <2>2 DEF ClientFacts, NoRestart, Restarting, StartClient, StartTorrentClient, stopVars, running
<1>5. FirstRunOK'
  BY FirstRunFrame DEF StartClient
<1>6. ChannelsOK'
  BY ChannelsFrame DEF StartClient
<1> QED
  BY <1>1, <1>2, <1>3, <1>4, <1>5, <1>6, <1>7 DEF IInv

LEMMA StartHttpKeeps ==
  ASSUME IInv, Others, StartHttp
  PROVE  IInv'
<1> DEFINE r == started + 1
<1>0. raced' \in BOOLEAN /\ workload' \in Workloads
  BY OthersKeep
<1>1. r \in Runs /\ started \in Nat /\ r # None
  BY RunsAssumption DEF IInv, TypeOK, ControllerOK, StartHttp, Runs
<1>2. TypeOK'
  BY <1>0, <1>1, RunsAssumption, FirstRun DEF IInv, TypeOK, StartHttp, Runs
<1>3. ControllerOK'
  BY <1>1 DEF ControllerOK, StartHttp, running
<1>4. ASSUME NEW q \in Runs PROVE (RunOK(q) /\ ListenerOK(q))'
  <2>1. quit = None /\ None \notin Runs /\ ~Bound(q)
    BY RunsAssumption DEF IInv, ControllerOK, StartHttp, running, Runs
  <2>2. RunOK(q) /\ ListenerOK(q)
    BY DEF IInv
  <2>3. CASE q = r
    <3>1. serve[q] = "none" /\ server[q] = None /\ waiter[q] = "none" /\ q \notin shut /\ q \notin closed
      BY <1>1, <2>2, <2>3 DEF RunOK, ListenerOK
    <3>2. /\ quit' = q /\ httpServer' = q /\ started' = q /\ mu' = "free"
          /\ serve'[q] = "starting" /\ waiter'[q] = "receive" /\ listener'[q] = "open"
          /\ UNCHANGED <<server, shut, closed>>
      BY <2>3 DEF IInv, TypeOK, StartHttp
    <3> QED
      BY <1>1, <2>1, <2>3, <3>1, <3>2 DEF RunOK, ListenerOK, Bound
  <2>4. CASE q # r
    <3>1. UNCHANGED <<listener[q], serve[q], waiter[q], server, shut, closed>> /\ quit' # q /\ mu' = "free"
      BY <2>4 DEF IInv, TypeOK, StartHttp
    <3>2. (q > started' => q > started) /\ (q > started => q > started')
      BY <1>1, <2>4 DEF StartHttp, Runs
    <3>3. RunOK(q)'
      BY <2>1, <2>2, <3>1, <3>2 DEF RunOK
    <3>4. ~Bound(q)'
      BY <2>1, <3>1 DEF Bound
    <3> QED
      BY <2>1, <2>2, <3>1, <3>3, <3>4 DEF ListenerOK, RunOK
  <2> QED
    BY <2>3, <2>4
<1>5. StopsOK' /\ ClientOK'
  <2>1. StopsOK'
    BY DEF IInv, StopsOK, StartHttp
  <2> SUFFICES ASSUME ~Overlap, ClientFacts PROVE ClientFacts'
    BY <2>1, ClientKeeps
  <2>2. running'
    BY <1>1 DEF StartHttp, running
  <2> QED
    BY <2>2 DEF ClientFacts, NoRestart, StartHttp
<1>6. FirstRunOK'
  <2>1. CASE started = 0
    <3>1. RunOK(1) /\ listener[1] = "none" /\ serve[1] = "none" /\ waiter[1] = "none"
      BY <2>1, FirstRun DEF IInv, RunOK
    <3>2. started' = 1 /\ quitSignal' = 1 /\ serve'[1] = "starting" /\ waiter'[1] = "receive"
      BY <2>1, FirstRun DEF IInv, TypeOK, StartHttp
    <3>3. signal'[1] = None /\ cause'[1] = None
      BY <2>1, FirstRun DEF IInv, ChannelsOK, StartHttp
    <3>4. None # 1
      BY FirstRun, RunsAssumption DEF Channels
    <3> QED
      BY <3>1, <3>2, <3>3, <3>4 DEF IInv, FirstRunOK
  <2>2. CASE started # 0
    <3>1. started' \notin {0, 1} /\ quit' # 1 /\ r # 1
      BY <1>1, <2>2 DEF StartHttp
    <3>2. UNCHANGED <<listener[1], serve[1], waiter[1], signal, cause>>
      BY <3>1, FirstRun DEF IInv, TypeOK, StartHttp
    <3> QED
      BY <3>1, <3>2 DEF IInv, FirstRunOK
  <2> QED
    BY <2>1, <2>2
<1>7. ChannelsOK'
  <2>1. 0 .. started \subseteq 0 .. started' /\ 1 .. started \subseteq 1 .. started' /\ started' \in 0 .. started'
    BY <1>1 DEF StartHttp
  <2>2. \A q \in Runs : q > started' => q > started
    BY <1>1 DEF StartHttp, Runs
  <2>3. UNCHANGED <<target, stopRun, stopReq, signal, cause>> /\ quitSignal' = started'
    BY DEF StartHttp
  <2> QED
    BY <2>1, <2>2, <2>3 DEF IInv, ChannelsOK
<1> QED
  BY <1>2, <1>3, <1>4, <1>5, <1>6, <1>7 DEF IInv

LEMMA StartHttpFailsKeeps ==
  ASSUME IInv, Others, StartHttpFails
  PROVE  IInv'
<1>0. raced' \in BOOLEAN /\ workload' \in Workloads
  BY OthersKeep
<1>1. TypeOK'
  BY <1>0, FirstRun DEF IInv, TypeOK, StartHttpFails, StopLoads
<1>2. ControllerOK'
  BY DEF IInv, ControllerOK, StartHttpFails, running
<1>3. \A r \in Runs : (RunOK(r) /\ ListenerOK(r))'
  <2>1. ~running /\ None \notin Runs
    BY RunsAssumption DEF IInv, ControllerOK, StartHttpFails, Runs
  <2> QED
    BY <2>1 DEF IInv, RunOK, ListenerOK, Bound, StartHttpFails, running
<1>4. StopsOK'
  BY RunsAssumption DEF IInv, StopsOK, StartHttpFails, StopLoads, TypeOK, Closers
<1>7. ClientOK'
  <2> SUFFICES ASSUME ~Overlap, ClientFacts PROVE ClientFacts'
    BY ClientKeeps
  <2>1. /\ stopping'["start"] \in {"close", "return"}
        /\ stopping'["start"] = "close" => closing'["start"] = client
        /\ stopping'["start"] = "return" => client = 0
        /\ \A x \in Closers \ {"start"} : stopping'[x] = stopping[x] /\ closing'[x] = closing[x]
    BY DEF IInv, TypeOK, Closers, StartHttpFails, StopLoads
  <2> QED
    BY <2>1 DEF ClientFacts, NoRestart, StartHttpFails, StopLoads, running
<1>5. FirstRunOK'
  <2>1. ~running /\ quit # 1
    BY RunsAssumption, FirstRun DEF IInv, ControllerOK, StartHttpFails, running, Channels
  <2>2. signal'[1] = signal[1]
    BY FirstRun DEF IInv, TypeOK, StartHttpFails
  <2> QED
    BY <2>1, <2>2 DEF IInv, FirstRunOK, StartHttpFails, running
<1>6. ChannelsOK'
  <2>1. \A q \in Runs : signal'[q] = signal[q]
    BY DEF IInv, TypeOK, StartHttpFails, Runs, Channels
  <2>2. quitSignal' \in 0 .. started
    BY DEF IInv, TypeOK, StartHttpFails
  <2>3. UNCHANGED <<started, target, stopRun, stopReq, cause>>
    BY DEF StartHttpFails
  <2> QED
    BY <2>1, <2>2, <2>3 DEF IInv, ChannelsOK
<1> QED
  BY <1>1, <1>2, <1>3, <1>4, <1>5, <1>6, <1>7 DEF IInv

LEMMA StartFailsKeeps ==
  ASSUME IInv, Others, StartFails
  PROVE  IInv'
<1>0. raced' \in BOOLEAN /\ workload' \in Workloads
  BY OthersKeep
<1>1. TypeOK'
  BY <1>0, NoClient DEF IInv, TypeOK, StartFails, ClientStopped
<1>2. ControllerOK' /\ ~running /\ mu = "start"
  <2>1. mu = "start"
    BY DEF IInv, StopsOK, StartFails, ClientStopped
  <2> QED
    BY <2>1 DEF IInv, ControllerOK, StartFails, running
<1>3. \A r \in Runs : (RunOK(r) /\ ListenerOK(r))'
  BY <1>2 DEF IInv, RunOK, ListenerOK, Bound, StartFails
<1>4. /\ stopping'["start"] = "no" /\ client' \in {client, 0} /\ open' = open /\ mu' = "free"
      /\ \A x \in Closers \ {"start"} : stopping'[x] = stopping[x] /\ closing'[x] = closing[x]
  BY DEF IInv, TypeOK, Closers, StartFails, ClientStopped
<1>5. StopsOK'
  BY <1>2, <1>4 DEF IInv, StopsOK, StartFails, Closers
<1>6. ClientOK'
  <2> SUFFICES ASSUME ~Overlap, ClientFacts PROVE ClientFacts'
    BY ClientKeeps
  <2>1. \A x \in Closers \ {"start"} : stopping[x] = "no"
    BY <1>2 DEF IInv, StopsOK, Overlap, Restarting, Closers
  <2>2. open = 0
    BY DEF ClientFacts, StartFails, ClientStopped, Closers
  <2> QED
    BY <1>2, <1>4, <2>1, <2>2 DEF ClientFacts, NoRestart, StartFails, running
<1>7. FirstRunOK' /\ ChannelsOK'
  BY FirstRunFrame, ChannelsFrame DEF StartFails
<1> QED
  BY <1>1, <1>2, <1>3, <1>5, <1>6, <1>7 DEF IInv

-------------------------------------------------------------------------------
(* Controller.wait. *)

LEMMA WaitReceivesKeeps ==
  ASSUME IInv, Others, NEW r \in Runs, WaitReceives(r)
  PROVE  IInv'
<1>0. raced' \in BOOLEAN /\ workload' \in Workloads
  BY OthersKeep
<1>1. TypeOK'
  BY <1>0, FirstRun DEF IInv, TypeOK, WaitReceives
<1>2. ControllerOK'
  BY LockFrame DEF WaitReceives
<1>3. \A q \in Runs : (RunOK(q) /\ ListenerOK(q))'
  BY DEF IInv, TypeOK, RunOK, ListenerOK, Bound, WaitReceives
<1>4. StopsOK' /\ ClientOK'
  BY ClientFrame DEF WaitReceives
<1>5. FirstRunOK'
  <2>1. UNCHANGED <<quit, started, quitSignal, serve, listener>> /\ None # 1
    BY FirstRun, RunsAssumption DEF WaitReceives, Channels
  <2>2. CASE r = 1
    <3>1. signal'[1] = None /\ cause'[1] = signal[1] /\ signal[1] # None
      BY <2>2, FirstRun DEF IInv, TypeOK, WaitReceives
    <3> QED
      BY <2>1, <3>1 DEF IInv, FirstRunOK, running
  <2>3. CASE r # 1
    <3>1. UNCHANGED <<signal[1], cause[1], waiter[1]>>
      BY <2>3, FirstRun DEF IInv, TypeOK, WaitReceives
    <3> QED
      BY <2>1, <3>1 DEF IInv, FirstRunOK, running
  <2> QED
    BY <2>2, <2>3
<1>6. ChannelsOK'
  <2>1. \A q \in Runs : {signal'[q], cause'[q]} \subseteq {signal[q], cause[q], None}
    BY FirstRun DEF IInv, TypeOK, WaitReceives
  <2>2. UNCHANGED <<started, quitSignal, target, stopRun, stopReq>>
    BY DEF WaitReceives
  <2> QED
    BY <2>1, <2>2 DEF IInv, ChannelsOK
<1> QED
  BY <1>1, <1>2, <1>3, <1>4, <1>5, <1>6 DEF IInv

\* The Controller is still in the run that wait is about to stop.
LEMMA WaitStopsHttpKeeps ==
  ASSUME IInv, Others, NEW r \in Runs, WaitStopsHttp(r)
  PROVE  IInv'
<1>0. raced' \in BOOLEAN /\ workload' \in Workloads
  BY OthersKeep
<1>1. /\ waiter[r] = "lock" /\ quit = r /\ mu = "free" /\ mu' = "wait" /\ httpServer = r
      /\ shut' = shut \cup {r}
      /\ listener' = [q \in Runs |-> IF serve[q] = "serving" /\ server[q] = r THEN "closed" ELSE listener[q]]
      /\ waiter' = [waiter EXCEPT ![r] = "stopping"]
      /\ cause' = [cause EXCEPT ![r] = None]
      /\ StopLoads("wait")
      /\ UNCHANGED <<quit, started, closed, signal, quitSignal, httpServer, serve, server, target, callerVars>>
  BY DEF IInv, RunOK, ListenerOK, WaitStopsHttp, StopHttpServer
<1>2. None \notin Runs /\ 0 \notin Runs
  BY RunsAssumption DEF Runs
<1>3. listener' = [listener EXCEPT ![r] = IF serve[r] = "serving" THEN "closed" ELSE listener[r]]
  <2>1. \A q \in Runs : server[q] = r => q = r
    BY <1>2 DEF IInv, ListenerOK
  <2>2. serve[r] = "serving" => server[r] = r
    BY <1>1 DEF IInv, ListenerOK
  <2>3. listener \in [Runs -> {"none", "open", "failed", "closed"}]
    BY DEF IInv, TypeOK
  <2> QED
    BY <1>1, <2>1, <2>2, <2>3
<1>4. TypeOK'
  BY <1>0, <1>1, <1>3 DEF IInv, TypeOK, StopLoads, Clients
<1>5. ControllerOK'
  BY <1>1 DEF IInv, ControllerOK, running
<1>6. \A q \in Runs : (RunOK(q) /\ ListenerOK(q))'
  BY <1>1, <1>2, <1>3 DEF IInv, TypeOK, RunOK, ListenerOK, Bound
<1>7. /\ stopping'["wait"] \in {"close", "return"}
      /\ stopping'["wait"] = "close" => closing'["wait"] = client
      /\ stopping'["wait"] = "return" => client = 0
      /\ \A x \in Closers \ {"wait"} : stopping'[x] = stopping[x] /\ closing'[x] = closing[x]
      /\ UNCHANGED <<client, open>>
  BY <1>1 DEF IInv, TypeOK, Closers, StopLoads
<1>8. StopsOK'
  BY <1>1, <1>7, RunsAssumption DEF IInv, StopsOK, Closers
<1>9. ClientOK'
  <2> SUFFICES ASSUME ~Overlap, ClientFacts PROVE ClientFacts'
    BY ClientKeeps
  <2> QED
    BY <1>1, <1>7 DEF ClientFacts, NoRestart, running
<1>10. FirstRunOK'
  <2>1. /\ listener'[1] = "open" => listener[1] = "open"
        /\ waiter'[1] = "lock" => waiter[1] = "lock" /\ cause'[1] = cause[1]
        /\ cause'[1] \in {cause[1], None} /\ None # 1
    BY <1>1, <1>2, <1>3, FirstRun DEF IInv, TypeOK
  <2>2. UNCHANGED <<quit, started, quitSignal, serve, signal>>
    BY <1>1
  <2> QED
    BY <2>1, <2>2 DEF IInv, FirstRunOK, running
<1>11. ChannelsOK'
  BY <1>1 DEF IInv, TypeOK, ChannelsOK
<1> QED
  BY <1>4, <1>5, <1>6, <1>8, <1>9, <1>10, <1>11 DEF IInv

LEMMA WaitStopsClientKeeps ==
  ASSUME IInv, Others, NEW r \in Runs, WaitStopsClient(r)
  PROVE  IInv'
<1>0. raced' \in BOOLEAN /\ workload' \in Workloads
  BY OthersKeep
<1>1. quit = r /\ mu = "wait" /\ None \notin Runs
  BY RunsAssumption DEF IInv, RunOK, WaitStopsClient, Runs
<1>2. TypeOK'
  BY <1>0, NoClient DEF IInv, TypeOK, WaitStopsClient, ClientStopped
<1>3. ControllerOK'
  BY DEF ControllerOK, WaitStopsClient, running
<1>4. \A q \in Runs : (RunOK(q) /\ ListenerOK(q))'
  BY <1>1 DEF IInv, TypeOK, RunOK, ListenerOK, Bound, WaitStopsClient
<1>5. /\ stopping'["wait"] = "no" /\ client' \in {client, 0} /\ open' = open /\ mu' = "free" /\ ~running'
      /\ \A x \in Closers \ {"wait"} : stopping'[x] = stopping[x] /\ closing'[x] = closing[x]
  BY DEF IInv, TypeOK, Closers, WaitStopsClient, ClientStopped, running
<1>6. StopsOK'
  BY <1>1, <1>5 DEF IInv, StopsOK, WaitStopsClient, Closers
<1>7. ClientOK'
  <2> SUFFICES ASSUME ~Overlap, ClientFacts PROVE ClientFacts'
    BY ClientKeeps
  <2>1. \A x \in Closers \ {"wait"} : stopping[x] = "no"
    BY <1>1 DEF IInv, StopsOK, Overlap, Restarting, Closers
  <2>2. open = 0
    BY DEF ClientFacts, WaitStopsClient, ClientStopped, Closers
  <2> QED
    BY <1>5, <2>1, <2>2 DEF ClientFacts, NoRestart, WaitStopsClient
<1>8. FirstRunOK'
  BY <1>1, FirstRun DEF IInv, TypeOK, FirstRunOK, WaitStopsClient, running
<1>9. ChannelsOK'
  BY ChannelsFrame DEF WaitStopsClient
<1> QED
  BY <1>2, <1>3, <1>4, <1>6, <1>7, <1>8, <1>9 DEF IInv

LEMMA WaitClosesKeeps ==
  ASSUME IInv, Others, NEW r \in Runs, WaitCloses(r)
  PROVE  IInv'
<1>0. raced' \in BOOLEAN /\ workload' \in Workloads
  BY OthersKeep
<1>1. TypeOK'
  BY <1>0 DEF IInv, TypeOK, WaitCloses
<1>2. ControllerOK'
  BY LockFrame DEF WaitCloses
<1>3. \A q \in Runs : (RunOK(q) /\ ListenerOK(q))'
  BY DEF IInv, TypeOK, RunOK, ListenerOK, Bound, WaitCloses
<1>4. StopsOK' /\ ClientOK'
  BY ClientFrame DEF WaitCloses
<1>5. FirstRunOK'
  BY FirstRun DEF IInv, TypeOK, FirstRunOK, WaitCloses, running
<1>6. ChannelsOK'
  BY ChannelsFrame DEF WaitCloses
<1> QED
  BY <1>1, <1>2, <1>3, <1>4, <1>5, <1>6 DEF IInv

-------------------------------------------------------------------------------
(* The goroutine that serves HTTP, and the listener. *)

\* The goroutine of a run that has started.
LEMMA ServeStartsKeeps ==
  ASSUME IInv, Others, NEW r \in Runs, ServeStarts(r)
  PROVE  IInv'
<1>0. raced' \in BOOLEAN /\ workload' \in Workloads
  BY OthersKeep
<1>1. TypeOK'
  BY <1>0 DEF IInv, TypeOK, ServeStarts
<1>2. ControllerOK'
  BY LockFrame DEF ServeStarts
<1>3. \A q \in Runs : (RunOK(q) /\ ListenerOK(q))'
  <2>1. httpServer \in {0, r} /\ 0 \notin Runs /\ None \notin Runs
    BY RunsAssumption DEF IInv, ListenerOK, Bound, ServeStarts, Runs
  <2>2. 0 \notin shut
    BY <2>1 DEF IInv, TypeOK
  <2> QED
    BY <2>1, <2>2, RunsAssumption DEF IInv, TypeOK, RunOK, ListenerOK, Bound, ServeStarts, Channels
<1>4. StopsOK' /\ ClientOK'
  BY ClientFrame DEF ServeStarts
<1>5. FirstRunOK'
  <2>1. /\ listener'[1] = "open" => listener[1] = "open"
        /\ serve'[1] \in {"send", "gone"} => serve[1] \in {"send", "gone"}
    BY FirstRun DEF IInv, TypeOK, ServeStarts
  <2>2. UNCHANGED <<quit, started, quitSignal, signal, cause, waiter>>
    BY DEF ServeStarts
  <2> QED
    BY <2>1, <2>2 DEF IInv, FirstRunOK, running
<1>6. ChannelsOK'
  BY ChannelsFrame DEF ServeStarts
<1> QED
  BY <1>1, <1>2, <1>3, <1>4, <1>5, <1>6 DEF IInv

LEMMA ListenerFailsKeeps ==
  ASSUME IInv, Others, NEW r \in Runs, ListenerFails(r)
  PROVE  IInv'
<1>0. raced' \in BOOLEAN /\ workload' \in Workloads
  BY OthersKeep
<1>1. TypeOK'
  BY <1>0 DEF IInv, TypeOK, ListenerFails
<1>2. ControllerOK'
  BY LockFrame DEF ListenerFails
<1>3. \A q \in Runs : (RunOK(q) /\ ListenerOK(q))'
  BY DEF IInv, TypeOK, RunOK, ListenerOK, Bound, ListenerFails, Serving
<1>4. StopsOK' /\ ClientOK'
  BY ClientFrame DEF ListenerFails
<1>5. FirstRunOK'
  <2>1. listener'[1] = "open" => listener[1] = "open"
    BY FirstRun DEF IInv, TypeOK, ListenerFails
  <2>2. UNCHANGED <<quit, started, quitSignal, serve, signal, cause, waiter>>
    BY DEF ListenerFails
  <2> QED
    BY <2>1, <2>2 DEF IInv, FirstRunOK, running
<1>6. ChannelsOK'
  BY ChannelsFrame DEF ListenerFails
<1> QED
  BY <1>1, <1>2, <1>3, <1>4, <1>5, <1>6 DEF IInv

LEMMA ServeReturnsKeeps ==
  ASSUME IInv, Others, NEW r \in Runs, ServeReturns(r)
  PROVE  IInv'
<1>0. raced' \in BOOLEAN /\ workload' \in Workloads
  BY OthersKeep
<1>1. TypeOK'
  BY <1>0 DEF IInv, TypeOK, ServeReturns
<1>2. ControllerOK'
  BY LockFrame DEF ServeReturns
<1>3. \A q \in Runs : (RunOK(q) /\ ListenerOK(q))'
  BY DEF IInv, TypeOK, RunOK, ListenerOK, Bound, ServeReturns
<1>4. StopsOK' /\ ClientOK'
  BY ClientFrame DEF ServeReturns
<1>5. FirstRunOK'
  <2>1. serve'[1] \in {"send", "gone"} => serve[1] \in {"send", "gone"} \/ listener[1] # "open"
    BY FirstRun DEF IInv, TypeOK, ServeReturns
  <2>2. UNCHANGED <<quit, started, quitSignal, listener, signal, cause, waiter>>
    BY DEF ServeReturns
  <2> QED
    BY <2>1, <2>2 DEF IInv, FirstRunOK, running
<1>6. ChannelsOK'
  BY DEF IInv, TypeOK, ChannelsOK, ServeReturns
<1> QED
  BY <1>1, <1>2, <1>3, <1>4, <1>5, <1>6 DEF IInv

\* A step that puts signal m in channel c, if c is a channel: only that of a run
\* that has started, and in the first run nobody but its own goroutine.
LEMMA SignalKeeps ==
  ASSUME IInv, NEW c, NEW m \in {User} \cup Runs,
         c \in 0 .. started \cup {None},
         signal' = [signal EXCEPT ![c] = m],
         m = 1 => listener[1] # "open",
         started = 1 => m \in {User, 1},
         UNCHANGED <<started, quit, quitSignal, listener, cause, waiter>>,
         serve'[1] \in {"send", "gone"} => serve[1] \in {"send", "gone"}
  PROVE  FirstRunOK' /\ \A r \in Runs : r > started => signal'[r] = None
<1>1. FirstRunOK'
  <2>1. signal'[1] \in {signal[1], m}
    BY FirstRun DEF IInv, TypeOK
  <2>2. quit = 1 => started = 1
    BY FirstRun, RunsAssumption DEF IInv, ControllerOK, running, Channels
  <2>3. 1 \in {signal'[1], cause'[1]} => listener[1] # "open"
    BY <2>1 DEF IInv, FirstRunOK
  <2>4. quit = 1 => {signal'[1], cause'[1]} \subseteq {None, User, 1}
    BY <2>1, <2>2 DEF IInv, FirstRunOK
  <2> QED
    BY <2>3, <2>4 DEF IInv, FirstRunOK, running
<1>2. ASSUME NEW r \in Runs, r > started PROVE signal'[r] = None
  <2>1. r # c
    BY <1>2, RunsAssumption DEF Runs, IInv, TypeOK
  <2> QED
    BY <1>2, <2>1 DEF IInv, TypeOK, ChannelsOK, Runs, Channels
<1> QED
  BY <1>1, <1>2

LEMMA ServeSendsKeeps ==
  ASSUME IInv, Others, NEW r \in Runs, ServeSends(r)
  PROVE  IInv'
<1>0. raced' \in BOOLEAN /\ workload' \in Workloads
  BY OthersKeep
<1>1. TypeOK'
  BY <1>0 DEF IInv, TypeOK, ServeSends
<1>2. ControllerOK'
  BY LockFrame DEF ServeSends
<1>3. \A q \in Runs : (RunOK(q) /\ ListenerOK(q))'
  BY DEF IInv, TypeOK, RunOK, ListenerOK, Bound, ServeSends
<1>4. StopsOK' /\ ClientOK'
  BY ClientFrame DEF ServeSends
<1>5. FirstRunOK' /\ \A q \in Runs : q > started => signal'[q] = None
  <2>1. target[r] \in 0 .. started \cup {None}
    BY DEF IInv, ChannelsOK
  <2>2. r = 1 => listener[1] # "open"
    BY DEF IInv, FirstRunOK, ServeSends
  <2>3. started = 1 => r = 1
    BY DEF IInv, RunOK, ServeSends, Runs
  <2>4. serve'[1] \in {"send", "gone"} => serve[1] \in {"send", "gone"}
    BY FirstRun DEF IInv, TypeOK, ServeSends
  <2>5. signal' = [signal EXCEPT ![target[r]] = r]
        /\ UNCHANGED <<started, quit, quitSignal, listener, cause, waiter>>
    BY DEF ServeSends
  <2> QED
    BY <2>1, <2>2, <2>3, <2>4, <2>5, SignalKeeps
<1>6. ChannelsOK'
  BY <1>5 DEF IInv, ChannelsOK, ServeSends
<1> QED
  BY <1>1, <1>2, <1>3, <1>4, <1>5, <1>6 DEF IInv

-------------------------------------------------------------------------------
(* Controller.Stop and /stop. *)

\* These change nothing of a run but the signal in its channel.
LEMMA CallersKeep ==
  ASSUME IInv, Others, TypeOK', ChannelsOK', FirstRunOK',
         UNCHANGED <<lockVars, httpVars, clientVars, waiter, serve, server, restart>>
  PROVE  IInv'
  BY LockFrame, RunFrame, ClientFrame DEF IInv

LEMMA StopReadsKeeps ==
  ASSUME IInv, Others, NEW s \in Stoppers, StopReads(s)
  PROVE  IInv'
<1>0. raced' \in BOOLEAN /\ workload' \in Workloads
  BY OthersKeep
<1>1. TypeOK'
  BY <1>0 DEF IInv, TypeOK, StopReads
<1>2. quit \in 1 .. started
  BY DEF IInv, TypeOK, ControllerOK, StopReads, running
<1>3. ChannelsOK'
  BY <1>2 DEF IInv, TypeOK, ChannelsOK, StopReads
<1>4. FirstRunOK'
  BY FirstRunFrame DEF StopReads
<1> QED
  BY <1>1, <1>3, <1>4, CallersKeep DEF StopReads

LEMMA StopSignalsKeeps ==
  ASSUME IInv, Others, NEW s \in Stoppers, StopSignals(s)
  PROVE  IInv'
<1>0. raced' \in BOOLEAN /\ workload' \in Workloads
  BY OthersKeep
<1>1. TypeOK'
  BY <1>0 DEF IInv, TypeOK, StopSignals
<1>2. FirstRunOK' /\ \A q \in Runs : q > started => signal'[q] = None
  <2>1. CASE signal' = signal
    BY <2>1, FirstRunFrame DEF IInv, ChannelsOK, StopSignals
  <2>2. CASE signal' = [signal EXCEPT ![stopRun[s]] = User]
    <3>1. stopRun[s] \in 0 .. started \cup {None}
      BY DEF IInv, ChannelsOK
    <3>2. User # 1
      BY RunsAssumption, FirstRun DEF Channels
    <3> QED
      BY <2>2, <3>1, <3>2, SignalKeeps DEF StopSignals
  <2> QED
    BY <2>1, <2>2 DEF StopSignals
<1>3. ChannelsOK'
  BY <1>2 DEF IInv, ChannelsOK, StopSignals
<1> QED
  BY <1>1, <1>2, <1>3, CallersKeep DEF StopSignals

LEMMA StopReturnsKeeps ==
  ASSUME IInv, Others, NEW s \in Stoppers, StopReturns(s)
  PROVE  IInv'
<1>0. raced' \in BOOLEAN /\ workload' \in Workloads
  BY OthersKeep
<1>1. TypeOK' /\ ChannelsOK'
  BY <1>0 DEF IInv, TypeOK, ChannelsOK, StopReturns
<1>2. FirstRunOK'
  BY FirstRunFrame DEF StopReturns
<1> QED
  BY <1>1, <1>2, CallersKeep DEF StopReturns

LEMMA StopRequestKeeps ==
  ASSUME IInv, Others, NEW h \in StopReqs, NEW r \in Runs, StopRequest(h, r)
  PROVE  IInv'
<1>0. raced' \in BOOLEAN /\ workload' \in Workloads
  BY OthersKeep
<1>1. server[r] \in 0 .. started
  BY DEF IInv, TypeOK, RunOK, ListenerOK, StopRequest, Serving, Runs
<1>2. TypeOK' /\ ChannelsOK'
  BY <1>0, <1>1 DEF IInv, TypeOK, ChannelsOK, StopRequest
<1>3. FirstRunOK'
  BY FirstRunFrame DEF StopRequest
<1> QED
  BY <1>2, <1>3, CallersKeep DEF StopRequest

LEMMA StopRequestSendsKeeps ==
  ASSUME IInv, Others, NEW h \in StopReqs, StopRequestSends(h)
  PROVE  IInv'
<1>0. raced' \in BOOLEAN /\ workload' \in Workloads
  BY OthersKeep
<1>1. TypeOK'
  BY <1>0 DEF IInv, TypeOK, StopRequestSends
<1>2. FirstRunOK' /\ \A q \in Runs : q > started => signal'[q] = None
  <2>1. stopReq[h] \in 0 .. started \cup {None}
    BY DEF IInv, ChannelsOK
  <2>2. User # 1
    BY RunsAssumption, FirstRun DEF Channels
  <2> QED
    BY <2>1, <2>2, SignalKeeps DEF StopRequestSends
<1>3. ChannelsOK'
  BY <1>2 DEF IInv, ChannelsOK, StopRequestSends
<1> QED
  BY <1>1, <1>2, <1>3, CallersKeep DEF StopRequestSends

-------------------------------------------------------------------------------
(* /restart. *)

\* A step that leaves everything but the torrent client alone.
LEMMA RestartFrame ==
  ASSUME IInv, Others, TypeOK', StopsOK', ClientOK',
         UNCHANGED <<lockVars, serverVars, runVars, stopper, stopRun, stopReq>>
  PROVE  IInv'
  BY LockFrame, RunFrame, ChannelsFrame, FirstRunFrame DEF IInv, lockVars, serverVars, runVars, httpVars

LEMMA RestartRequestKeeps ==
  ASSUME IInv, Others, NEW h \in Restarts, RestartRequest(h)
  PROVE  IInv'
<1>0. raced' \in BOOLEAN /\ workload' \in Workloads
  BY OthersKeep
<1>1. TypeOK'
  BY <1>0 DEF IInv, TypeOK, RestartRequest, StopLoads, Clients
<1>2. /\ restart' = [restart EXCEPT ![h] = "stop"] /\ restart'[h] = "stop"
      /\ stopping'[h] \in {"close", "return"}
      /\ stopping'[h] = "close" => closing'[h] = client
      /\ stopping'[h] = "return" => client = 0
      /\ \A x \in Closers \ {h} : stopping'[x] = stopping[x] /\ closing'[x] = closing[x]
      /\ UNCHANGED <<client, open, mu, quit>>
  BY DEF IInv, TypeOK, Closers, RestartRequest, StopLoads
<1>3. StopsOK'
  <2>1. /\ {"start", "wait"} \subseteq Closers \ {h}
        /\ \A g \in Restarts : g # h => g \in Closers \ {h} /\ restart'[g] = restart[g]
    BY <1>2, RunsAssumption DEF IInv, TypeOK, Closers
  <2> QED
    BY <1>2, <2>1 DEF IInv, StopsOK
<1>4. ClientOK'
  <2> SUFFICES ASSUME ~Overlap, ClientFacts PROVE ClientFacts'
    BY ClientKeeps
  <2>1. ~NoRestart' /\ \A g \in Restarts : restart'[g] = "start" => restart[g] = "start"
    BY <1>2 DEF NoRestart, IInv, TypeOK
  <2> QED
    BY <1>2, <2>1 DEF ClientFacts, running
<1> QED
  BY <1>1, <1>3, <1>4, RestartFrame DEF RestartRequest

\* It stops the client and starts another.
LEMMA RestartKeeps ==
  ASSUME IInv, Others, NEW h \in Restarts, Restart(h)
  PROVE  IInv'
<1>0. raced' \in BOOLEAN /\ workload' \in Workloads
  BY OthersKeep
<1>1. TypeOK'
  BY <1>0, NoClient DEF IInv, TypeOK, Restart, RestartStops, RestartStarts, ClientStopped, StartTorrentClient
<1>2. UNCHANGED <<lockVars, serverVars, runVars, stopper, stopRun, stopReq>>
  BY DEF Restart, RestartStops, RestartStarts
<1>3. StopsOK'
  <2>1. /\ {"start", "wait"} \subseteq Closers \ {h}
        /\ \A g \in Restarts : g # h => g \in Closers \ {h} /\ restart'[g] = restart[g]
    BY RunsAssumption DEF IInv, TypeOK, Closers, Restart, RestartStops, RestartStarts
  <2>2. stopping'[h] = "no"
    <3>1. CASE RestartStops(h)
      BY <3>1 DEF IInv, TypeOK, Closers, RestartStops, ClientStopped
    <3>2. CASE RestartStarts(h)
      BY <3>2 DEF IInv, StopsOK, RestartStarts, StartTorrentClient
    <3> QED
      BY <3>1, <3>2 DEF Restart
  <2>3. mu' = mu /\ \A x \in Closers \ {h} : stopping'[x] = stopping[x]
    BY DEF IInv, TypeOK, Restart, RestartStops, RestartStarts, ClientStopped, StartTorrentClient
  <2> QED
    BY <2>1, <2>2, <2>3 DEF IInv, StopsOK
<1>4. ClientOK'
  <2> SUFFICES ASSUME ~Overlap, ClientFacts PROVE ClientFacts'
    BY ClientKeeps
  <2>1. Restarting(h) /\ h \in Closers
    BY DEF Restart, RestartStops, RestartStarts, Restarting, Closers
  <2>2. \A x \in Closers \ {h} : stopping[x] = "no" /\ (x \in Restarts => ~Restarting(x))
    BY <2>1, NobodyElseStops
  <2>3. mu = "free" /\ running /\ mu' = mu /\ running' = running
    BY <1>2, <2>1 DEF Overlap, running
  <2>4. /\ restart'[h] # "none" /\ ~NoRestart'
        /\ \A g \in Restarts \ {h} : restart'[g] = restart[g] /\ restart'[g] # "start"
    <3>1. \A g \in Restarts \ {h} : restart[g] # "start"
      BY <2>2 DEF Closers, Restarting
    <3>2. \E v \in {"start", "done"} : restart' = [restart EXCEPT ![h] = v]
      BY DEF Restart, RestartStops, RestartStarts
    <3> QED
      BY <3>1, <3>2 DEF IInv, TypeOK, NoRestart
  <2>5. CASE RestartStops(h)
    <3>1. /\ stopping[h] \in {"clear", "return"} /\ open' = open /\ client' \in {client, 0}
          /\ \A x \in Closers : stopping'[x] = "no"
      BY <2>2, <2>5 DEF RestartStops, ClientStopped, IInv, TypeOK
    <3>2. open = 0
      BY <2>1, <3>1 DEF ClientFacts
    <3> QED
      BY <2>3, <2>4, <3>1, <3>2 DEF ClientFacts
  <2>6. CASE RestartStarts(h)
    <3>1. open = 0 /\ stopping[h] = "no"
      <4>1. restart[h] = "start"
        BY <2>6 DEF RestartStarts
      <4> QED
        BY <4>1 DEF ClientFacts, IInv, StopsOK
    <3>2. restart'[h] = "done" /\ UNCHANGED stopVars /\ client' = open'
      BY <2>6, <3>1 DEF RestartStarts, StartTorrentClient, IInv, TypeOK
    <3> QED
      BY <2>2, <2>3, <2>4, <3>1, <3>2 DEF ClientFacts
  <2> QED
    BY <2>5, <2>6 DEF Restart
<1> QED
  BY <1>1, <1>2, <1>3, <1>4, RestartFrame

\* Close, for any of its callers.
LEMMA ClosesClientKeeps ==
  ASSUME IInv, Others, NEW x \in Closers, ClosesClient(x)
  PROVE  IInv'
<1>0. raced' \in BOOLEAN /\ workload' \in Workloads
  BY OthersKeep
<1>1. TypeOK'
  BY <1>0, NoClient DEF IInv, TypeOK, ClosesClient
<1>2. StopsOK'
  BY DEF IInv, TypeOK, StopsOK, ClosesClient, Closers
<1>3. ClientOK'
  <2> SUFFICES ASSUME ~Overlap, ClientFacts PROVE ClientFacts'
    BY ClientKeeps
  <2>1. closing[x] = client /\ stopping[x] = "close"
    BY DEF ClientFacts, ClosesClient
  <2>2. /\ open' = 0 /\ stopping'[x] = "clear" /\ UNCHANGED <<client, closing, mu, quit, restart>>
        /\ \A y \in Closers \ {x} : stopping'[y] = stopping[y]
    BY <2>1 DEF ClientFacts, ClosesClient, IInv, TypeOK
  <2>3. (x = "start" /\ mu = "start") \/ (x = "wait" /\ mu = "wait") \/ (x \in Restarts /\ ~NoRestart)
    <3>1. CASE x \in Restarts
      BY <2>1, <3>1 DEF IInv, StopsOK, NoRestart
    <3>2. CASE x = "start"
      BY <2>1, <3>2 DEF IInv, StopsOK
    <3>3. CASE x = "wait"
      BY <2>1, <3>3 DEF IInv, StopsOK
    <3> QED
      BY <3>1, <3>2, <3>3 DEF Closers
  <2> QED
    BY <2>2, <2>3 DEF ClientFacts, NoRestart, running, Closers
<1> QED
  BY <1>1, <1>2, <1>3, RestartFrame DEF ClosesClient

-------------------------------------------------------------------------------
(* The theorems. *)

LEMMA InitInv == Init => IInv
<1> SUFFICES ASSUME Init PROVE IInv
  OBVIOUS
<1>1. TypeOK
  <2>1. started \in 0 .. MaxRuns
    BY RunsAssumption DEF Init
  <2>2. /\ signal \in [Channels -> {None, User} \cup Runs]
        /\ cause \in [Runs -> {None, User} \cup Runs]
        /\ target \in [Runs -> Channels \cup {None}]
        /\ stopRun \in [Stoppers -> Runs \cup {None}]
        /\ server \in [Runs -> Channels \cup {None}]
        /\ stopReq \in [StopReqs -> Channels \cup {None}]
        /\ stopping \in [Closers -> {"no", "close", "clear", "return"}]
        /\ closing \in [Closers -> Clients]
        /\ client \in Clients /\ open \in Clients
    BY RunsAssumption DEF Init, Clients
  <2> QED
    BY <2>1, <2>2 DEF Init, TypeOK
<1>2. ControllerOK /\ \A r \in Runs : RunOK(r) /\ ListenerOK(r)
  BY RunsAssumption DEF Init, ControllerOK, RunOK, ListenerOK, Bound, running, Runs
<1>3. StopsOK /\ ClientOK
  BY DEF Init, StopsOK, ClientOK, ClientFacts, Overlap, Restarting, Closers, running
<1>4. ChannelsOK
  BY DEF Init, ChannelsOK, Runs, Channels
<1>5. FirstRunOK
  BY FirstRun, RunsAssumption DEF Init, FirstRunOK, running, Channels
<1> QED
  BY <1>1, <1>2, <1>3, <1>4, <1>5 DEF IInv

\* One case per action.
LEMMA NextInv ==
  ASSUME IInv, Step, Others
  PROVE  IInv'
<1>2. CASE Start
  BY <1>2, StartClientKeeps, StartHttpKeeps, StartHttpFailsKeeps, StartFailsKeeps DEF Start
<1>3. ASSUME NEW r \in Runs, Wait(r) PROVE IInv'
  BY <1>3, WaitReceivesKeeps, WaitStopsHttpKeeps, WaitStopsClientKeeps, WaitClosesKeeps DEF Wait
<1>4. ASSUME NEW r \in Runs, Serve(r) \/ ListenerFails(r) PROVE IInv'
  BY <1>4, ServeStartsKeeps, ServeReturnsKeeps, ServeSendsKeeps, ListenerFailsKeeps DEF Serve
<1>5. ASSUME NEW s \in Stoppers, StopReads(s) \/ Stop(s) PROVE IInv'
  BY <1>5, StopReadsKeeps, StopSignalsKeeps, StopReturnsKeeps DEF Stop
<1>6. ASSUME NEW h \in StopReqs, StopRequestSends(h) PROVE IInv'
  BY <1>6, StopRequestSendsKeeps
<1>7. ASSUME NEW h \in StopReqs, NEW r \in Runs, StopRequest(h, r) PROVE IInv'
  BY <1>7, StopRequestKeeps
<1>8. ASSUME NEW h \in Restarts, RestartRequest(h) \/ Restart(h) PROVE IInv'
  BY <1>8, RestartRequestKeeps, RestartKeeps
<1>9. ASSUME NEW x \in Closers, ClosesClient(x) PROVE IInv'
  BY <1>9, ClosesClientKeeps
<1> QED
  BY <1>2, <1>3, <1>4, <1>5, <1>6, <1>7, <1>8, <1>9 DEF Step

LEMMA StepInv == IInv /\ [Next]_vars => IInv'
<1> SUFFICES ASSUME IInv, [Next]_vars PROVE IInv'
  OBVIOUS
<1>1. CASE UNCHANGED vars
  <2> USE <1>1 DEF vars, lockVars, serverVars, httpVars, clientVars, stopVars, runVars, callerVars
  <2>1. TypeOK' /\ ControllerOK' /\ ChannelsOK' /\ FirstRunOK'
    BY LockFrame, FirstRunFrame DEF IInv, TypeOK, ChannelsOK
  <2>2. \A r \in Runs : (RunOK(r) /\ ListenerOK(r))'
    BY RunFrame
  <2>3. StopsOK' /\ ClientOK'
    BY DEF IInv, StopsOK, ClientOK, ClientFacts, NoRestart, Overlap, Restarting, running
  <2> QED
    BY <2>1, <2>2, <2>3 DEF IInv
<1>2. CASE Next
  BY <1>2, NextInv DEF Next
<1> QED
  BY <1>1, <1>2

\* The inductive invariant holds.
THEOREM Invariance == Spec => []IInv
<1>1. Init => IInv
  BY InitInv
<1>2. IInv /\ [Next]_vars => IInv'
  BY StepInv
<1> QED
  BY <1>1, <1>2, PTL DEF Spec

\* While nothing runs, a listener holds the port only when its run was stopped
\* before its goroutine was scheduled, and is served only when a Start failed
\* because of it: StopHttpServer closes every listener that its server serves, and
\* Serve with a closed server closes the listener it is given.
THEOREM PortIsFreeForStart == Spec => []PortIsFree
<1>1. IInv => PortIsFree
  <2> SUFFICES ASSUME IInv, ~running, NEW r \in Runs, Bound(r), serve[r] # "starting"
               PROVE  server[r] = 0
    BY DEF PortIsFree
  <2>1. serve[r] = "serving" /\ server[r] \in {0, r}
    BY DEF IInv, ListenerOK, Bound
  <2>2. quit # r /\ waiter[r] # "none"
    BY <2>1, RunsAssumption DEF IInv, RunOK, running, Runs
  <2>3. r \in shut
    BY <2>2 DEF IInv, TypeOK, RunOK, ListenerOK
  <2> QED
    BY <2>1, <2>3 DEF IInv, ListenerOK, Bound
<1> QED
  BY <1>1, Invariance, PTL

\* No torrent client outlives its run, nor one that a failed Start began with, and
\* /restarts that overlap nothing keep the client where StopTorrentClient finds it
\* (Controller.Start, Controller.wait, RestartTorrentClient).
THEOREM ClientEndsWithRun == Spec => []NoOrphanClient
<1>1. IInv => NoOrphanClient
  BY DEF IInv, ClientOK, ClientFacts, NoRestart, NoOrphanClient
<1> QED
  BY <1>1, Invariance, PTL

\* The first run ends on a signal of Stop or /stop, or because its listener
\* failed, whatever the other goroutines of the process do.
THEOREM FirstRunEndsForReason == Spec => []EndsOnlyWhenAsked
<1>1. IInv => EndsOnlyWhenAsked
  <2> SUFFICES ASSUME IInv, waiter[1] = "lock", cause[1] # User
               PROVE  listener[1] = "failed"
    BY DEF EndsOnlyWhenAsked
  <2>1. quit = 1 /\ listener[1] \in {"open", "failed"}
    BY FirstRun DEF IInv, RunOK, ListenerOK
  <2>2. cause[1] = 1 /\ listener[1] # "open"
    BY <2>1 DEF IInv, FirstRunOK
  <2> QED
    BY <2>1, <2>2
<1> QED
  BY <1>1, Invariance, PTL

\* What the Controller promises without its fairness: runs follow one another and
\* done is closed once, when the run is over.
ControllerSafety == Promise!Init /\ [][Promise!Next]_<<quit, started, closed>>

\* The safety part of the refinement: start, the end of wait's critical section and
\* close(done) are the steps of a Controller, and all others stutter.
THEOREM ImplementsController == Spec => ControllerSafety
<1>1. Init => Promise!Init
  BY DEF Init, Promise!Init
<1>2. IInv /\ [Next]_vars => [Promise!Next]_<<quit, started, closed>>
  <2> SUFFICES ASSUME IInv, Next, ~UNCHANGED <<quit, started, closed>>
               PROVE  Promise!Next
    BY DEF vars
  <2> USE DEF lockVars
  <2>1. CASE StartHttp
    <3>1. quit = None
      BY <2>1 DEF StartHttp, IInv, ControllerOK, running
    <3>2. Promise!StartRun
      BY <2>1, <3>1 DEF StartHttp, Promise!StartRun
    <3> QED
      BY <3>2 DEF Promise!Next
  <2>2. ASSUME NEW r \in Runs, WaitStopsClient(r) PROVE Promise!Next
    <3>1. quit # None
      BY <2>2, RunsAssumption, FirstRun DEF WaitStopsClient, IInv, RunOK, Channels
    <3>2. Promise!EndRun
      BY <2>2, <3>1 DEF WaitStopsClient, Promise!EndRun
    <3> QED
      BY <3>2 DEF Promise!Next
  <2>3. ASSUME NEW r \in Runs, WaitCloses(r) PROVE Promise!Next
    <3>1. r \in 1 .. started /\ quit # r /\ r \notin closed
      BY <2>3 DEF WaitCloses, IInv, TypeOK, RunOK, Runs
    <3>2. Promise!CloseDone(r)
      BY <2>3, <3>1 DEF WaitCloses, Promise!CloseDone
    <3> QED
      BY <3>1, <3>2 DEF Promise!Next
  <2>4. ASSUME NEW r \in Runs, Wait(r) PROVE Promise!Next
    BY <2>2, <2>3, <2>4 DEF Wait, WaitReceives, WaitStopsHttp
  <2>5. ASSUME NEW r \in Runs, Serve(r) \/ ListenerFails(r) PROVE FALSE
    BY <2>5 DEF Serve, ServeStarts, ServeReturns, ServeSends, ListenerFails
  <2>6. ASSUME NEW s \in Stoppers, StopReads(s) \/ Stop(s) PROVE FALSE
    BY <2>6 DEF Stop, StopReads, StopSignals, StopReturns
  <2>7. ASSUME NEW h \in StopReqs, StopRequestSends(h) \/ \E r \in Runs : StopRequest(h, r) PROVE FALSE
    BY <2>7 DEF StopRequestSends, StopRequest
  <2>8. ASSUME NEW h \in Restarts, RestartRequest(h) \/ Restart(h) PROVE FALSE
    BY <2>8 DEF Restart, RestartRequest, RestartStops, RestartStarts
  <2>9. CASE Start
    BY <2>1, <2>9 DEF Start, StartClient, StartHttpFails, StartFails
  <2>10. ASSUME NEW x \in Closers, ClosesClient(x) PROVE FALSE
    BY <2>10 DEF ClosesClient
  <2> QED
    BY <2>4, <2>5, <2>6, <2>7, <2>8, <2>9, <2>10 DEF Next, Step
<1> QED
  BY <1>1, <1>2, Invariance, PTL DEF Spec, ControllerSafety
===============================================================================
