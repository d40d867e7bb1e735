--------------------------- MODULE ServerLifecycle ---------------------------
(***************************************************************************)
(* Starting and stopping the server: runtime.Controller, the package       *)
(* globals of httpserver and torrentclient it drives, the goroutines it    *)
(* leaves behind (wait and the one that serves HTTP) and the handlers of   *)
(* /stop and /restart, which work without the Controller's lock.           *)
(*                                                                         *)
(* A run is a call of Controller.Start that succeeded; its number stands   *)
(* for its quit and done channels, its http.Server and its listener.  The  *)
(* number 0 stands for the channel of the last call that failed and for    *)
(* its server, which nobody ever closes.  A signal in a quit channel is    *)
(* modelled by who sent it: User for Stop and /stop, a run for the serve   *)
(* goroutine of that run.  Torrent clients are numbered; 0 is nil.         *)
(***************************************************************************)
EXTENDS Naturals

CONSTANTS
  MaxRuns,    \* bound: successful calls of Start
  MaxClients, \* bound: torrent clients somebody refers to at a time
  Stoppers,   \* goroutines that call Controller.Stop
  StopReqs,   \* concurrent HTTP requests to /stop
  Restarts,   \* concurrent HTTP requests to /restart
  Workloads,  \* bound: the requests that are made in a behaviour
  User,       \* a signal on behalf of somebody who wants the server to stop
  None

ASSUME RunsAssumption ==
  /\ MaxRuns \in Nat \ {0}
  /\ MaxClients \in Nat
  /\ User \notin 0 .. MaxRuns /\ None \notin 0 .. MaxRuns /\ User # None
  /\ {"start", "wait"} \cap Restarts = {}
  /\ Workloads \subseteq SUBSET (StopReqs \cup Restarts)

Runs == 1 .. MaxRuns
Channels == 0 .. MaxRuns
Clients == 0 .. MaxClients

\* Who calls StopTorrentClient: a Start that fails, the wait that holds the lock,
\* and the requests to /restart.
Closers == {"start", "wait"} \cup Restarts

VARIABLES
  mu,         \* Controller.mu: "free", or held by "start" or "wait" across steps
  quit,       \* the run whose channel Controller.quit is; None when not running
  started,    \* how many calls of Start succeeded
  closed      \* runs whose done channel is closed
VARIABLES
  signal,     \* signal[c]: what quit channel c (capacity 1) buffers
  quitSignal, \* httpserver.quitSignal
  listener,   \* listener[r]: "none", "open", "failed" or "closed"
  httpServer, \* httpserver.httpServer
  shut        \* the servers that were closed
VARIABLES
  client,     \* torrentclient.torrentClient
  open,       \* the torrent client that holds its port
  stopping,   \* where each caller of StopTorrentClient is in it
  closing     \* ... and the client it closes
VARIABLES
  waiter,     \* goroutine Controller.wait of each run
  cause,      \* cause[r]: the signal that wait received
  serve,      \* goroutine of each run that serves HTTP
  server,     \* server[r]: the server it serves with
  target,     \* target[r]: the channel serve sends to
  stopper,    \* callers of Stop: "idle", "signal" or "await"
  stopRun,    \* ... and the run they stop
  stopReq,    \* the run whose channel a /stop handler sends to
  restart,    \* /restart requests: "none", "stop", "start" or "done"
  workload,   \* bound: a member of Workloads
  raced       \* auxiliary: a /restart has run together with another one, or with
              \* the start or the end of a run, or while there was none

lockVars == <<mu, quit, started, closed>>
httpVars == <<listener, httpServer, shut>>
serverVars == <<signal, quitSignal, httpVars>>
stopVars == <<stopping, closing>>
clientVars == <<client, open, stopVars>>
runVars == <<waiter, cause, serve, server, target>>
callerVars == <<stopper, stopRun, stopReq, restart>>
vars == <<lockVars, serverVars, clientVars, runVars, callerVars, workload, raced>>

running == quit # None

Init ==
  /\ mu = "free"
  /\ quit = None
  /\ started = 0
  /\ closed = {}
  /\ signal = [c \in Channels |-> None]
  /\ quitSignal = None
  /\ listener = [r \in Runs |-> "none"]
  /\ httpServer = None
  /\ shut = {}
  /\ client = 0 /\ open = 0
  /\ stopping = [x \in Closers |-> "no"]
  /\ closing = [x \in Closers |-> 0]
  /\ waiter = [r \in Runs |-> "none"]
  /\ cause = [r \in Runs |-> None]
  /\ serve = [r \in Runs |-> "none"]
  /\ server = [r \in Runs |-> None]
  /\ target = [r \in Runs |-> None]
  /\ stopper = [s \in Stoppers |-> "idle"]
  /\ stopRun = [s \in Stoppers |-> None]
  /\ stopReq = [h \in StopReqs |-> None]
  /\ restart = [h \in Restarts |-> "none"]
  /\ workload \in Workloads
  /\ raced = FALSE

-------------------------------------------------------------------------------
(* torrentclient. *)

\* Nothing refers to client c: its number is that of the next client.
Unused(c) == c \notin {client, open} /\ \A x \in Closers : closing[x] # c

\* StartTorrentClient: torrent.NewClient binds a port, so it fails while
\* another client is open, and may fail otherwise; the global is nil then.
StartTorrentClient ==
  /\ \/ /\ open = 0
        /\ \E c \in Clients \ {0} :
             /\ Unused(c) /\ \A b \in 1 .. c - 1 : ~Unused(b)
             /\ client' = c /\ open' = c
     \/ client' = 0 /\ UNCHANGED open
  /\ UNCHANGED stopVars

\* StopTorrentClient is called by x: it compares the global with nil and, in the
\* compiled code with the same load, takes it for the receiver of Close.
StopLoads(x) ==
  /\ closing' = [closing EXCEPT ![x] = client]
  /\ stopping' = [stopping EXCEPT ![x] = IF client = 0 THEN "return" ELSE "close"]
  /\ UNCHANGED <<client, open>>

\* Close, of a client that may be closed already.
ClosesClient(x) ==
  /\ stopping[x] = "close"
  /\ open' = IF open = closing[x] THEN 0 ELSE open
  /\ stopping' = [stopping EXCEPT ![x] = "clear"]
  /\ UNCHANGED <<client, closing, lockVars, serverVars, runVars, callerVars>>

\* The global is cleared, whatever it refers to by now, and x goes on.
ClientStopped(x) ==
  /\ stopping[x] \in {"clear", "return"}
  /\ client' = IF stopping[x] = "clear" THEN 0 ELSE client
  /\ stopping' = [stopping EXCEPT ![x] = "no"]
  /\ closing' = [closing EXCEPT ![x] = 0]
  /\ UNCHANGED open

-------------------------------------------------------------------------------
\* The listener of run r holds the port; one that has failed does until Serve
\* returns, which closes it.
Bound(r) == listener[r] = "open" \/ (listener[r] = "failed" /\ serve[r] = "serving")

(* Controller.Start, called by one goroutine at a time. *)

\* Takes the lock, finds no run, and starts the torrent client.
StartClient ==
  /\ mu = "free"
  /\ ~running
  /\ started < MaxRuns
  /\ StartTorrentClient
  /\ mu' = IF client' # 0 THEN "start" ELSE "free"
  /\ UNCHANGED <<quit, started, closed, serverVars, runVars, callerVars>>

\* StartHttpServer succeeds: the fields are set and the goroutines started.
StartHttp ==
  LET r == started + 1
  IN  /\ mu = "start" /\ stopping["start"] = "no"
      /\ \A q \in Runs : ~Bound(q)
      /\ mu' = "free"
      /\ quit' = r
      /\ started' = r
      /\ quitSignal' = r
      /\ httpServer' = r
      /\ listener' = [listener EXCEPT ![r] = "open"]
      /\ serve' = [serve EXCEPT ![r] = "starting"]
      /\ waiter' = [waiter EXCEPT ![r] = "receive"]
      /\ UNCHANGED <<closed, signal, shut, clientVars, cause, server, target, callerVars>>

\* Mutant: the torrent client keeps running.
StartHttpFails_KeepsClient ==
  /\ mu = "start" /\ stopping["start"] = "no"
  /\ quitSignal' = 0
  /\ httpServer' = 0
  /\ signal' = [signal EXCEPT ![0] = None]
  /\ mu' = "free"
  /\ UNCHANGED <<quit, started, closed, listener, shut, clientVars, runVars, callerVars>>

\* net.Listen fails (the port is taken); quitSignal and httpServer already are
\* those of this call.  The torrent client is stopped again.
StartHttpFails ==
  /\ mu = "start" /\ stopping["start"] = "no"
  /\ quitSignal' = 0
  /\ httpServer' = 0
  /\ signal' = [signal EXCEPT ![0] = None]
  /\ StopLoads("start")
  /\ UNCHANGED <<lockVars, listener, shut, runVars, callerVars>>

StartFails ==
  /\ ClientStopped("start")
  /\ mu' = "free"
  /\ UNCHANGED <<quit, started, closed, serverVars, runVars, callerVars>>

-------------------------------------------------------------------------------
(* Controller.wait of run r. *)

\* <-quit
WaitReceives(r) ==
  /\ waiter[r] = "receive"
  /\ signal[r] # None
  /\ cause' = [cause EXCEPT ![r] = signal[r]]
  /\ signal' = [signal EXCEPT ![r] = None]
  /\ waiter' = [waiter EXCEPT ![r] = "lock"]
  /\ UNCHANGED <<lockVars, quitSignal, httpVars, clientVars, serve, server, target, callerVars>>

\* Mutant: the HTTP server is not closed.
WaitStopsHttp_NotClosed(r) ==
  /\ waiter[r] = "lock"
  /\ mu = "free"
  /\ quit = r
  /\ mu' = "wait"
  /\ StopLoads("wait")
  /\ waiter' = [waiter EXCEPT ![r] = "stopping"]
  /\ cause' = [cause EXCEPT ![r] = None]
  /\ UNCHANGED <<quit, started, closed, serverVars, serve, server, target, callerVars>>

\* StopHttpServer closes the server the package variable refers to, with the
\* listeners it tracks: those it serves.
StopHttpServer ==
  /\ shut' = shut \cup {httpServer}
  /\ listener' = [q \in Runs |->
                    IF serve[q] = "serving" /\ server[q] = httpServer THEN "closed" ELSE listener[q]]
  /\ UNCHANGED httpServer

\* Takes the lock; if it is still its run, stops the HTTP server, then the client.
WaitStopsHttp(r) ==
  /\ waiter[r] = "lock"
  /\ mu = "free"
  /\ \/ /\ quit = r
        /\ mu' = "wait"
        /\ StopHttpServer
        /\ StopLoads("wait")
        /\ waiter' = [waiter EXCEPT ![r] = "stopping"]
     \/ /\ quit # r
        /\ waiter' = [waiter EXCEPT ![r] = "unlocked"]
        /\ UNCHANGED <<mu, httpVars, clientVars>>
  /\ cause' = [cause EXCEPT ![r] = None]
  /\ UNCHANGED <<quit, started, closed, signal, quitSignal, serve, server, target, callerVars>>

\* StopTorrentClient has returned: the fields of the Controller are cleared,
\* unlock.
WaitStopsClient(r) ==
  /\ waiter[r] = "stopping"
  /\ ClientStopped("wait")
  /\ quit' = None
  /\ mu' = "free"
  /\ waiter' = [waiter EXCEPT ![r] = "unlocked"]
  /\ UNCHANGED <<started, closed, serverVars, cause, serve, server, target, callerVars>>

\* Mutant: done is closed before the servers have stopped.
WaitCloses_Early(r) ==
  /\ waiter[r] = "stopping"
  /\ closed' = closed \cup {r}
  /\ UNCHANGED <<mu, quit, started, serverVars, clientVars, runVars, callerVars>>

\* close(done)
WaitCloses(r) ==
  /\ waiter[r] = "unlocked"
  /\ closed' = closed \cup {r}
  /\ waiter' = [waiter EXCEPT ![r] = "gone"]
  /\ UNCHANGED <<mu, quit, started, serverVars, clientVars, cause, serve, server, target, callerVars>>

-------------------------------------------------------------------------------
(* The goroutine of StartHttpServer that serves run r. *)

\* The goroutine reaches Serve, of the server that the package variable refers to
\* NOW; if that one has been closed, Serve closes the listener and returns.
ServeStarts(r) ==
  /\ serve[r] = "starting"
  /\ serve' = [serve EXCEPT ![r] = "serving"]
  /\ server' = [server EXCEPT ![r] = httpServer]
  /\ listener' = IF httpServer \in shut THEN [listener EXCEPT ![r] = "closed"] ELSE listener
  /\ UNCHANGED <<lockVars, signal, quitSignal, httpServer, shut, clientVars, waiter, cause, target, callerVars>>

\* The listener breaks on its own.
Serving(r) == serve[r] = "serving" /\ listener[r] = "open"
ListenerFails(r) ==
  /\ Serving(r)
  /\ listener' = [listener EXCEPT ![r] = "failed"]
  /\ UNCHANGED <<lockVars, signal, quitSignal, httpServer, shut, clientVars, runVars, callerVars>>

\* Mutant: only an intentional close is signalled.
ServeReturns_IfClosed(r) ==
  /\ serve[r] = "serving"
  /\ listener[r] = "closed"
  /\ serve' = [serve EXCEPT ![r] = "send"]
  /\ target' = [target EXCEPT ![r] = quitSignal]
  /\ server' = [server EXCEPT ![r] = None]
  /\ UNCHANGED <<lockVars, serverVars, clientVars, waiter, cause, callerVars>>

\* Serve has returned and the goroutine has slept: the channel is the one the
\* package variable holds NOW.
ServeReturns(r) ==
  /\ serve[r] = "serving"
  /\ listener[r] # "open"
  /\ serve' = [serve EXCEPT ![r] = "send"]
  /\ target' = [target EXCEPT ![r] = quitSignal]
  /\ server' = [server EXCEPT ![r] = None]
  /\ UNCHANGED <<lockVars, serverVars, clientVars, waiter, cause, callerVars>>

\* quitSignal <- os.Kill, which blocks while the channel is full.
ServeSends(r) ==
  /\ serve[r] = "send"
  /\ signal[target[r]] = None
  /\ signal' = [signal EXCEPT ![target[r]] = r]
  /\ serve' = [serve EXCEPT ![r] = "gone"]
  /\ target' = [target EXCEPT ![r] = None]
  /\ UNCHANGED <<lockVars, quitSignal, httpVars, clientVars, waiter, cause, server, callerVars>>

-------------------------------------------------------------------------------
(* Controller.Stop. *)

\* Reads quit and done under the lock and returns when nothing runs.
StopReads(s) ==
  /\ stopper[s] = "idle"
  /\ mu = "free"
  /\ running
  /\ stopper' = [stopper EXCEPT ![s] = "signal"]
  /\ stopRun' = [stopRun EXCEPT ![s] = quit]
  /\ UNCHANGED <<lockVars, serverVars, clientVars, runVars, stopReq, restart>>

\* Mutant: a blocking send.
StopSignals_Blocking(s) ==
  /\ stopper[s] = "signal"
  /\ signal[stopRun[s]] = None
  /\ stopper' = [stopper EXCEPT ![s] = "await"]
  /\ signal' = [signal EXCEPT ![stopRun[s]] = User]
  /\ UNCHANGED <<lockVars, quitSignal, httpVars, clientVars, runVars, stopRun, stopReq, restart>>

\* Sends unless the channel is full already.
StopSignals(s) ==
  /\ stopper[s] = "signal"
  /\ stopper' = [stopper EXCEPT ![s] = "await"]
  /\ signal' = IF signal[stopRun[s]] = None
               THEN [signal EXCEPT ![stopRun[s]] = User] ELSE signal
  /\ UNCHANGED <<lockVars, quitSignal, httpVars, clientVars, runVars, stopRun, stopReq, restart>>

\* <-done
StopReturns(s) ==
  /\ stopper[s] = "await"
  /\ stopRun[s] \in closed
  /\ stopper' = [stopper EXCEPT ![s] = "idle"]
  /\ stopRun' = [stopRun EXCEPT ![s] = None]
  /\ UNCHANGED <<lockVars, serverVars, clientVars, runVars, stopReq, restart>>

-------------------------------------------------------------------------------
(* HTTP handlers; they outlive the listener that accepted the request. *)

\* StopApplication: the route captured the quit channel that its server was
\* created with.
StopRequest(h, r) ==
  /\ stopReq[h] = None
  /\ Serving(r)
  /\ stopReq' = [stopReq EXCEPT ![h] = server[r]]
  /\ UNCHANGED <<lockVars, serverVars, clientVars, runVars, stopper, stopRun, restart>>

\* quitSignal <- os.Kill
StopRequestSends(h) ==
  /\ stopReq[h] # None
  /\ signal[stopReq[h]] = None
  /\ signal' = [signal EXCEPT ![stopReq[h]] = User]
  /\ stopReq' = [stopReq EXCEPT ![h] = None]
  /\ UNCHANGED <<lockVars, quitSignal, httpVars, clientVars, runVars, stopper, stopRun, restart>>

\* The request is under way.
Restarting(h) == restart[h] \in {"stop", "start"}

\* RestartTorrentClient: sets the limits, then stops the client ...
RestartRequest(h) ==
  /\ ~Restarting(h)
  /\ \E r \in Runs : Serving(r)
  /\ restart' = [restart EXCEPT ![h] = "stop"]
  /\ StopLoads(h)
  /\ UNCHANGED <<lockVars, serverVars, runVars, stopper, stopRun, stopReq>>

\* Mutant: the HTTP server is closed as well.
RestartStops_Http(h) ==
  /\ restart[h] = "stop"
  /\ ClientStopped(h)
  /\ listener' = [r \in Runs |-> IF listener[r] = "open" THEN "closed" ELSE listener[r]]
  /\ restart' = [restart EXCEPT ![h] = "start"]
  /\ UNCHANGED <<lockVars, signal, quitSignal, httpServer, shut, runVars, stopper, stopRun, stopReq>>

RestartStops(h) ==
  /\ restart[h] = "stop"
  /\ ClientStopped(h)
  /\ restart' = [restart EXCEPT ![h] = "start"]
  /\ UNCHANGED <<lockVars, serverVars, runVars, stopper, stopRun, stopReq>>

\* ... and starts another.
RestartStarts(h) ==
  /\ restart[h] = "start"
  /\ StartTorrentClient
  /\ restart' = [restart EXCEPT ![h] = "done"]
  /\ UNCHANGED <<lockVars, serverVars, runVars, stopper, stopRun, stopReq>>

-------------------------------------------------------------------------------

\* A /restart is under way and not alone.
Overlap ==
  \E h \in Restarts : Restarting(h) /\ (mu # "free" \/ ~running \/ \E g \in Restarts \ {h} : Restarting(g))

Start == StartClient \/ StartHttp \/ StartHttpFails \/ StartFails
Wait(r) == WaitReceives(r) \/ WaitStopsHttp(r) \/ WaitStopsClient(r) \/ WaitCloses(r)
Serve(r) == ServeStarts(r) \/ ServeReturns(r) \/ ServeSends(r)
Stop(s) == StopSignals(s) \/ StopReturns(s)
Restart(h) == RestartStops(h) \/ RestartStarts(h)

Step ==
  \/ Start
  \/ \E r \in Runs : Wait(r) \/ Serve(r) \/ ListenerFails(r)
  \/ \E s \in Stoppers : StopReads(s) \/ Stop(s)
  \/ \E h \in StopReqs \cap workload : StopRequestSends(h) \/ \E r \in Runs : StopRequest(h, r)
  \/ \E h \in Restarts \cap workload : RestartRequest(h) \/ Restart(h)
  \/ \E x \in Closers : ClosesClient(x)

MarksRace == raced' = (raced \/ Overlap')

Others == UNCHANGED workload /\ MarksRace

Next == Step /\ Others

Spec == Init /\ [][Next]_vars

\* Every goroutine that can go on does; nobody has to stop or start the server.
FairSpec ==
  /\ Spec
  /\ WF_vars((StartHttp \/ StartHttpFails \/ StartFails) /\ Others)
  /\ \A r \in Runs : WF_vars(Wait(r) /\ Others) /\ WF_vars(Serve(r) /\ Others)
  /\ \A s \in Stoppers : WF_vars(Stop(s) /\ Others)
  /\ \A h \in Restarts : WF_vars(Restart(h) /\ Others)
  /\ \A x \in Closers : WF_vars(ClosesClient(x) /\ Others)

-------------------------------------------------------------------------------
(* Properties. *)

TypeOK ==
  /\ mu \in {"free", "start", "wait"}
  /\ quit \in Runs \cup {None}
  /\ started \in 0 .. MaxRuns
  /\ closed \subseteq Runs
  /\ signal \in [Channels -> {None, User} \cup Runs]
  /\ quitSignal \in Channels \cup {None}
  /\ listener \in [Runs -> {"none", "open", "failed", "closed"}]
  /\ httpServer \in Channels \cup {None} /\ shut \subseteq Runs
  /\ client \in Clients /\ open \in Clients
  /\ stopping \in [Closers -> {"no", "close", "clear", "return"}]
  /\ closing \in [Closers -> Clients]
  /\ waiter \in [Runs -> {"none", "receive", "lock", "stopping", "unlocked", "gone"}]
  /\ cause \in [Runs -> {None, User} \cup Runs]
  /\ serve \in [Runs -> {"none", "starting", "serving", "send", "gone"}]
  /\ server \in [Runs -> Channels \cup {None}]
  /\ target \in [Runs -> Channels \cup {None}]
  /\ stopper \in [Stoppers -> {"idle", "signal", "await"}]
  /\ stopRun \in [Stoppers -> Runs \cup {None}]
  /\ stopReq \in [StopReqs -> Channels \cup {None}]
  /\ restart \in [Restarts -> {"none", "stop", "start", "done"}]
  /\ workload \in Workloads /\ raced \in BOOLEAN

\* While nothing runs, the port is held at most by the listener of a run that was
\* stopped before its goroutine was scheduled: the goroutine is still to run, or,
\* when a Start met that listener and failed, serves it with the server of that
\* call.  No listener is ever served with the server of a run that has ended.
PortIsFree ==
  ~running => \A r \in Runs : Bound(r) => serve[r] = "starting" \/ server[r] = 0

\* When no run is active and nobody is starting one, no torrent client is left
\* behind, and while one is active the client that is open is the one the package
\* variable refers to, so that the end of the run closes it: whatever fails, and
\* after any number of /restarts of which none overlapped another one or the
\* start or end of a run (they work without the lock).
NoOrphanClient ==
  mu = "free" /\ ~raced =>
    /\ open # 0 => running /\ client = open
    /\ running /\ (\A h \in Restarts : restart[h] = "none") => open # 0

\* The first run ends because somebody asked for it or because its listener
\* failed, /restart or not; a second run of the process can be ended by the
\* serve goroutine of the first.
EndsOnlyWhenAsked == waiter[1] = "lock" => cause[1] = User \/ listener[1] = "failed"

\* Controller.Stop returns.
StopTerminates == \A s \in Stoppers : stopper[s] # "idle" ~> stopper[s] = "idle"

\* The server does not stay up, as far as Status says, with a dead listener.
DeadListenerEndsRun == \A r \in Runs : listener[r] = "failed" ~> quit # r

\* Refinement: what callers of the Controller see is a Controller.
Promise == INSTANCE Controller WITH current <- quit
ControllerPromise == Promise!Spec
===============================================================================
