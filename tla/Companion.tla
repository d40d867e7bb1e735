------------------------------ MODULE Companion ------------------------------
(***************************************************************************)
(* The services of the companion app: the White Raven server, Harbrr and   *)
(* App Sync, the calls of its user interface that start and stop them, the *)
(* goroutines those calls leave behind, and the Android foreground service *)
(* that keeps the process alive while one of them is a reason to           *)
(* (companion/server_service.go, widget_installer.go, platform_android.go).*)
(*                                                                         *)
(* The server is the Controller of module Controller, used through the     *)
(* actions it promises.  Harbrr (an embedded library) and net/http are     *)
(* external.  Calls of StartServer, StopServer, StartHarbrr and StopHarbrr *)
(* exclude each other by ServerService.operation, so the value of          *)
(* operation is also where its holder is; a call that fails before it      *)
(* changes anything is left out.                                           *)
(***************************************************************************)
EXTENDS Naturals

CONSTANTS
  MaxRuns,       \* bound: runs of the server
  MaxInstances,  \* bound: instances of Harbrr
  MaxSessions,   \* bound: sessions of App Sync
  Workloads,     \* bound: how often each service is started, in one behaviour
  SyncStoppers,  \* goroutines that call StopAppSync
  None

ASSUME BoundsAssumption ==
  /\ MaxRuns \in Nat /\ MaxInstances \in Nat /\ MaxSessions \in Nat
  /\ Workloads \subseteq [runs : 0 .. MaxRuns, instances : 0 .. MaxInstances,
                          sessions : 0 .. MaxSessions, stoppers : SUBSET SyncStoppers]
  /\ None \notin Nat

Runs == 1 .. MaxRuns
Instances == 1 .. MaxInstances
Sessions == 1 .. MaxSessions
Reasons == {"app-sync", "server", "harbrr"}

VARIABLES
  current, started, closed,   \* the Controller
  operation,  \* ServerService.operation: "free" or the step of its holder
  stopRun,    \* StopServer: the run it waits for
  waiter,     \* goroutine of the i-th StartServer
  awaited     \* ... and the run it waits for
VARIABLES
  harbrr,     \* ServerService.harbrr
  instances,  \* how many instances have been started
  alive,      \* instances that have not ended
  watcher     \* goroutine waitForHarbrr of each instance
VARIABLES
  busy,       \* widgetInstaller.status.Busy
  syncing,    \* where StartAppSync is
  installing, \* InstallRooted runs
  syncServer, \* widgetInstaller.syncServer: a session
  sessions,   \* how many sessions there have been
  server80,   \* the http.Server of each session
  serving,    \* the goroutine that serves each session
  stopSync,   \* where each caller of StopAppSync is
  stopSession \* ... and the session it shuts down
VARIABLES
  reasons,    \* keys of platformBackground.reasons
  foreground  \* the reason whose message the foreground service shows, or None
VARIABLES
  workload,   \* bound: a member of Workloads
  late        \* auxiliary: a session of App Sync became a reason after it had been
              \* taken out of the field, and no StopAppSync has returned since

serverVars == <<current, started, closed, stopRun, waiter, awaited>>
harbrrVars == <<harbrr, instances, alive, watcher>>
syncVars == <<busy, syncing, installing, syncServer, sessions, server80, serving,
              stopSync, stopSession>>
platformVars == <<reasons, foreground>>
serviceVars == <<operation, serverVars, harbrrVars, syncVars, platformVars>>
vars == <<serviceVars, workload, late>>

Server == INSTANCE Controller

Init ==
  /\ Server!Init
  /\ operation = "free"
  /\ stopRun = None
  /\ waiter = [r \in Runs |-> "none"]
  /\ awaited = [r \in Runs |-> None]
  /\ harbrr = None
  /\ instances = 0
  /\ alive = {}
  /\ watcher = [i \in Instances |-> "none"]
  /\ busy = FALSE
  /\ syncing = "idle"
  /\ installing = FALSE
  /\ syncServer = None
  /\ sessions = 0
  /\ server80 = [k \in Sessions |-> "none"]
  /\ serving = [k \in Sessions |-> "none"]
  /\ stopSync = [c \in SyncStoppers |-> "idle"]
  /\ stopSession = [c \in SyncStoppers |-> None]
  /\ reasons = {}
  /\ foreground = None
  /\ workload \in Workloads
  /\ late = FALSE

-------------------------------------------------------------------------------
(* platform_android.go; each call holds the lock of platformBackground. *)

StartPlatformBackground(reason) ==
  /\ reasons' = reasons \cup {reason}
  /\ foreground' = reason

\* Mutant: Harbrr is forgotten.
StopPlatformBackground_NoHarbrr(reason) ==
  /\ reasons' = reasons \ {reason}
  /\ foreground' = IF "app-sync" \in reasons' THEN "app-sync"
                   ELSE IF "server" \in reasons' THEN "server" ELSE None

\* Shows the message of the most important reason left, or stops the service.
StopPlatformBackground(reason) ==
  /\ reasons' = reasons \ {reason}
  /\ foreground' = IF "app-sync" \in reasons' THEN "app-sync"
                   ELSE IF "server" \in reasons' THEN "server"
                   ELSE IF "harbrr" \in reasons' THEN "harbrr" ELSE None

-------------------------------------------------------------------------------
(* The server. *)

\* StartServer: saves the settings, and the Controller starts.
StartServer ==
  /\ operation = "free"
  /\ started < workload.runs
  /\ Server!StartRun
  /\ operation' = "server started"
  /\ UNCHANGED <<stopRun, waiter, awaited, harbrrVars, syncVars, platformVars>>

\* The rest of StartServer, which leaves a goroutine to wait for the end.
ServerInBackground ==
  /\ operation = "server started"
  /\ StartPlatformBackground("server")
  /\ waiter' = [waiter EXCEPT ![started] = "new"]
  /\ operation' = "free"
  /\ UNCHANGED <<current, started, closed, stopRun, awaited, harbrrVars, syncVars>>

\* Controller.Wait in that goroutine: the run is the one that is current now.
WaitForServer(r) ==
  /\ waiter[r] = "new"
  /\ awaited' = [awaited EXCEPT ![r] = current]
  /\ waiter' = [waiter EXCEPT ![r] = IF current = None THEN "ended" ELSE "waiting"]
  /\ UNCHANGED <<operation, current, started, closed, stopRun, harbrrVars, syncVars, platformVars>>

ServerEnded(r) ==
  /\ waiter[r] = "waiting"
  /\ awaited[r] \in closed
  /\ waiter' = [waiter EXCEPT ![r] = "ended"]
  /\ UNCHANGED <<operation, current, started, closed, stopRun, awaited,
                 harbrrVars, syncVars, platformVars>>

ServerOutOfBackground(r) ==
  /\ waiter[r] = "ended"
  /\ StopPlatformBackground("server")
  /\ waiter' = [waiter EXCEPT ![r] = "gone"]
  /\ UNCHANGED <<operation, current, started, closed, stopRun, awaited, harbrrVars, syncVars>>

\* StopServer: Controller.Stop waits for the end of the current run, if any.
StopServer ==
  /\ operation = "free"
  /\ operation' = "server stopping"
  /\ stopRun' = current
  /\ UNCHANGED <<current, started, closed, waiter, awaited, harbrrVars, syncVars, platformVars>>

StopServerReturns ==
  /\ operation = "server stopping"
  /\ stopRun = None \/ stopRun \in closed
  /\ StopPlatformBackground("server")
  /\ operation' = "free"
  /\ stopRun' = None
  /\ UNCHANGED <<current, started, closed, waiter, awaited, harbrrVars, syncVars>>

\* A run ends, when StopServer asked for it or otherwise.
EndRun ==
  /\ Server!EndRun
  /\ UNCHANGED <<operation, stopRun, waiter, awaited, harbrrVars, syncVars, platformVars>>

CloseDone ==
  /\ \E r \in 1 .. started : Server!CloseDone(r)
  /\ UNCHANGED <<operation, stopRun, waiter, awaited, harbrrVars, syncVars, platformVars>>

-------------------------------------------------------------------------------
(* Harbrr. *)

\* StartHarbrr refuses when an instance is known; embedded.Start succeeds
\* only if the port is free.
StartHarbrr ==
  /\ operation = "free"
  /\ harbrr = None
  /\ alive = {}
  /\ instances < workload.instances
  /\ instances' = instances + 1
  /\ alive' = {instances'}
  /\ harbrr' = instances'
  /\ operation' = "harbrr started"
  /\ UNCHANGED <<watcher, serverVars, syncVars, platformVars>>

HarbrrInBackground ==
  /\ operation = "harbrr started"
  /\ StartPlatformBackground("harbrr")
  /\ watcher' = [watcher EXCEPT ![instances] = "waiting"]
  /\ operation' = "free"
  /\ UNCHANGED <<harbrr, instances, alive, serverVars, syncVars>>

\* An instance ends on its own.
HarbrrEnds(i) ==
  /\ i \in alive
  /\ alive' = alive \ {i}
  /\ UNCHANGED <<operation, harbrr, instances, watcher, serverVars, syncVars, platformVars>>

\* waitForHarbrr clears the field only if it still is its instance.
WaitForHarbrr(i) ==
  /\ watcher[i] = "waiting"
  /\ i \notin alive
  /\ harbrr' = IF harbrr = i THEN None ELSE harbrr
  /\ watcher' = [watcher EXCEPT ![i] = "ended"]
  /\ UNCHANGED <<operation, instances, alive, serverVars, syncVars, platformVars>>

HarbrrOutOfBackground(i) ==
  /\ watcher[i] = "ended"
  /\ StopPlatformBackground("harbrr")
  /\ watcher' = [watcher EXCEPT ![i] = "gone"]
  /\ UNCHANGED <<operation, harbrr, instances, alive, serverVars, syncVars>>

\* StopHarbrr: instance.Stop returns when the instance has ended.
StopHarbrr ==
  /\ operation = "free"
  /\ alive' = alive \ {harbrr}
  /\ operation' = "harbrr stopping"
  /\ UNCHANGED <<harbrr, instances, watcher, serverVars, syncVars, platformVars>>

\* Nobody but waitForHarbrr can have changed the field meanwhile.
StopHarbrrReturns ==
  /\ operation = "harbrr stopping"
  /\ harbrr' = None
  /\ StopPlatformBackground("harbrr")
  /\ operation' = "free"
  /\ UNCHANGED <<instances, alive, watcher, serverVars, syncVars>>

-------------------------------------------------------------------------------
(* App Sync, and the busy flag it shares with InstallRooted. *)

StartAppSync ==
  /\ ~busy
  /\ syncServer = None
  /\ busy' = TRUE
  /\ syncing' = "downloading"
  /\ UNCHANGED <<operation, installing, syncServer, sessions, server80, serving, stopSync,
                 stopSession, serverVars, harbrrVars, platformVars>>

\* The release cannot be fetched or stored, or port 80 is taken.
AppSyncFails ==
  /\ syncing = "downloading"
  /\ syncing' = "idle"
  /\ busy' = FALSE
  /\ UNCHANGED <<operation, installing, syncServer, sessions, server80, serving, stopSync,
                 stopSession, serverVars, harbrrVars, platformVars>>

\* net.Listen succeeds, and the server is published under installer.mu.
PublishAppSync ==
  /\ syncing = "downloading"
  /\ sessions < workload.sessions
  /\ \A k \in Sessions : server80[k] \in {"none", "closed"}
  /\ sessions' = sessions + 1
  /\ server80' = [server80 EXCEPT ![sessions'] = "open"]
  /\ syncServer' = sessions'
  /\ syncing' = "published"
  /\ UNCHANGED <<operation, busy, installing, serving, stopSync, stopSession,
                 serverVars, harbrrVars, platformVars>>

AppSyncInBackground ==
  /\ syncing = "published"
  /\ StartPlatformBackground("app-sync")
  /\ serving' = [serving EXCEPT ![sessions] = "starting"]
  /\ syncing' = "returning"
  /\ UNCHANGED <<operation, busy, installing, syncServer, sessions, server80, stopSync,
                 stopSession, serverVars, harbrrVars>>

\* The deferred function.
AppSyncReturns ==
  /\ syncing = "returning"
  /\ syncing' = "idle"
  /\ busy' = FALSE
  /\ UNCHANGED <<operation, installing, syncServer, sessions, server80, serving, stopSync,
                 stopSession, serverVars, harbrrVars, platformVars>>

\* Serve of session k begins; a server that has been shut down closes the
\* listener and returns ErrServerClosed, and nothing is cleaned up.
ServeAppSync(k) ==
  /\ serving[k] = "starting"
  /\ \/ /\ server80[k] = "open"
        /\ serving' = [serving EXCEPT ![k] = "serving"]
        /\ UNCHANGED server80
     \/ /\ server80[k] = "shut"
        /\ serving' = [serving EXCEPT ![k] = "gone"]
        /\ server80' = [server80 EXCEPT ![k] = "closed"]
  /\ UNCHANGED <<operation, busy, syncing, installing, syncServer, sessions, stopSync,
                 stopSession, serverVars, harbrrVars, platformVars>>

\* Shutdown made Serve return.
ServeAppSyncReturns(k) ==
  /\ serving[k] = "serving"
  /\ server80[k] = "closed"
  /\ serving' = [serving EXCEPT ![k] = "gone"]
  /\ UNCHANGED <<operation, busy, syncing, installing, syncServer, sessions, server80, stopSync,
                 stopSession, serverVars, harbrrVars, platformVars>>

\* Serve fails: the fields are cleared if they still are of this session.
AppSyncBreaks(k) ==
  /\ serving[k] = "serving"
  /\ server80[k] = "open"
  /\ server80' = [server80 EXCEPT ![k] = "closed"]
  /\ serving' = [serving EXCEPT ![k] = "failed"]
  /\ UNCHANGED <<operation, busy, syncing, installing, syncServer, sessions, stopSync,
                 stopSession, serverVars, harbrrVars, platformVars>>

\* Mutant: ... whatever they are of.
ClearAppSync_Always(k) ==
  /\ serving[k] = "failed"
  /\ syncServer' = None
  /\ serving' = [serving EXCEPT ![k] = "ended"]
  /\ UNCHANGED <<operation, busy, syncing, installing, sessions, server80, stopSync,
                 stopSession, serverVars, harbrrVars, platformVars>>

ClearAppSync(k) ==
  /\ serving[k] = "failed"
  /\ syncServer' = IF syncServer = k THEN None ELSE syncServer
  /\ serving' = [serving EXCEPT ![k] = "ended"]
  /\ UNCHANGED <<operation, busy, syncing, installing, sessions, server80, stopSync,
                 stopSession, serverVars, harbrrVars, platformVars>>

AppSyncOutOfBackground(k) ==
  /\ serving[k] = "ended"
  /\ StopPlatformBackground("app-sync")
  /\ serving' = [serving EXCEPT ![k] = "gone"]
  /\ UNCHANGED <<operation, busy, syncing, installing, syncServer, sessions, server80, stopSync,
                 stopSession, serverVars, harbrrVars>>

\* StopAppSync takes the server out of the fields under installer.mu ...
StopAppSync(c) ==
  /\ c \in workload.stoppers
  /\ stopSync[c] = "idle"
  /\ stopSession' = [stopSession EXCEPT ![c] = syncServer]
  /\ stopSync' = [stopSync EXCEPT ![c] = IF syncServer = None THEN "down" ELSE "shutdown"]
  /\ syncServer' = None
  /\ UNCHANGED <<operation, busy, syncing, installing, sessions, server80, serving,
                 serverVars, harbrrVars, platformVars>>

\* ... shuts it down, which closes the listener if Serve has it ...
ShutdownAppSync(c) ==
  LET k == stopSession[c]
  IN  /\ stopSync[c] = "shutdown"
      /\ server80' = [server80 EXCEPT ![k] = IF serving[k] \in {"none", "starting"}
                                             THEN "shut" ELSE "closed"]
      /\ stopSync' = [stopSync EXCEPT ![c] = "down"]
      /\ UNCHANGED <<operation, busy, syncing, installing, syncServer, sessions, serving,
                     stopSession, serverVars, harbrrVars, platformVars>>

\* ... and gives up the reason.
StopAppSyncReturns(c) ==
  /\ stopSync[c] = "down"
  /\ StopPlatformBackground("app-sync")
  /\ stopSync' = [stopSync EXCEPT ![c] = "idle"]
  /\ stopSession' = [stopSession EXCEPT ![c] = None]
  /\ UNCHANGED <<operation, busy, syncing, installing, syncServer, sessions, server80, serving,
                 serverVars, harbrrVars>>

InstallRooted ==
  /\ ~busy
  /\ busy' = TRUE
  /\ installing' = TRUE
  /\ UNCHANGED <<operation, syncing, syncServer, sessions, server80, serving, stopSync,
                 stopSession, serverVars, harbrrVars, platformVars>>

InstallRootedReturns ==
  /\ installing
  /\ busy' = FALSE
  /\ installing' = FALSE
  /\ UNCHANGED <<operation, syncing, syncServer, sessions, server80, serving, stopSync,
                 stopSession, serverVars, harbrrVars, platformVars>>

-------------------------------------------------------------------------------

ServerCall == ServerInBackground \/ StopServerReturns
ServerWaiter(r) == WaitForServer(r) \/ ServerEnded(r) \/ ServerOutOfBackground(r)
HarbrrCall == HarbrrInBackground \/ StopHarbrrReturns
HarbrrWaiter(i) == WaitForHarbrr(i) \/ HarbrrOutOfBackground(i)
SyncStarter == AppSyncFails \/ PublishAppSync \/ AppSyncInBackground \/ AppSyncReturns
SyncServing(k) ==
  ServeAppSync(k) \/ ServeAppSyncReturns(k) \/ ClearAppSync(k) \/ AppSyncOutOfBackground(k)
SyncStopper(c) == ShutdownAppSync(c) \/ StopAppSyncReturns(c)

Step ==
  \/ StartServer \/ StopServer \/ ServerCall \/ EndRun \/ CloseDone
  \/ \E r \in Runs : ServerWaiter(r)
  \/ StartHarbrr \/ StopHarbrr \/ HarbrrCall
  \/ \E i \in Instances : HarbrrEnds(i) \/ HarbrrWaiter(i)
  \/ StartAppSync \/ SyncStarter \/ InstallRooted \/ InstallRootedReturns
  \/ \E k \in Sessions : SyncServing(k) \/ AppSyncBreaks(k)
  \/ \E c \in SyncStoppers : StopAppSync(c) \/ SyncStopper(c)

MarksLate ==
  late' = IF syncing = "published" /\ syncing' = "returning" THEN late \/ syncServer # sessions
          ELSE late /\ ~(\E c \in SyncStoppers : stopSync[c] = "down" /\ stopSync'[c] = "idle")

Next == Step /\ UNCHANGED workload /\ MarksLate

Spec == Init /\ [][Next]_vars

-------------------------------------------------------------------------------
(* Properties. *)

ServerTypes ==
  /\ current \in Runs \cup {None} /\ started \in 0 .. MaxRuns /\ closed \subseteq Runs
  /\ stopRun \in Runs \cup {None}
  /\ waiter \in [Runs -> {"none", "new", "waiting", "ended", "gone"}]
  /\ awaited \in [Runs -> Runs \cup {None}]
HarbrrTypes ==
  /\ harbrr \in Instances \cup {None} /\ instances \in 0 .. MaxInstances
  /\ alive \subseteq Instances
  /\ watcher \in [Instances -> {"none", "waiting", "ended", "gone"}]
SyncTypes ==
  /\ busy \in BOOLEAN /\ installing \in BOOLEAN
  /\ syncing \in {"idle", "downloading", "published", "returning"}
  /\ syncServer \in Sessions \cup {None} /\ sessions \in 0 .. MaxSessions
  /\ server80 \in [Sessions -> {"none", "open", "shut", "closed"}]
  /\ serving \in [Sessions -> {"none", "starting", "serving", "failed", "ended", "gone"}]
  /\ stopSync \in [SyncStoppers -> {"idle", "shutdown", "down"}]
  /\ stopSession \in [SyncStoppers -> Sessions \cup {None}]
PlatformTypes == reasons \subseteq Reasons /\ foreground \in Reasons \cup {None}
CallTypes ==
  /\ operation \in {"free", "server started", "server stopping", "harbrr started",
                    "harbrr stopping"}
  /\ workload \in Workloads

\* Types of all variables.
TypeOK == ServerTypes /\ HarbrrTypes /\ SyncTypes /\ PlatformTypes /\ CallTypes

ServerQuiet ==
  /\ operation \notin {"server started", "server stopping"}
  /\ \A r \in Runs : waiter[r] \in {"none", "gone"} \/ (waiter[r] = "waiting" /\ awaited[r] = current)
HarbrrQuiet ==
  /\ operation \notin {"harbrr started", "harbrr stopping"}
  /\ \A i \in Instances : watcher[i] \in {"none", "gone"} \/ (watcher[i] = "waiting" /\ i \in alive)

SyncQuiet ==
  /\ \A c \in SyncStoppers : stopSync[c] = "idle"
  /\ \A k \in Sessions : serving[k] \notin {"failed", "ended"}

\* The notification of the foreground service names a service that still is a reason to
\* stay, and there is one as long as there is a reason.  Once every call and goroutine of a
\* service has done its part, the service is no reason when it does not run, whoever ended
\* it; except App Sync when StopAppSync took its session out of the field before
\* StartAppSync made it a reason: that reason stays until the next StopAppSync.
ForegroundHasReason ==
  /\ IF reasons = {} THEN foreground = None ELSE foreground \in reasons
  /\ ServerQuiet /\ current = None => "server" \notin reasons
  /\ HarbrrQuiet /\ harbrr = None => "harbrr" \notin reasons
  /\ SyncQuiet /\ syncServer = None /\ ~late => "app-sync" \notin reasons

\* What runs is what a stop would end.  An instance of Harbrr that lives is the one in the
\* service's field, and App Sync listens on port 80 only as the session in the installer's,
\* or while a stop is about to close it: the goroutine of an earlier instance or session
\* never makes the service forget a later one (waitForHarbrr, StartAppSync).
InstancesTracked ==
  /\ \A i \in alive : harbrr = i \/ operation = "harbrr stopping"
  /\ \A k \in Sessions : server80[k] = "open" =>
        syncServer = k \/ \E c \in SyncStoppers : stopSync[c] = "shutdown" /\ stopSession[c] = k

\* A running server keeps the app in the foreground, once every call and
\* goroutine has done its part.
ServerKeepsAppAlive == ServerQuiet /\ current # None => "server" \in reasons
===============================================================================
