--------------------------- MODULE CompanionProofs ---------------------------
(***************************************************************************)
(* Proofs about Companion, for any number of runs of the server, of        *)
(* instances of Harbrr, of sessions of App Sync and of callers that stop   *)
(* them, in every mixture of them.                                         *)
(***************************************************************************)
EXTENDS Companion, TLAPS

\* The server is a reason only as long as somebody is left to give it up: the call
\* that stops it, or the goroutine of a run.  It waits for a run, or for nothing.
ServerOK ==
  /\ operation = "server started" => started \in Runs
  /\ "server" \in reasons =>
       \/ operation = "server stopping"
       \/ \E r \in Runs : /\ waiter[r] \in {"new", "waiting", "ended"}
                          /\ waiter[r] = "waiting" => awaited[r] # None

\* Harbrr, likewise; what lives is the instance the service knows.
HarbrrOK ==
  /\ operation = "harbrr started" => instances \in Instances
  /\ alive \subseteq {harbrr}
  /\ operation = "harbrr stopping" => alive = {}
  /\ "harbrr" \in reasons =>
       \/ operation = "harbrr stopping"
       \/ \E i \in Instances : watcher[i] \in {"waiting", "ended"}

\* A session that has not been published has nothing; one whose Serve failed has no
\* listener; and one that listens is known to the installer or about to be shut down.
SessionOK(k) ==
  /\ k > sessions => server80[k] = "none" /\ serving[k] = "none"
  /\ serving[k] \in {"failed", "ended"} => server80[k] = "closed"
  /\ server80[k] = "open" =>
       syncServer = k \/ \E c \in SyncStoppers : stopSync[c] = "shutdown" /\ stopSession[c] = k

SyncOK ==
  /\ syncing = "published" => sessions \in Sessions
  /\ \A k \in Sessions : SessionOK(k)
  /\ syncServer # None => syncServer <= sessions
  /\ \A c \in SyncStoppers :
       stopSync[c] = "shutdown" => stopSession[c] \in Sessions /\ stopSession[c] <= sessions

\* What the notification shows.
ForegroundOK == IF reasons = {} THEN foreground = None ELSE foreground \in reasons

\* The inductive invariant.
IInv == TypeOK /\ ServerOK /\ HarbrrOK /\ SyncOK /\ ForegroundOK

-------------------------------------------------------------------------------
(* What a step preserves that is about another service. *)

LEMMA ServerFrame ==
  ASSUME ServerOK, UNCHANGED <<started, waiter, awaited>>,
         "server" \in reasons' => "server" \in reasons,
         operation' = operation \/ {operation, operation'} \subseteq {"free", "harbrr started", "harbrr stopping"}
  PROVE  ServerOK'
  BY DEF ServerOK

LEMMA HarbrrFrame ==
  ASSUME HarbrrOK, UNCHANGED <<harbrr, instances, alive, watcher>>,
         "harbrr" \in reasons' => "harbrr" \in reasons,
         operation' = operation \/ {operation, operation'} \subseteq {"free", "server started", "server stopping"}
  PROVE  HarbrrOK'
  BY DEF HarbrrOK

LEMMA SyncFrame ==
  ASSUME SyncOK, UNCHANGED <<syncing, sessions, server80, serving, syncServer, stopSync, stopSession>>
  PROVE  SyncOK'
  BY DEF SyncOK, SessionOK

LEMMA TypesFrame ==
  /\ ServerTypes /\ UNCHANGED serverVars => ServerTypes'
  /\ HarbrrTypes /\ UNCHANGED harbrrVars => HarbrrTypes'
  /\ SyncTypes /\ UNCHANGED syncVars => SyncTypes'
  BY DEF ServerTypes, HarbrrTypes, SyncTypes, serverVars, harbrrVars, syncVars

\* platform_android.go: whoever calls, the notification has a reason.
LEMMA ReasonTaken ==
  ASSUME reasons \subseteq Reasons, NEW x \in Reasons, StartPlatformBackground(x)
  PROVE  /\ reasons' \subseteq Reasons /\ foreground' \in Reasons \cup {None}
         /\ ForegroundOK'
         /\ \A y \in Reasons \ {x} : y \in reasons' => y \in reasons
  BY DEF StartPlatformBackground, ForegroundOK

LEMMA ReasonGivenUp ==
  ASSUME reasons \subseteq Reasons, NEW x \in Reasons, StopPlatformBackground(x)
  PROVE  /\ reasons' \subseteq Reasons /\ foreground' \in Reasons \cup {None}
         /\ ForegroundOK'
         /\ x \notin reasons'
         /\ \A y \in Reasons : y \in reasons' => y \in reasons
<1>1. reasons' \subseteq Reasons /\ x \notin reasons' /\ \A y \in Reasons : y \in reasons' => y \in reasons
  BY DEF StopPlatformBackground
<1>2. CASE "app-sync" \in reasons'
  BY <1>1, <1>2 DEF StopPlatformBackground, ForegroundOK, Reasons
<1>3. CASE "app-sync" \notin reasons' /\ "server" \in reasons'
  BY <1>1, <1>3 DEF StopPlatformBackground, ForegroundOK, Reasons
<1>4. CASE "app-sync" \notin reasons' /\ "server" \notin reasons' /\ "harbrr" \in reasons'
  BY <1>1, <1>4 DEF StopPlatformBackground, ForegroundOK, Reasons
<1>5. CASE reasons' = {}
  BY <1>1, <1>5 DEF StopPlatformBackground, ForegroundOK
<1> QED
  BY <1>1, <1>2, <1>3, <1>4, <1>5 DEF Reasons

\* The counters stay below their bounds.
LEMMA Counters ==
  ASSUME TypeOK
  PROVE  /\ started \in Nat /\ started <= MaxRuns
         /\ instances \in Nat /\ instances <= MaxInstances
         /\ sessions \in Nat /\ sessions <= MaxSessions
<1>1. started \in 0 .. MaxRuns /\ instances \in 0 .. MaxInstances /\ sessions \in 0 .. MaxSessions
  BY DEF TypeOK, ServerTypes, HarbrrTypes, SyncTypes
<1> QED
  BY <1>1, BoundsAssumption

\* None is not a number.
LEMMA Numbers ==
  /\ None \notin Runs /\ None \notin Instances /\ None \notin Sessions
  /\ \A w \in Workloads : w.runs <= MaxRuns /\ w.instances <= MaxInstances /\ w.sessions <= MaxSessions
  /\ \A w \in Workloads : w.runs \in Nat /\ w.instances \in Nat /\ w.sessions \in Nat
  BY BoundsAssumption DEF Runs, Instances, Sessions

-------------------------------------------------------------------------------
(* The server. *)

LEMMA StartServerKeeps ==
  ASSUME IInv, UNCHANGED workload, StartServer
  PROVE  IInv'
<1> USE DEF harbrrVars, syncVars, platformVars
<1>1. started' = started + 1 /\ started' \in Runs
  <2>1. started \in Nat /\ started < workload.runs
    BY Counters DEF IInv, StartServer
  <2>2. workload.runs <= MaxRuns /\ workload.runs \in Nat /\ MaxRuns \in Nat
    BY Numbers, BoundsAssumption DEF IInv, TypeOK, CallTypes
  <2>3. started' = started + 1
    BY DEF StartServer, Server!StartRun
  <2> QED
    BY <2>1, <2>2, <2>3 DEF Runs
<1>2. TypeOK'
  <2>1. started' \in 0 .. MaxRuns
    BY <1>1 DEF Runs
  <2>2. current' \in Runs /\ UNCHANGED closed
    BY <1>1 DEF StartServer, Server!StartRun
  <2>3. ServerTypes'
    BY <2>1, <2>2 DEF IInv, TypeOK, ServerTypes, StartServer
  <2>4. PlatformTypes' /\ CallTypes'
    BY DEF IInv, TypeOK, PlatformTypes, CallTypes, StartServer
  <2> QED
    BY <2>3, <2>4, TypesFrame DEF IInv, TypeOK, StartServer
<1>3. ServerOK'
  BY <1>1 DEF IInv, ServerOK, StartServer
<1>4. HarbrrOK' /\ SyncOK' /\ ForegroundOK'
  BY HarbrrFrame, SyncFrame DEF IInv, ForegroundOK, StartServer
<1> QED
  BY <1>2, <1>3, <1>4 DEF IInv

LEMMA ServerInBackgroundKeeps ==
  ASSUME IInv, UNCHANGED workload, ServerInBackground
  PROVE  IInv'
<1> USE DEF harbrrVars, syncVars
<1>1. /\ reasons' \subseteq Reasons /\ foreground' \in Reasons \cup {None} /\ ForegroundOK'
      /\ "harbrr" \in reasons' => "harbrr" \in reasons
  BY ReasonTaken DEF IInv, TypeOK, PlatformTypes, ServerInBackground, Reasons
<1>2. TypeOK'
  <2>1. ServerTypes'
    BY <1>1 DEF IInv, TypeOK, ServerTypes, ServerInBackground
  <2>2. PlatformTypes' /\ CallTypes'
    BY <1>1 DEF IInv, TypeOK, PlatformTypes, CallTypes, ServerInBackground
  <2> QED
    BY <1>1, <2>1, <2>2, TypesFrame DEF IInv, TypeOK, ServerInBackground
<1>3. ServerOK'
  <2>1. started \in Runs /\ waiter'[started] = "new"
    BY DEF IInv, TypeOK, ServerTypes, ServerOK, ServerInBackground
  <2> QED
    BY <2>1 DEF ServerOK, ServerInBackground
<1>4. HarbrrOK' /\ SyncOK'
  BY <1>1, HarbrrFrame, SyncFrame DEF IInv, ServerInBackground
<1> QED
  BY <1>1, <1>2, <1>3, <1>4 DEF IInv

LEMMA WaitForServerKeeps ==
  ASSUME IInv, UNCHANGED workload, NEW r \in Runs, WaitForServer(r)
  PROVE  IInv'
<1> USE DEF harbrrVars, syncVars, platformVars
<1>1. TypeOK'
  <2>1. ServerTypes'
    BY DEF IInv, TypeOK, ServerTypes, WaitForServer
  <2>2. PlatformTypes' /\ CallTypes'
    BY DEF IInv, TypeOK, PlatformTypes, CallTypes, WaitForServer
  <2> QED
    BY <2>1, <2>2, TypesFrame DEF IInv, TypeOK, WaitForServer
<1>2. ServerOK'
  <2>1. /\ waiter'[r] \in {"waiting", "ended"}
        /\ waiter'[r] = "waiting" => awaited'[r] # None
    BY DEF IInv, TypeOK, ServerTypes, WaitForServer
  <2>2. UNCHANGED <<operation, started, reasons>>
    BY DEF WaitForServer
  <2> QED
    BY <2>1, <2>2 DEF IInv, ServerOK
<1>3. HarbrrOK' /\ SyncOK' /\ ForegroundOK'
  BY HarbrrFrame, SyncFrame DEF IInv, ForegroundOK, WaitForServer
<1> QED
  BY <1>1, <1>2, <1>3 DEF IInv

LEMMA ServerEndedKeeps ==
  ASSUME IInv, UNCHANGED workload, NEW r \in Runs, ServerEnded(r)
  PROVE  IInv'
<1> USE DEF harbrrVars, syncVars, platformVars
<1>1. TypeOK'
  <2>1. ServerTypes'
    BY DEF IInv, TypeOK, ServerTypes, ServerEnded
  <2>2. PlatformTypes' /\ CallTypes'
    BY DEF IInv, TypeOK, PlatformTypes, CallTypes, ServerEnded
  <2> QED
    BY <2>1, <2>2, TypesFrame DEF IInv, TypeOK, ServerEnded
<1>2. ServerOK'
  <2>1. waiter'[r] = "ended" /\ UNCHANGED <<operation, started, reasons>>
    BY DEF IInv, TypeOK, ServerTypes, ServerEnded
  <2> QED
    BY <2>1 DEF IInv, ServerOK
<1>3. HarbrrOK' /\ SyncOK' /\ ForegroundOK'
  BY HarbrrFrame, SyncFrame DEF IInv, ForegroundOK, ServerEnded
<1> QED
  BY <1>1, <1>2, <1>3 DEF IInv

LEMMA ServerOutOfBackgroundKeeps ==
  ASSUME IInv, UNCHANGED workload, NEW r \in Runs, ServerOutOfBackground(r)
  PROVE  IInv'
<1> USE DEF harbrrVars, syncVars
<1>1. /\ reasons' \subseteq Reasons /\ foreground' \in Reasons \cup {None} /\ ForegroundOK'
      /\ "server" \notin reasons'
      /\ "harbrr" \in reasons' => "harbrr" \in reasons
  BY ReasonGivenUp DEF IInv, TypeOK, PlatformTypes, ServerOutOfBackground, Reasons
<1>2. TypeOK'
  <2>1. ServerTypes'
    BY <1>1 DEF IInv, TypeOK, ServerTypes, ServerOutOfBackground
  <2>2. PlatformTypes' /\ CallTypes'
    BY <1>1 DEF IInv, TypeOK, PlatformTypes, CallTypes, ServerOutOfBackground
  <2> QED
    BY <1>1, <2>1, <2>2, TypesFrame DEF IInv, TypeOK, ServerOutOfBackground
<1>3. ServerOK'
  BY <1>1 DEF IInv, ServerOK, ServerOutOfBackground
<1>4. HarbrrOK' /\ SyncOK'
  BY <1>1, HarbrrFrame, SyncFrame DEF IInv, ServerOutOfBackground
<1> QED
  BY <1>1, <1>2, <1>3, <1>4 DEF IInv

LEMMA StopServerKeeps ==
  ASSUME IInv, UNCHANGED workload, StopServer
  PROVE  IInv'
<1> USE DEF harbrrVars, syncVars, platformVars
<1>1. TypeOK'
  <2>1. ServerTypes'
    BY DEF IInv, TypeOK, ServerTypes, StopServer
  <2>2. PlatformTypes' /\ CallTypes'
    BY DEF IInv, TypeOK, PlatformTypes, CallTypes, StopServer
  <2> QED
    BY <2>1, <2>2, TypesFrame DEF IInv, TypeOK, StopServer
<1>2. ServerOK'
  BY DEF ServerOK, StopServer
<1>3. HarbrrOK' /\ SyncOK' /\ ForegroundOK'
  BY HarbrrFrame, SyncFrame DEF IInv, ForegroundOK, StopServer
<1> QED
  BY <1>1, <1>2, <1>3 DEF IInv

LEMMA StopServerReturnsKeeps ==
  ASSUME IInv, UNCHANGED workload, StopServerReturns
  PROVE  IInv'
<1> USE DEF harbrrVars, syncVars
<1>1. /\ reasons' \subseteq Reasons /\ foreground' \in Reasons \cup {None} /\ ForegroundOK'
      /\ "server" \notin reasons'
      /\ "harbrr" \in reasons' => "harbrr" \in reasons
  BY ReasonGivenUp DEF IInv, TypeOK, PlatformTypes, StopServerReturns, Reasons
<1>2. TypeOK'
  <2>1. ServerTypes'
    BY <1>1 DEF IInv, TypeOK, ServerTypes, StopServerReturns
  <2>2. PlatformTypes' /\ CallTypes'
    BY <1>1 DEF IInv, TypeOK, PlatformTypes, CallTypes, StopServerReturns
  <2> QED
    BY <1>1, <2>1, <2>2, TypesFrame DEF IInv, TypeOK, StopServerReturns
<1>3. ServerOK'
  BY <1>1 DEF ServerOK, StopServerReturns
<1>4. HarbrrOK' /\ SyncOK'
  BY <1>1, HarbrrFrame, SyncFrame DEF IInv, StopServerReturns
<1> QED
  BY <1>1, <1>2, <1>3, <1>4 DEF IInv

\* A run ends and its done channel is closed.
LEMMA RunEndsKeeps ==
  ASSUME IInv, UNCHANGED workload, EndRun \/ CloseDone
  PROVE  IInv'
<1> USE DEF harbrrVars, syncVars, platformVars
<1>1. /\ current' \in Runs \cup {None} /\ closed' \subseteq Runs
      /\ UNCHANGED <<started, operation, stopRun, waiter, awaited, harbrrVars, syncVars, platformVars>>
  <2>1. CASE EndRun
    BY <2>1 DEF IInv, TypeOK, ServerTypes, EndRun, Server!EndRun
  <2>2. CASE CloseDone
    <3>1. PICK r \in 1 .. started : Server!CloseDone(r)
      BY <2>2 DEF CloseDone
    <3>2. r \in Runs
      BY Counters, BoundsAssumption DEF IInv, Runs
    <3> QED
      BY <2>2, <3>1, <3>2 DEF IInv, TypeOK, ServerTypes, CloseDone, Server!CloseDone
  <2> QED
    BY <2>1, <2>2
<1>2. TypeOK'
  <2>1. ServerTypes'
    BY <1>1 DEF IInv, TypeOK, ServerTypes
  <2>2. PlatformTypes' /\ CallTypes'
    BY <1>1 DEF IInv, TypeOK, PlatformTypes, CallTypes
  <2> QED
    BY <1>1, <2>1, <2>2, TypesFrame DEF IInv, TypeOK
<1>3. ServerOK' /\ HarbrrOK' /\ SyncOK' /\ ForegroundOK'
  BY <1>1, ServerFrame, HarbrrFrame, SyncFrame DEF IInv, ForegroundOK
<1> QED
  BY <1>2, <1>3 DEF IInv

-------------------------------------------------------------------------------
(* Harbrr. *)

LEMMA StartHarbrrKeeps ==
  ASSUME IInv, UNCHANGED workload, StartHarbrr
  PROVE  IInv'
<1> USE DEF serverVars, syncVars, platformVars
<1>1. instances' = instances + 1 /\ instances' \in Instances
  <2>1. instances \in Nat /\ instances < workload.instances
    BY Counters DEF IInv, StartHarbrr
  <2>2. workload.instances <= MaxInstances /\ workload.instances \in Nat /\ MaxInstances \in Nat
    BY Numbers, BoundsAssumption DEF IInv, TypeOK, CallTypes
  <2>3. instances' = instances + 1
    BY DEF StartHarbrr
  <2> QED
    BY <2>1, <2>2, <2>3 DEF Instances
<1>2. TypeOK'
  <2>1. instances' \in 0 .. MaxInstances
    BY <1>1 DEF Instances
  <2>2. HarbrrTypes'
    BY <1>1, <2>1 DEF IInv, TypeOK, HarbrrTypes, StartHarbrr
  <2>3. PlatformTypes' /\ CallTypes'
    BY DEF IInv, TypeOK, PlatformTypes, CallTypes, StartHarbrr
  <2> QED
    BY <2>2, <2>3, TypesFrame DEF IInv, TypeOK, StartHarbrr
<1>3. HarbrrOK'
  BY <1>1 DEF IInv, HarbrrOK, StartHarbrr
<1>4. ServerOK' /\ SyncOK' /\ ForegroundOK'
  BY ServerFrame, SyncFrame DEF IInv, ForegroundOK, StartHarbrr
<1> QED
  BY <1>2, <1>3, <1>4 DEF IInv

LEMMA HarbrrInBackgroundKeeps ==
  ASSUME IInv, UNCHANGED workload, HarbrrInBackground
  PROVE  IInv'
<1> USE DEF serverVars, syncVars
<1>1. /\ reasons' \subseteq Reasons /\ foreground' \in Reasons \cup {None} /\ ForegroundOK'
      /\ "server" \in reasons' => "server" \in reasons
  BY ReasonTaken DEF IInv, TypeOK, PlatformTypes, HarbrrInBackground, Reasons
<1>2. TypeOK'
  <2>1. HarbrrTypes'
    BY <1>1 DEF IInv, TypeOK, HarbrrTypes, HarbrrInBackground
  <2>2. PlatformTypes' /\ CallTypes'
    BY <1>1 DEF IInv, TypeOK, PlatformTypes, CallTypes, HarbrrInBackground
  <2> QED
    BY <1>1, <2>1, <2>2, TypesFrame DEF IInv, TypeOK, HarbrrInBackground
<1>3. HarbrrOK'
  <2>1. instances \in Instances /\ watcher'[instances] = "waiting"
    BY DEF IInv, TypeOK, HarbrrTypes, HarbrrOK, HarbrrInBackground
  <2> QED
    BY <2>1 DEF IInv, HarbrrOK, HarbrrInBackground
<1>4. ServerOK' /\ SyncOK'
  BY <1>1, ServerFrame, SyncFrame DEF IInv, HarbrrInBackground
<1> QED
  BY <1>1, <1>2, <1>3, <1>4 DEF IInv

LEMMA HarbrrEndsKeeps ==
  ASSUME IInv, UNCHANGED workload, NEW i \in Instances, HarbrrEnds(i)
  PROVE  IInv'
<1> USE DEF serverVars, syncVars, platformVars
<1>1. TypeOK'
  <2>1. HarbrrTypes'
    BY DEF IInv, TypeOK, HarbrrTypes, HarbrrEnds
  <2>2. PlatformTypes' /\ CallTypes'
    BY DEF IInv, TypeOK, PlatformTypes, CallTypes, HarbrrEnds
  <2> QED
    BY <2>1, <2>2, TypesFrame DEF IInv, TypeOK, HarbrrEnds
<1>2. HarbrrOK'
  BY DEF IInv, HarbrrOK, HarbrrEnds
<1>3. ServerOK' /\ SyncOK' /\ ForegroundOK'
  BY ServerFrame, SyncFrame DEF IInv, ForegroundOK, HarbrrEnds
<1> QED
  BY <1>1, <1>2, <1>3 DEF IInv

LEMMA WaitForHarbrrKeeps ==
  ASSUME IInv, UNCHANGED workload, NEW i \in Instances, WaitForHarbrr(i)
  PROVE  IInv'
<1> USE DEF serverVars, syncVars, platformVars
<1>1. TypeOK'
  <2>1. HarbrrTypes'
    BY DEF IInv, TypeOK, HarbrrTypes, WaitForHarbrr
  <2>2. PlatformTypes' /\ CallTypes'
    BY DEF IInv, TypeOK, PlatformTypes, CallTypes, WaitForHarbrr
  <2> QED
    BY <2>1, <2>2, TypesFrame DEF IInv, TypeOK, WaitForHarbrr
<1>2. HarbrrOK'
  <2>1. watcher'[i] = "ended" /\ UNCHANGED <<operation, instances, alive, reasons>>
    BY DEF IInv, TypeOK, HarbrrTypes, WaitForHarbrr
  <2>2. alive \subseteq {harbrr'}
    BY DEF IInv, HarbrrOK, WaitForHarbrr
  <2> QED
    BY <2>1, <2>2 DEF IInv, HarbrrOK
<1>3. ServerOK' /\ SyncOK' /\ ForegroundOK'
  BY ServerFrame, SyncFrame DEF IInv, ForegroundOK, WaitForHarbrr
<1> QED
  BY <1>1, <1>2, <1>3 DEF IInv

LEMMA HarbrrOutOfBackgroundKeeps ==
  ASSUME IInv, UNCHANGED workload, NEW i \in Instances, HarbrrOutOfBackground(i)
  PROVE  IInv'
<1> USE DEF serverVars, syncVars
<1>1. /\ reasons' \subseteq Reasons /\ foreground' \in Reasons \cup {None} /\ ForegroundOK'
      /\ "harbrr" \notin reasons'
      /\ "server" \in reasons' => "server" \in reasons
  BY ReasonGivenUp DEF IInv, TypeOK, PlatformTypes, HarbrrOutOfBackground, Reasons
<1>2. TypeOK'
  <2>1. HarbrrTypes'
    BY <1>1 DEF IInv, TypeOK, HarbrrTypes, HarbrrOutOfBackground
  <2>2. PlatformTypes' /\ CallTypes'
    BY <1>1 DEF IInv, TypeOK, PlatformTypes, CallTypes, HarbrrOutOfBackground
  <2> QED
    BY <1>1, <2>1, <2>2, TypesFrame DEF IInv, TypeOK, HarbrrOutOfBackground
<1>3. HarbrrOK'
  BY <1>1 DEF IInv, HarbrrOK, HarbrrOutOfBackground
<1>4. ServerOK' /\ SyncOK'
  BY <1>1, ServerFrame, SyncFrame DEF IInv, HarbrrOutOfBackground
<1> QED
  BY <1>1, <1>2, <1>3, <1>4 DEF IInv

LEMMA StopHarbrrKeeps ==
  ASSUME IInv, UNCHANGED workload, StopHarbrr
  PROVE  IInv'
<1> USE DEF serverVars, syncVars, platformVars
<1>1. TypeOK'
  <2>1. HarbrrTypes'
    BY DEF IInv, TypeOK, HarbrrTypes, StopHarbrr
  <2>2. PlatformTypes' /\ CallTypes'
    BY DEF IInv, TypeOK, PlatformTypes, CallTypes, StopHarbrr
  <2> QED
    BY <2>1, <2>2, TypesFrame DEF IInv, TypeOK, StopHarbrr
<1>2. HarbrrOK'
  BY DEF IInv, HarbrrOK, StopHarbrr
<1>3. ServerOK' /\ SyncOK' /\ ForegroundOK'
  BY ServerFrame, SyncFrame DEF IInv, ForegroundOK, StopHarbrr
<1> QED
  BY <1>1, <1>2, <1>3 DEF IInv

LEMMA StopHarbrrReturnsKeeps ==
  ASSUME IInv, UNCHANGED workload, StopHarbrrReturns
  PROVE  IInv'
<1> USE DEF serverVars, syncVars
<1>1. /\ reasons' \subseteq Reasons /\ foreground' \in Reasons \cup {None} /\ ForegroundOK'
      /\ "harbrr" \notin reasons'
      /\ "server" \in reasons' => "server" \in reasons
  BY ReasonGivenUp DEF IInv, TypeOK, PlatformTypes, StopHarbrrReturns, Reasons
<1>2. TypeOK'
  <2>1. HarbrrTypes'
    BY <1>1 DEF IInv, TypeOK, HarbrrTypes, StopHarbrrReturns
  <2>2. PlatformTypes' /\ CallTypes'
    BY <1>1 DEF IInv, TypeOK, PlatformTypes, CallTypes, StopHarbrrReturns
  <2> QED
    BY <1>1, <2>1, <2>2, TypesFrame DEF IInv, TypeOK, StopHarbrrReturns
<1>3. HarbrrOK'
  BY <1>1 DEF IInv, HarbrrOK, StopHarbrrReturns
<1>4. ServerOK' /\ SyncOK'
  BY <1>1, ServerFrame, SyncFrame DEF IInv, StopHarbrrReturns
<1> QED
  BY <1>1, <1>2, <1>3, <1>4 DEF IInv

-------------------------------------------------------------------------------
(* App Sync. *)

\* Steps that leave the sessions alone.
LEMMA StartAppSyncKeeps ==
  ASSUME IInv, UNCHANGED workload,
         StartAppSync \/ AppSyncFails \/ AppSyncReturns \/ InstallRooted \/ InstallRootedReturns
  PROVE  IInv'
<1> USE DEF serverVars, harbrrVars, platformVars
<1>1. /\ busy' \in BOOLEAN /\ installing' \in BOOLEAN
      /\ syncing' = syncing \/ syncing' \in {"idle", "downloading"}
      /\ UNCHANGED <<operation, syncServer, sessions, server80, serving, stopSync, stopSession,
                     serverVars, harbrrVars, platformVars>>
  BY DEF IInv, TypeOK, SyncTypes, StartAppSync, AppSyncFails, AppSyncReturns, InstallRooted, InstallRootedReturns
<1>2. TypeOK'
  <2>1. SyncTypes'
    BY <1>1 DEF IInv, TypeOK, SyncTypes
  <2>2. PlatformTypes' /\ CallTypes'
    BY <1>1 DEF IInv, TypeOK, PlatformTypes, CallTypes
  <2> QED
    BY <1>1, <2>1, <2>2, TypesFrame DEF IInv, TypeOK
<1>3. SyncOK'
  BY <1>1 DEF IInv, SyncOK, SessionOK
<1>4. ServerOK' /\ HarbrrOK' /\ ForegroundOK'
  BY <1>1, ServerFrame, HarbrrFrame DEF IInv, ForegroundOK
<1> QED
  BY <1>2, <1>3, <1>4 DEF IInv

LEMMA PublishAppSyncKeeps ==
  ASSUME IInv, UNCHANGED workload, PublishAppSync
  PROVE  IInv'
<1> USE DEF serverVars, harbrrVars, platformVars
<1>1. sessions' = sessions + 1 /\ sessions' \in Sessions /\ sessions \in Nat
  <2>1. sessions \in Nat /\ sessions < workload.sessions
    BY Counters DEF IInv, PublishAppSync
  <2>2. workload.sessions <= MaxSessions /\ workload.sessions \in Nat /\ MaxSessions \in Nat
    BY Numbers, BoundsAssumption DEF IInv, TypeOK, CallTypes
  <2>3. sessions' = sessions + 1
    BY DEF PublishAppSync
  <2> QED
    BY <2>1, <2>2, <2>3 DEF Sessions
<1>2. TypeOK'
  <2>1. sessions' \in 0 .. MaxSessions
    BY <1>1 DEF Sessions
  <2>2. SyncTypes'
    BY <1>1, <2>1 DEF IInv, TypeOK, SyncTypes, PublishAppSync
  <2>3. PlatformTypes' /\ CallTypes'
    BY DEF IInv, TypeOK, PlatformTypes, CallTypes, PublishAppSync
  <2> QED
    BY <2>2, <2>3, TypesFrame DEF IInv, TypeOK, PublishAppSync
<1>3. SyncOK'
  <2>1. ASSUME NEW k \in Sessions PROVE SessionOK(k)'
    <3>1. CASE k = sessions'
      <4>1. serving[k] = "none"
        BY <1>1, <3>1 DEF IInv, SyncOK, SessionOK, Sessions
      <4>2. serving' = serving /\ syncServer' = k /\ ~(k > sessions')
        BY <1>1, <3>1 DEF PublishAppSync
      <4> QED
        BY <4>1, <4>2 DEF SessionOK
    <3>2. CASE k # sessions'
      <4>1. server80'[k] = server80[k] /\ server80[k] # "open" /\ serving' = serving
        BY <3>2 DEF IInv, TypeOK, SyncTypes, PublishAppSync
      <4>2. k > sessions' => k > sessions
        BY <1>1 DEF Sessions
      <4> QED
        BY <4>1, <4>2 DEF IInv, SyncOK, SessionOK
    <3> QED
      BY <3>1, <3>2
  <2>2. \A d \in SyncStoppers : stopSync[d] = "shutdown" =>
          stopSession[d] \in Sessions /\ stopSession[d] <= sessions'
    BY <1>1 DEF IInv, SyncOK, Sessions
  <2> QED
    BY <1>1, <2>1, <2>2 DEF SyncOK, PublishAppSync
<1>4. ServerOK' /\ HarbrrOK' /\ ForegroundOK'
  BY ServerFrame, HarbrrFrame DEF IInv, ForegroundOK, PublishAppSync
<1> QED
  BY <1>2, <1>3, <1>4 DEF IInv

LEMMA AppSyncInBackgroundKeeps ==
  ASSUME IInv, UNCHANGED workload, AppSyncInBackground
  PROVE  IInv'
<1> USE DEF serverVars, harbrrVars
<1>1. /\ reasons' \subseteq Reasons /\ foreground' \in Reasons \cup {None} /\ ForegroundOK'
      /\ "server" \in reasons' => "server" \in reasons
      /\ "harbrr" \in reasons' => "harbrr" \in reasons
  BY ReasonTaken DEF IInv, TypeOK, PlatformTypes, AppSyncInBackground, Reasons
<1>2. TypeOK'
  <2>1. SyncTypes'
    BY <1>1 DEF IInv, TypeOK, SyncTypes, AppSyncInBackground
  <2>2. PlatformTypes' /\ CallTypes'
    BY <1>1 DEF IInv, TypeOK, PlatformTypes, CallTypes, AppSyncInBackground
  <2> QED
    BY <1>1, <2>1, <2>2, TypesFrame DEF IInv, TypeOK, AppSyncInBackground
<1>3. SyncOK'
  <2>1. sessions \in Sessions /\ sessions \in Nat /\ ~(sessions > sessions)
    BY Counters DEF IInv, SyncOK, AppSyncInBackground
  <2>2. \A k \in Sessions : serving'[k] = IF k = sessions THEN "starting" ELSE serving[k]
    BY DEF IInv, TypeOK, SyncTypes, AppSyncInBackground
  <2>3. /\ UNCHANGED <<syncServer, sessions, server80, stopSync, stopSession>>
        /\ syncing' # "published"
    BY DEF AppSyncInBackground
  <2>4. ASSUME NEW k \in Sessions PROVE SessionOK(k)'
    BY <2>1, <2>2, <2>3 DEF IInv, SyncOK, SessionOK
  <2> QED
    BY <2>3, <2>4 DEF IInv, SyncOK
<1>4. ServerOK' /\ HarbrrOK'
  BY <1>1, ServerFrame, HarbrrFrame DEF IInv, AppSyncInBackground
<1> QED
  BY <1>1, <1>2, <1>3, <1>4 DEF IInv

\* The goroutine that serves a session touches that session only.
LEMMA ServingKeeps ==
  ASSUME IInv, UNCHANGED workload, NEW k \in Sessions,
         ServeAppSync(k) \/ ServeAppSyncReturns(k) \/ AppSyncBreaks(k) \/ ClearAppSync(k)
  PROVE  IInv'
<1> USE DEF serverVars, harbrrVars, platformVars
<1> DEFINE Rest == UNCHANGED <<operation, busy, syncing, installing, sessions, stopSync, stopSession,
                               serverVars, harbrrVars, platformVars>>
<1>1. Rest
  BY DEF ServeAppSync, ServeAppSyncReturns, AppSyncBreaks, ClearAppSync
<1>2. \/ serving[k] = "starting" /\ serving'[k] = "serving" /\ UNCHANGED <<server80, syncServer>>
      \/ /\ serving[k] = "starting" /\ serving'[k] = "gone" /\ server80'[k] = "closed"
         /\ UNCHANGED syncServer
      \/ serving[k] = "serving" /\ serving'[k] = "gone" /\ UNCHANGED <<server80, syncServer>>
      \/ /\ serving[k] = "serving" /\ serving'[k] = "failed" /\ server80'[k] = "closed"
         /\ UNCHANGED syncServer
      \/ /\ serving[k] = "failed" /\ serving'[k] = "ended" /\ UNCHANGED server80
         /\ syncServer' = IF syncServer = k THEN None ELSE syncServer
  BY DEF IInv, TypeOK, SyncTypes, ServeAppSync, ServeAppSyncReturns, AppSyncBreaks, ClearAppSync
<1>3. \A j \in Sessions \ {k} : serving'[j] = serving[j] /\ server80'[j] = server80[j]
  BY DEF IInv, TypeOK, SyncTypes, ServeAppSync, ServeAppSyncReturns, AppSyncBreaks, ClearAppSync
<1>4. TypeOK'
  <2>1. /\ serving' \in [Sessions -> {"none", "starting", "serving", "failed", "ended", "gone"}]
        /\ server80' \in [Sessions -> {"none", "open", "shut", "closed"}]
        /\ syncServer' \in Sessions \cup {None}
    BY DEF IInv, TypeOK, SyncTypes, ServeAppSync, ServeAppSyncReturns, AppSyncBreaks, ClearAppSync
  <2>2. SyncTypes'
    BY <1>1, <2>1 DEF IInv, TypeOK, SyncTypes
  <2>3. PlatformTypes' /\ CallTypes'
    BY <1>1 DEF IInv, TypeOK, PlatformTypes, CallTypes
  <2> QED
    BY <1>1, <2>2, <2>3, TypesFrame DEF IInv, TypeOK
<1>5. SyncOK'
  <2>1. SessionOK(k)'
    BY <1>1, <1>2 DEF IInv, SyncOK, SessionOK
  <2>2. ASSUME NEW j \in Sessions \ {k} PROVE SessionOK(j)'
    <3>1. syncServer = j => syncServer' = j
      BY <1>2
    <3> QED
      BY <1>1, <1>3, <3>1 DEF IInv, SyncOK, SessionOK
  <2>3. syncServer' # None => syncServer' = syncServer
    BY <1>2
  <2> QED
    BY <1>1, <2>1, <2>2, <2>3 DEF IInv, SyncOK
<1>6. ServerOK' /\ HarbrrOK' /\ ForegroundOK'
  BY <1>1, ServerFrame, HarbrrFrame DEF IInv, ForegroundOK
<1> QED
  BY <1>4, <1>5, <1>6 DEF IInv

LEMMA AppSyncOutOfBackgroundKeeps ==
  ASSUME IInv, UNCHANGED workload, NEW k \in Sessions, AppSyncOutOfBackground(k)
  PROVE  IInv'
<1> USE DEF serverVars, harbrrVars
<1>1. /\ reasons' \subseteq Reasons /\ foreground' \in Reasons \cup {None} /\ ForegroundOK'
      /\ "server" \in reasons' => "server" \in reasons
      /\ "harbrr" \in reasons' => "harbrr" \in reasons
  BY ReasonGivenUp DEF IInv, TypeOK, PlatformTypes, AppSyncOutOfBackground, Reasons
<1>2. TypeOK'
  <2>1. SyncTypes'
    BY <1>1 DEF IInv, TypeOK, SyncTypes, AppSyncOutOfBackground
  <2>2. PlatformTypes' /\ CallTypes'
    BY <1>1 DEF IInv, TypeOK, PlatformTypes, CallTypes, AppSyncOutOfBackground
  <2> QED
    BY <1>1, <2>1, <2>2, TypesFrame DEF IInv, TypeOK, AppSyncOutOfBackground
<1>3. SyncOK'
  <2>1. \A j \in Sessions : \/ serving'[j] = serving[j]
                            \/ serving[j] = "ended" /\ serving'[j] = "gone"
    BY DEF IInv, TypeOK, SyncTypes, AppSyncOutOfBackground
  <2>2. UNCHANGED <<syncing, syncServer, sessions, server80, stopSync, stopSession>>
    BY DEF AppSyncOutOfBackground
  <2>3. ASSUME NEW j \in Sessions PROVE SessionOK(j)'
    BY <2>1, <2>2 DEF IInv, SyncOK, SessionOK
  <2> QED
    BY <2>2, <2>3 DEF IInv, SyncOK
<1>4. ServerOK' /\ HarbrrOK'
  BY <1>1, ServerFrame, HarbrrFrame DEF IInv, AppSyncOutOfBackground
<1> QED
  BY <1>1, <1>2, <1>3, <1>4 DEF IInv

\* The session leaves the field and comes to the caller.
LEMMA StopAppSyncKeeps ==
  ASSUME IInv, UNCHANGED workload, NEW c \in SyncStoppers, StopAppSync(c)
  PROVE  IInv'
<1> USE DEF serverVars, harbrrVars, platformVars
<1>1. TypeOK'
  <2>1. SyncTypes'
    BY DEF IInv, TypeOK, SyncTypes, StopAppSync
  <2>2. PlatformTypes' /\ CallTypes'
    BY DEF IInv, TypeOK, PlatformTypes, CallTypes, StopAppSync
  <2> QED
    BY <2>1, <2>2, TypesFrame DEF IInv, TypeOK, StopAppSync
<1>2. SyncOK'
  <2>1. UNCHANGED <<syncing, sessions, server80, serving>>
    BY DEF StopAppSync
  <2>2. /\ syncServer # None => stopSync'[c] = "shutdown" /\ stopSession'[c] = syncServer
        /\ syncServer = None => stopSync'[c] = "down"
        /\ stopSync[c] = "idle"
        /\ \A d \in SyncStoppers \ {c} : stopSync'[d] = stopSync[d] /\ stopSession'[d] = stopSession[d]
    BY DEF IInv, TypeOK, SyncTypes, StopAppSync
  <2>3. ASSUME NEW k \in Sessions PROVE SessionOK(k)'
    <3>1. ASSUME server80[k] = "open"
          PROVE  \E d \in SyncStoppers : stopSync'[d] = "shutdown" /\ stopSession'[d] = k
      <4>1. CASE syncServer = k
        BY <2>2, <4>1, Numbers
      <4>2. CASE syncServer # k
        <5>1. PICK d \in SyncStoppers : stopSync[d] = "shutdown" /\ stopSession[d] = k
          BY <3>1, <4>2 DEF IInv, SyncOK, SessionOK
        <5> QED
          BY <2>2, <5>1
      <4> QED
        BY <4>1, <4>2
    <3> QED
      BY <2>1, <3>1 DEF IInv, SyncOK, SessionOK
  <2>4. /\ syncServer' = None
        /\ \A d \in SyncStoppers : stopSync'[d] = "shutdown" =>
             stopSession'[d] \in Sessions /\ stopSession'[d] <= sessions
    BY <2>2 DEF IInv, TypeOK, SyncTypes, SyncOK, StopAppSync
  <2> QED
    BY <2>1, <2>3, <2>4 DEF IInv, SyncOK
<1>3. ServerOK' /\ HarbrrOK' /\ ForegroundOK'
  BY ServerFrame, HarbrrFrame DEF IInv, ForegroundOK, StopAppSync
<1> QED
  BY <1>1, <1>2, <1>3 DEF IInv

LEMMA ShutdownAppSyncKeeps ==
  ASSUME IInv, UNCHANGED workload, NEW c \in SyncStoppers, ShutdownAppSync(c)
  PROVE  IInv'
<1> USE DEF serverVars, harbrrVars, platformVars
<1> DEFINE k == stopSession[c]
<1>1. k \in Sessions /\ k <= sessions /\ stopSync[c] = "shutdown"
  BY DEF IInv, SyncOK, ShutdownAppSync
<1>2. TypeOK'
  <2>1. SyncTypes'
    BY DEF IInv, TypeOK, SyncTypes, ShutdownAppSync
  <2>2. PlatformTypes' /\ CallTypes'
    BY DEF IInv, TypeOK, PlatformTypes, CallTypes, ShutdownAppSync
  <2> QED
    BY <2>1, <2>2, TypesFrame DEF IInv, TypeOK, ShutdownAppSync
<1>3. SyncOK'
  <2>1. UNCHANGED <<syncing, sessions, serving, syncServer, stopSession>>
    BY DEF ShutdownAppSync
  <2>2. server80'[k] = IF serving[k] \in {"none", "starting"} THEN "shut" ELSE "closed"
    BY <1>1 DEF IInv, TypeOK, SyncTypes, ShutdownAppSync
  <2>3. /\ \A j \in Sessions \ {k} : server80'[j] = server80[j]
        /\ stopSync'[c] = "down"
        /\ \A d \in SyncStoppers \ {c} : stopSync'[d] = stopSync[d]
    BY DEF IInv, TypeOK, SyncTypes, ShutdownAppSync
  <2>4. ASSUME NEW j \in Sessions \ {k} PROVE SessionOK(j)'
    BY <2>1, <2>3 DEF IInv, SyncOK, SessionOK
  <2>5. SessionOK(k)'
    <3>1. ~(k > sessions)
      BY <1>1, Counters DEF IInv, Sessions
    <3> QED
      BY <1>1, <2>1, <2>2, <3>1 DEF IInv, SyncOK, SessionOK
  <2> QED
    BY <2>1, <2>3, <2>4, <2>5 DEF IInv, SyncOK
<1>4. ServerOK' /\ HarbrrOK' /\ ForegroundOK'
  BY ServerFrame, HarbrrFrame DEF IInv, ForegroundOK, ShutdownAppSync
<1> QED
  BY <1>2, <1>3, <1>4 DEF IInv

LEMMA StopAppSyncReturnsKeeps ==
  ASSUME IInv, UNCHANGED workload, NEW c \in SyncStoppers, StopAppSyncReturns(c)
  PROVE  IInv'
<1> USE DEF serverVars, harbrrVars
<1>1. /\ reasons' \subseteq Reasons /\ foreground' \in Reasons \cup {None} /\ ForegroundOK'
      /\ "server" \in reasons' => "server" \in reasons
      /\ "harbrr" \in reasons' => "harbrr" \in reasons
  BY ReasonGivenUp DEF IInv, TypeOK, PlatformTypes, StopAppSyncReturns, Reasons
<1>2. TypeOK'
  <2>1. SyncTypes'
    BY <1>1 DEF IInv, TypeOK, SyncTypes, StopAppSyncReturns
  <2>2. PlatformTypes' /\ CallTypes'
    BY <1>1 DEF IInv, TypeOK, PlatformTypes, CallTypes, StopAppSyncReturns
  <2> QED
    BY <1>1, <2>1, <2>2, TypesFrame DEF IInv, TypeOK, StopAppSyncReturns
<1>3. SyncOK'
  <2>1. \A d \in SyncStoppers : /\ stopSync'[d] = "shutdown" <=> stopSync[d] = "shutdown"
                                /\ stopSync[d] = "shutdown" => stopSession'[d] = stopSession[d]
    BY DEF IInv, TypeOK, SyncTypes, StopAppSyncReturns
  <2>2. UNCHANGED <<syncing, syncServer, sessions, server80, serving>>
    BY DEF StopAppSyncReturns
  <2>3. ASSUME NEW k \in Sessions PROVE SessionOK(k)'
    <3>1. ASSUME NEW d \in SyncStoppers, stopSync[d] = "shutdown" /\ stopSession[d] = k
          PROVE  stopSync'[d] = "shutdown" /\ stopSession'[d] = k
      BY <2>1, <3>1
    <3> QED
      BY <2>2, <3>1 DEF IInv, SyncOK, SessionOK
  <2> QED
    BY <2>1, <2>2, <2>3 DEF IInv, SyncOK
<1>4. ServerOK' /\ HarbrrOK'
  BY <1>1, ServerFrame, HarbrrFrame DEF IInv, StopAppSyncReturns
<1> QED
  BY <1>1, <1>2, <1>3, <1>4 DEF IInv

-------------------------------------------------------------------------------
(* The theorems. *)

LEMMA InitInv == Init => IInv
<1> SUFFICES ASSUME Init PROVE IInv
  OBVIOUS
<1>1. TypeOK
  <2>1. 0 \in 0 .. MaxRuns /\ 0 \in 0 .. MaxInstances /\ 0 \in 0 .. MaxSessions
    BY BoundsAssumption
  <2> QED
    BY <2>1 DEF Init, Server!Init, TypeOK, ServerTypes, HarbrrTypes, SyncTypes, PlatformTypes, CallTypes
<1>2. ServerOK /\ HarbrrOK /\ ForegroundOK
  BY DEF Init, ServerOK, HarbrrOK, ForegroundOK
<1>3. SyncOK
  BY DEF Init, SyncOK, SessionOK
<1> QED
  BY <1>1, <1>2, <1>3 DEF IInv

\* One case per action.
LEMMA StepInv == IInv /\ [Next]_vars => IInv'
<1> SUFFICES ASSUME IInv, [Next]_vars PROVE IInv'
  OBVIOUS
<1>1. CASE UNCHANGED vars
  <2>1. UNCHANGED <<operation, workload, serverVars, harbrrVars, syncVars, platformVars>>
    BY <1>1 DEF vars, serviceVars
  <2>2. TypeOK'
    BY <2>1, TypesFrame DEF IInv, TypeOK, PlatformTypes, CallTypes, platformVars
  <2>3. ServerOK' /\ HarbrrOK' /\ SyncOK' /\ ForegroundOK'
    BY <2>1, ServerFrame, HarbrrFrame, SyncFrame
       DEF IInv, ForegroundOK, serverVars, harbrrVars, syncVars, platformVars
  <2> QED
    BY <2>2, <2>3 DEF IInv
<1>2. CASE Next
  <2>1. UNCHANGED workload
    BY <1>2 DEF Next
  <2>2. CASE StartServer \/ StopServer \/ ServerCall \/ EndRun \/ CloseDone
    BY <2>1, <2>2, StartServerKeeps, StopServerKeeps, ServerInBackgroundKeeps, StopServerReturnsKeeps,
       RunEndsKeeps DEF ServerCall
  <2>3. ASSUME NEW r \in Runs, ServerWaiter(r) PROVE IInv'
    BY <2>1, <2>3, WaitForServerKeeps, ServerEndedKeeps, ServerOutOfBackgroundKeeps DEF ServerWaiter
  <2>4. CASE StartHarbrr \/ StopHarbrr \/ HarbrrCall
    BY <2>1, <2>4, StartHarbrrKeeps, StopHarbrrKeeps, HarbrrInBackgroundKeeps, StopHarbrrReturnsKeeps
       DEF HarbrrCall
  <2>5. ASSUME NEW i \in Instances, HarbrrEnds(i) \/ HarbrrWaiter(i) PROVE IInv'
    BY <2>1, <2>5, HarbrrEndsKeeps, WaitForHarbrrKeeps, HarbrrOutOfBackgroundKeeps DEF HarbrrWaiter
  <2>6. CASE StartAppSync \/ SyncStarter \/ InstallRooted \/ InstallRootedReturns
    BY <2>1, <2>6, StartAppSyncKeeps, PublishAppSyncKeeps, AppSyncInBackgroundKeeps DEF SyncStarter
  <2>7. ASSUME NEW k \in Sessions, SyncServing(k) \/ AppSyncBreaks(k) PROVE IInv'
    BY <2>1, <2>7, ServingKeeps, AppSyncOutOfBackgroundKeeps DEF SyncServing
  <2>8. ASSUME NEW c \in SyncStoppers, StopAppSync(c) \/ SyncStopper(c) PROVE IInv'
    BY <2>1, <2>8, StopAppSyncKeeps, ShutdownAppSyncKeeps, StopAppSyncReturnsKeeps DEF SyncStopper
  <2> QED
    BY <1>2, <2>2, <2>3, <2>4, <2>5, <2>6, <2>7, <2>8 DEF Next, Step
<1> QED
  BY <1>1, <1>2

\* The inductive invariant holds.
THEOREM Invariance == Spec => []IInv
<1>1. Init => IInv
  BY InitInv
<1>2. IInv /\ [Next]_vars => IInv'
  BY StepInv
<1> QED
  BY <1>1, <1>2, PTL DEF Spec

\* App Sync is a reason while a session is published, until who stops it or was to serve
\* it has given the reason up; or from the moment it became one too late.
SyncReasonOK == "app-sync" \in reasons => ~SyncQuiet \/ syncServer # None \/ late

LEMMA SyncReasonStep == IInv /\ SyncReasonOK /\ [Next]_vars => SyncReasonOK'
<1> SUFFICES ASSUME IInv, SyncReasonOK, [Next]_vars PROVE SyncReasonOK'
  OBVIOUS
<1> USE DEF SyncReasonOK, SyncQuiet
<1>1. CASE UNCHANGED vars
  BY <1>1 DEF vars, serviceVars, syncVars, platformVars
<1>2. CASE Next
  <2>1. Step /\ MarksLate /\ SyncTypes
    BY <1>2 DEF Next, IInv, TypeOK
  <2>2. CASE UNCHANGED <<syncing, stopSync, serving, syncServer>> /\ ("app-sync" \in reasons' => "app-sync" \in reasons)
    BY <2>1, <2>2 DEF MarksLate
  <2>3. ASSUME \E x \in {"server", "harbrr"} : StartPlatformBackground(x) \/ StopPlatformBackground(x)
        PROVE  "app-sync" \in reasons' => "app-sync" \in reasons
    BY <2>3 DEF StartPlatformBackground, StopPlatformBackground
  <2>4. CASE \/ StartServer \/ StopServer \/ ServerCall \/ EndRun \/ CloseDone
             \/ \E r \in Runs : ServerWaiter(r)
    BY <2>2, <2>3, <2>4
       DEF StartServer, StopServer, ServerCall, ServerInBackground, StopServerReturns, EndRun, CloseDone,
           ServerWaiter, WaitForServer, ServerEnded, ServerOutOfBackground, syncVars, platformVars
  <2>5. CASE \/ StartHarbrr \/ StopHarbrr \/ HarbrrCall
             \/ \E i \in Instances : HarbrrEnds(i) \/ HarbrrWaiter(i)
    BY <2>2, <2>3, <2>5
       DEF StartHarbrr, StopHarbrr, HarbrrCall, HarbrrInBackground, StopHarbrrReturns, HarbrrEnds,
           HarbrrWaiter, WaitForHarbrr, HarbrrOutOfBackground, syncVars, platformVars
  <2>6. CASE AppSyncInBackground
    <3>1. late' = (late \/ syncServer # sessions) /\ syncServer' = syncServer
      BY <2>1, <2>6 DEF AppSyncInBackground, MarksLate
    <3>2. None # sessions
      BY Counters, BoundsAssumption DEF IInv
    <3> QED
      BY <3>1, <3>2
  <2>7. CASE StartAppSync \/ AppSyncFails \/ AppSyncReturns \/ InstallRooted \/ InstallRootedReturns
    BY <2>1, <2>7
       DEF StartAppSync, AppSyncFails, AppSyncReturns, InstallRooted, InstallRootedReturns, MarksLate, platformVars
  <2>8. CASE PublishAppSync
    <3>1. syncServer' # None
      BY <2>8, Counters, BoundsAssumption DEF IInv, PublishAppSync
    <3> QED
      BY <3>1
  <2>9. ASSUME NEW k \in Sessions, SyncServing(k) \/ AppSyncBreaks(k) PROVE SyncReasonOK'
    <3>1. CASE AppSyncOutOfBackground(k)
      BY <3>1 DEF AppSyncOutOfBackground, StopPlatformBackground
    <3>2. CASE ClearAppSync(k) \/ AppSyncBreaks(k)
      <4>1. serving'[k] \in {"failed", "ended"}
        BY <2>1, <3>2 DEF ClearAppSync, AppSyncBreaks, SyncTypes
      <4> QED
        BY <4>1
    <3>3. CASE ServeAppSync(k) \/ ServeAppSyncReturns(k)
      <4>1. \A l \in Sessions : serving[l] \in {"failed", "ended"} => serving'[l] = serving[l]
        BY <2>1, <3>3 DEF ServeAppSync, ServeAppSyncReturns, SyncTypes
      <4>2. UNCHANGED <<syncing, stopSync, syncServer, reasons>>
        BY <3>3 DEF ServeAppSync, ServeAppSyncReturns, platformVars
      <4>3. late => late'
        BY <2>1, <4>2 DEF MarksLate
      <4> QED
        BY <4>1, <4>2, <4>3
    <3> QED
      BY <2>9, <3>1, <3>2, <3>3 DEF SyncServing
  <2>10. ASSUME NEW c \in SyncStoppers, StopAppSync(c) \/ SyncStopper(c) PROVE SyncReasonOK'
    <3>1. CASE StopAppSyncReturns(c)
      BY <3>1 DEF StopAppSyncReturns, StopPlatformBackground
    <3>2. CASE StopAppSync(c) \/ ShutdownAppSync(c)
      <4>1. stopSync'[c] # "idle"
        BY <2>1, <3>2 DEF StopAppSync, ShutdownAppSync, SyncTypes
      <4> QED
        BY <4>1
    <3> QED
      BY <2>10, <3>1, <3>2 DEF SyncStopper
  <2> QED
    BY <2>1, <2>4, <2>5, <2>6, <2>7, <2>8, <2>9, <2>10 DEF Step, SyncStarter
<1> QED
  BY <1>1, <1>2

\* The notification of the foreground service always names a service that is a reason
\* for it, and once every call and goroutine of a service has done its part it is no
\* reason when it has ended, but for a session of App Sync that was stopped before it
\* became one (StartServer, StopServer, waitForHarbrr, StartAppSync, StopAppSync).
THEOREM NoReasonWithoutService == Spec => []ForegroundHasReason
<1>1. IInv /\ SyncReasonOK => ForegroundHasReason
  <2> SUFFICES ASSUME IInv, SyncReasonOK PROVE ForegroundHasReason
    OBVIOUS
  <2>1. ASSUME ServerQuiet, current = None PROVE "server" \notin reasons
    BY <2>1 DEF ServerQuiet, IInv, ServerOK
  <2>2. ASSUME HarbrrQuiet, harbrr = None PROVE "harbrr" \notin reasons
    <3>1. \A i \in Instances : i \notin alive
      BY <2>2, Numbers DEF IInv, HarbrrOK
    <3> QED
      BY <2>2, <3>1 DEF HarbrrQuiet, IInv, HarbrrOK
  <2> QED
    BY <2>1, <2>2 DEF ForegroundHasReason, SyncReasonOK, IInv, ForegroundOK
<1>2. Init => SyncReasonOK
  BY DEF Init, SyncReasonOK
<1> QED
  BY <1>1, <1>2, Invariance, SyncReasonStep, PTL DEF Spec

\* Neither the goroutine of an earlier instance of Harbrr nor that of an earlier
\* session of App Sync makes the companion forget one that runs.
THEOREM NothingRunsForgotten == Spec => []InstancesTracked
<1>1. IInv => InstancesTracked
  BY DEF IInv, HarbrrOK, SyncOK, SessionOK, InstancesTracked
<1> QED
  BY <1>1, Invariance, PTL
===============================================================================
