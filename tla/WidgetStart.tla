---------------------------- MODULE WidgetStart ----------------------------
(***************************************************************************)
(* How the widget reaches its first list (Main.js): it starts the server   *)
(* of a rooted television or looks for one on the network, asks it whether *)
(* it runs, has it restart its torrent client, and asks for the films.     *)
(* Each step is a callback or a timer that sets the next off; a chain of   *)
(* them runs at a time, and start is where it is.                          *)
(*                                                                         *)
(* The addresses looked at are left out: one of them answers, or none.     *)
(***************************************************************************)
EXTENDS MainPage

VARIABLE start

Stages == {"none",
           "launching",      \* StartStopWRServer: server.init asked for, with a 10 s timer
           "launched",       \* 6 s
           "askingOwn",     \* IsTheServerStarted, with a 10 s timer
           "looking",        \* FindLocalServer, with a 120 s timer
           "found",          \* 2 s
           "asking",         \* IsTheServerStarted again
           "restarting",     \* RestartServer, with a 5 s timer
           "restarted"}      \* 2 s

MainInit ==
  /\ querytype = FirstList /\ wrapData = << >> /\ position = 0
  /\ page = 1 /\ totalpages = 1 /\ tmdbPagePending = FALSE
  /\ cards = Blank /\ selected = {} /\ scroll = NoScroll
  /\ searcherror = FALSE /\ faverror = FALSE
  /\ justexit = FALSE /\ isrunning = FALSE /\ noTryAgain = FALSE /\ findserver = FALSE
  /\ requests = {} /\ grids = {}
  /\ save = [wrapData |-> << >>, position |-> 0, querytype |-> FirstList, page |-> 1,
             totalpages |-> 1, cards |-> Blank, marked |-> 0, list |-> 0, got |-> {}]
  /\ favsaving = FALSE
  /\ lists = 1 /\ list = 1 /\ got = {}
  /\ late = FALSE /\ regrid = FALSE /\ skipped = FALSE
  /\ undrawn = FALSE /\ lost = FALSE

\* StartStopWRServer("start"): the first if isRooted and isSupported
StartInit ==
  /\ MainInit
  /\ waiting = TRUE
  /\ start \in {"launching", "looking"}

-----------------------------------------------------------------------------
startFrame == <<listVars, gridVars, waiting, searcherror, faverror, isrunning, requests, grids,
                save, favVars, auxVars>>
notExit == <<justexit, noTryAgain, findserver>>

ServerLaunched ==
    /\ start = "launching" /\ start' = "launched"
    /\ UNCHANGED <<startFrame, notExit>>

\* SaveServerIP keeps the address.
ServerFound ==
    /\ start = "looking" /\ start' = "found"
    /\ findserver' = FALSE
    /\ UNCHANGED <<startFrame, justexit, noTryAgain>>

NoServer(again) ==
    /\ start' = "none"
    /\ justexit' = TRUE /\ noTryAgain' = TRUE
    /\ findserver' = (findserver \/ again)
    /\ UNCHANGED startFrame

LaunchTimesOut == start = "launching" /\ NoServer(FALSE)
ServerNotFound == start = "looking" /\ NoServer(TRUE)

\* The timers of 6 s and of 2 s: IsTheServerStarted.
AskServer ==
    /\ \/ start = "launched" /\ start' = "askingOwn"
       \/ start = "found" /\ start' = "asking"
    /\ UNCHANGED <<startFrame, notExit>>

\* Another answer than success, or 10 s without one.
ServerNotStarted == start \in {"askingOwn", "asking"} /\ NoServer(FALSE)

ServerStarted ==
    /\ waiting' = TRUE
    /\ \/ /\ start = "askingOwn" /\ start' = "none"
          /\ justexit' = FALSE
          /\ requests' = requests \cup {Request("first", page)}
       \/ /\ start = "asking" /\ start' = "restarting"
          /\ UNCHANGED <<justexit, requests>>
    /\ UNCHANGED <<listVars, gridVars, searcherror, faverror, isrunning, noTryAgain, findserver,
                   grids, save, favVars, auxVars>>

\* ENTER on the message that no server was found
LookAgain ==
    /\ ~searcherror /\ waiting /\ justexit /\ noTryAgain /\ findserver
    /\ justexit' = FALSE /\ noTryAgain' = FALSE /\ findserver' = FALSE
    /\ start' = "looking"
    /\ UNCHANGED startFrame

-----------------------------------------------------------------------------
\* The rest of RestartServer, whose first line sets waiting.
RestartAnswered ==
    /\ start = "restarting" /\ start' = "restarted"
    /\ UNCHANGED <<startFrame, notExit>>

\* 2 s after the answer, or 5 s after a request without one.
ListFilms ==
    /\ start \in {"restarting", "restarted"}
    /\ start' = "none"
    /\ ShowDiscover(FirstList)
    /\ UNCHANGED faverror

StartSteps ==
    \/ ServerLaunched \/ LaunchTimesOut
    \/ ServerFound \/ ServerNotFound
    \/ AskServer \/ ServerStarted \/ ServerNotStarted
    \/ RestartAnswered \/ ListFilms

\* Each stage has a timer that ends it.
StartTimers == LaunchTimesOut \/ ServerNotFound \/ AskServer \/ ServerNotStarted \/ ListFilms
=============================================================================
