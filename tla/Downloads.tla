------------------------------ MODULE Downloads ------------------------------
(***************************************************************************)
(* getOpenSubtitlesDownload (server/pkg/subtitles) as each handler of a    *)
(* request for a subtitle runs it: a session is looked for, a first        *)
(* attempt is made with its token, and if that is refused, a second with   *)
(* the token of another session.  The session and the site are in          *)
(* OpenSubtitles.  A token is a number (0: none).                          *)
(***************************************************************************)
EXTENDS Naturals

CONSTANTS
  Handlers,      \* concurrent requests for a subtitle
  MaxDownloads   \* bound: downloads

VARIABLES
  downloads,     \* how many downloads there have been
  doing,         \* where each handler is
  try,           \* ... its attempt
  authToken,     \* ... the token it sends
  oldToken       \* auxiliary: the token its first attempt was refused with

handlerVars == <<downloads, doing, try, authToken, oldToken>>

HandlersInit ==
  /\ downloads = 0
  /\ doing = [h \in Handlers |-> "idle"]
  /\ try = [h \in Handlers |-> 0]
  /\ authToken = [h \in Handlers |-> 0]
  /\ oldToken = [h \in Handlers |-> 0]

\* A first attempt, which looks for a session or goes out anonymously.
Begins(h, place) ==
  /\ doing[h] = "idle"
  /\ downloads < MaxDownloads
  /\ downloads' = downloads + 1
  /\ doing' = [doing EXCEPT ![h] = place]
  /\ try' = [try EXCEPT ![h] = 1]
  /\ UNCHANGED <<authToken, oldToken>>

\* The handler returns, with the link or without.
HandlerReturns(h) ==
  /\ doing' = [doing EXCEPT ![h] = "idle"]
  /\ try' = [try EXCEPT ![h] = 0]
  /\ authToken' = [authToken EXCEPT ![h] = 0]
  /\ oldToken' = [oldToken EXCEPT ![h] = 0]

\* getOpenSubtitlesSession returns the token ...
HasSession(h, t) ==
  /\ doing' = [doing EXCEPT ![h] = "download"]
  /\ authToken' = [authToken EXCEPT ![h] = t]
  /\ UNCHANGED <<try, oldToken>>

\* ... or an error, after which the first attempt goes out anonymously and the
\* second is not made.
HasNoSession(h) ==
  \/ try[h] = 1 /\ HasSession(h, 0)
  \/ try[h] = 2 /\ HandlerReturns(h)

\* HTTP 401 for the token of the first attempt.
IsRefused(h) ==
  /\ try[h] = 1
  /\ authToken[h] # 0
  /\ doing' = [doing EXCEPT ![h] = "refused"]
  /\ oldToken' = [oldToken EXCEPT ![h] = authToken[h]]
  /\ UNCHANGED <<try, authToken>>

TriesAgain(h) ==
  /\ doing' = [doing EXCEPT ![h] = "session"]
  /\ try' = [try EXCEPT ![h] = @ + 1]
  /\ authToken' = [authToken EXCEPT ![h] = 0]
  /\ UNCHANGED <<downloads, oldToken>>

\* The second attempt of a download is made with another token than the one its
\* first attempt was refused with, whatever other handlers do in between.
RetryHasNewToken ==
  \A h \in Handlers : doing[h] = "download" /\ try[h] = 2 => authToken[h] > oldToken[h]
===============================================================================
