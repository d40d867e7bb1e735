---------------------------- MODULE OpenSubtitles ----------------------------
(***************************************************************************)
(* Downloading subtitles with an OpenSubtitles account                     *)
(* (server/pkg/subtitles): the handlers of module Downloads and the        *)
(* session they share.  A login is made when a download needs one and its  *)
(* token kept; a download that is refused with HTTP 401 gives the token    *)
(* up, logs in once more and tries again.  Without a login, because there  *)
(* are no credentials or it fails, the download goes out anonymously.  The *)
(* mutex is held over the login request.                                   *)
(*                                                                         *)
(* OpenSubtitles is external.  Its logins are numbered and a token is the  *)
(* number of its login; it may revoke a token at any time, and the user    *)
(* may change the password there, after which it answers login requests    *)
(* with HTTP 401.                                                          *)
(***************************************************************************)
EXTENDS Downloads

CONSTANTS
  Workloads,     \* bound: the handlers that take part in a behaviour
  None

ASSUME DownloadsAssumption ==
  /\ MaxDownloads \in Nat
  /\ Workloads \subseteq SUBSET Handlers
  /\ None \notin Handlers

VARIABLES
  mu,            \* who holds the session's mutex, or None
  token,         \* token and baseURL, which change together
  expired,       \* expiresAt is not after now
  loginRejected
VARIABLES
  logins,        \* site: how many logins it has accepted
  valid,         \* site: the tokens it accepts
  passwordGood,  \* site: the configured password is the user's
  rejections     \* auxiliary: logins answered with HTTP 401
VARIABLES
  workload       \* bound: a member of Workloads

sessionVars == <<mu, token, expired, loginRejected>>
siteVars == <<logins, valid, passwordGood, rejections>>
stateVars == <<sessionVars, siteVars, handlerVars>>
vars == <<stateVars, workload>>

Init ==
  /\ HandlersInit
  /\ mu = None
  /\ token = 0
  /\ expired = TRUE
  /\ loginRejected = FALSE
  /\ logins = 0
  /\ valid = {}
  /\ passwordGood \in BOOLEAN
  /\ rejections = 0
  /\ workload \in Workloads

-------------------------------------------------------------------------------

\* getOpenSubtitlesDownload with both credentials configured ...
Download(h) == Begins(h, "session") /\ UNCHANGED <<sessionVars, siteVars>>

\* ... and without.
DownloadAnonymously(h) == Begins(h, "download") /\ UNCHANGED <<sessionVars, siteVars>>

LoginWasRejected(h) ==
  /\ doing[h] = "session" /\ mu = None
  /\ loginRejected
  /\ HasNoSession(h)
  /\ UNCHANGED <<sessionVars, siteVars, downloads>>

FindsToken(h) ==
  /\ doing[h] = "session" /\ mu = None
  /\ ~loginRejected
  /\ token # 0 /\ ~expired
  /\ HasSession(h, token)
  /\ UNCHANGED <<sessionVars, siteVars, downloads>>

LogsIn(h) ==
  /\ doing[h] = "session" /\ mu = None
  /\ ~loginRejected
  /\ token = 0 \/ expired
  /\ mu' = h
  /\ doing' = [doing EXCEPT ![h] = "logging in"]
  /\ UNCHANGED <<token, expired, loginRejected, siteVars, downloads, try, authToken, oldToken>>

LoginAccepted(h) ==
  /\ doing[h] = "logging in"
  /\ passwordGood
  /\ logins' = logins + 1
  /\ valid' = valid \cup {logins'}
  /\ token' = logins'
  /\ expired' = FALSE
  /\ mu' = None
  /\ HasSession(h, logins')
  /\ UNCHANGED <<loginRejected, passwordGood, rejections, downloads>>

\* HTTP 401.
LoginRejected(h) ==
  /\ doing[h] = "logging in"
  /\ ~passwordGood
  /\ rejections' = rejections + 1
  /\ loginRejected' = TRUE
  /\ mu' = None
  /\ HasNoSession(h)
  /\ UNCHANGED <<token, expired, logins, valid, passwordGood, downloads>>

\* Any other error, or an answer without a token.
LoginFails(h) ==
  /\ doing[h] = "logging in"
  /\ mu' = None
  /\ HasNoSession(h)
  /\ UNCHANGED <<token, expired, loginRejected, siteVars, downloads>>

\* The answer to POST /download: the link, an error, or a refusal of the token.
DownloadAnswered(h) ==
  /\ doing[h] = "download"
  /\ \/ HandlerReturns(h)
     \/ authToken[h] \notin valid /\ IsRefused(h)
  /\ UNCHANGED <<sessionVars, siteVars, downloads>>

\* Mutant: the second attempt finds the token of the first.
Invalidates_KeepsToken(h) ==
  /\ doing[h] = "refused" /\ mu = None
  /\ loginRejected' = FALSE
  /\ TriesAgain(h)
  /\ UNCHANGED <<mu, token, expired, siteVars>>

\* invalidateOpenSubtitlesSession, and the second attempt.
Invalidates(h) ==
  /\ doing[h] = "refused" /\ mu = None
  /\ token' = 0
  /\ expired' = TRUE
  /\ loginRejected' = FALSE
  /\ TriesAgain(h)
  /\ UNCHANGED <<mu, siteVars>>

\* Eleven hours have passed since the login.
TokenExpires ==
  /\ token # 0 /\ ~expired
  /\ expired' = TRUE
  /\ UNCHANGED <<mu, token, loginRejected, siteVars, handlerVars>>

RevokesToken(t) ==
  /\ valid' = valid \ {t}
  /\ UNCHANGED <<sessionVars, logins, passwordGood, rejections, handlerVars>>

PasswordChanges ==
  /\ passwordGood
  /\ passwordGood' = FALSE
  /\ UNCHANGED <<sessionVars, logins, valid, rejections, handlerVars>>

-------------------------------------------------------------------------------

Session(h) == LoginWasRejected(h) \/ FindsToken(h) \/ LogsIn(h)
LoginAnswered(h) == LoginAccepted(h) \/ LoginRejected(h) \/ LoginFails(h)

Step ==
  \/ \E h \in workload :
       \/ Download(h) \/ DownloadAnonymously(h)
       \/ Session(h) \/ LoginAnswered(h) \/ DownloadAnswered(h) \/ Invalidates(h)
  \/ \E t \in valid : RevokesToken(t)
  \/ TokenExpires \/ PasswordChanges

Next == Step /\ UNCHANGED workload

Spec == Init /\ [][Next]_vars

-------------------------------------------------------------------------------
(* Properties. *)

\* Credentials that were rejected are not sent again by any download.
NoLoginAfterRejection == [][\A h \in Handlers : LogsIn(h) => rejections = 0]_vars
===============================================================================
