------------------------ MODULE AuthenticatedSession ------------------------
(***************************************************************************)
(* The session with a torrent site (server/pkg/torrents/session) that all  *)
(* searches of nCore, and all of iNSANE, share.  Fetch takes credentials   *)
(* with every call, logs in when the session has none or others, and when  *)
(* the site redirects the request to its login page it gives the login up  *)
(* and tries once more.  The mutex is held while the login request is out, *)
(* not while the page is fetched: in between other fetches may give the    *)
(* login up, renew it, or replace the session by one of another account.   *)
(*                                                                         *)
(* The site is external.  It numbers its logins; a jar holds the cookie of *)
(* the last login made with its client, and the site may end a login at    *)
(* any time.                                                               *)
(***************************************************************************)
EXTENDS Naturals, Sequences

CONSTANTS
  Fetchers,     \* callers of Fetch
  Credentials,
  None,
  MaxFetches    \* bound: calls of Fetch

ASSUME SessionAssumption == None \notin Credentials \cup Fetchers /\ MaxFetches \in Nat

VARIABLES
  mu,             \* who holds the mutex, or None
  credentials,    \* of the session, None when hasCredentials is false
  authenticated,
  generation,
  jars,           \* the cookie jars of the clients, the last one the session's
  logins,         \* site: the account of every login
  ended           \* site: the logins it has ended
VARIABLES
  fetches,  \* calls of Fetch so far
  at,       \* where a call is
  own,      \* ... its credentials
  attempt,
  client,   \* ... the client and the generation that login returned
  gen,
  refused,  \* auxiliary: the login a redirected request was made with
  since     \* auxiliary: how many logins there were when the call began

sessionVars == <<credentials, authenticated, generation>>
siteVars == <<jars, logins, ended>>
callVars == <<own, attempt, client, gen, refused, since>>
vars == <<mu, sessionVars, siteVars, fetches, at, callVars>>

Last(s) == s[Len(s)]

\* Fetch returns; what its frame held is gone.
Returns(f) ==
  /\ at' = [at EXCEPT ![f] = "idle"]
  /\ own' = [own EXCEPT ![f] = None]
  /\ attempt' = [attempt EXCEPT ![f] = 0]
  /\ client' = [client EXCEPT ![f] = 0]
  /\ gen' = [gen EXCEPT ![f] = 0]
  /\ refused' = [refused EXCEPT ![f] = 0]
  /\ since' = [since EXCEPT ![f] = 0]

Init ==
  /\ mu = None
  /\ credentials = None
  /\ authenticated = FALSE
  /\ generation = 0
  /\ jars = << >>
  /\ logins = << >>
  /\ ended = {}
  /\ fetches = 0
  /\ at = [f \in Fetchers |-> "idle"]
  /\ own = [f \in Fetchers |-> None]
  /\ attempt = [f \in Fetchers |-> 0]
  /\ client = [f \in Fetchers |-> 0]
  /\ gen = [f \in Fetchers |-> 0]
  /\ refused = [f \in Fetchers |-> 0]
  /\ since = [f \in Fetchers |-> 0]

-------------------------------------------------------------------------------

Fetch(f, c) ==
  /\ at[f] = "idle"
  /\ fetches < MaxFetches
  /\ fetches' = fetches + 1
  /\ at' = [at EXCEPT ![f] = "login"]
  /\ own' = [own EXCEPT ![f] = c]
  /\ attempt' = [attempt EXCEPT ![f] = 1]
  /\ since' = [since EXCEPT ![f] = Len(logins)]
  /\ UNCHANGED <<mu, sessionVars, siteVars, client, gen, refused>>

\* login returns the session's client and generation.
LoginReturns(f) ==
  /\ at' = [at EXCEPT ![f] = "request"]
  /\ client' = [client EXCEPT ![f] = Len(jars)]
  /\ gen' = [gen EXCEPT ![f] = generation]

\* The session is the one the caller wants.
FindsSession(f) ==
  /\ at[f] = "login" /\ mu = None
  /\ credentials = own[f]
  /\ authenticated
  /\ LoginReturns(f)
  /\ UNCHANGED <<mu, sessionVars, siteVars, fetches, own, attempt, refused, since>>

\* The session has no login: the request is sent with its client.
LogsInAgain(f) ==
  /\ at[f] = "login" /\ mu = None
  /\ credentials = own[f]
  /\ ~authenticated
  /\ mu' = f
  /\ at' = [at EXCEPT ![f] = "logging in"]
  /\ UNCHANGED <<sessionVars, siteVars, fetches, callVars>>

\* Mutant: the client and its jar are kept.
Prepares_SameJar(f) ==
  /\ at[f] = "login" /\ mu = None
  /\ credentials # own[f]
  /\ jars' = IF jars = << >> THEN <<0>> ELSE jars
  /\ credentials' = own[f]
  /\ authenticated' = FALSE
  /\ generation' = generation + 1
  /\ mu' = f
  /\ at' = [at EXCEPT ![f] = "logging in"]
  /\ UNCHANGED <<logins, ended, fetches, callVars>>

\* prepare: a client with a jar of its own for other credentials.
Prepares(f) ==
  /\ at[f] = "login" /\ mu = None
  /\ credentials # own[f]
  /\ jars' = Append(jars, 0)
  /\ credentials' = own[f]
  /\ authenticated' = FALSE
  /\ generation' = generation + 1
  /\ mu' = f
  /\ at' = [at EXCEPT ![f] = "logging in"]
  /\ UNCHANGED <<logins, ended, fetches, callVars>>

LoginAccepted(f) ==
  /\ at[f] = "logging in"
  /\ logins' = Append(logins, own[f])
  /\ jars' = [jars EXCEPT ![Len(jars)] = Len(logins')]
  /\ authenticated' = TRUE
  /\ mu' = None
  /\ LoginReturns(f)
  /\ UNCHANGED <<credentials, generation, ended, fetches, own, attempt, refused, since>>

\* The login request fails or is rejected, and Fetch with it.
LoginFails(f) ==
  /\ at[f] = "logging in"
  /\ mu' = None
  /\ Returns(f)
  /\ UNCHANGED <<sessionVars, siteVars, fetches>>

\* The page arrives; or the request fails.
RequestReturns(f) ==
  /\ at[f] = "request"
  /\ Returns(f)
  /\ UNCHANGED <<mu, sessionVars, siteVars, fetches>>

\* The site does not know the login any more and redirects to its login page.
Redirected(f) ==
  /\ at[f] = "request"
  /\ jars[client[f]] \in ended
  /\ at' = [at EXCEPT ![f] = "redirected"]
  /\ refused' = [refused EXCEPT ![f] = jars[client[f]]]
  /\ UNCHANGED <<mu, sessionVars, siteVars, fetches, own, attempt, client, gen, since>>

\* The second attempt, or the error.
EndsAttempt(f) ==
  \/ /\ attempt[f] < 2
     /\ at' = [at EXCEPT ![f] = "login"]
     /\ attempt' = [attempt EXCEPT ![f] = @ + 1]
     /\ client' = [client EXCEPT ![f] = 0]
     /\ gen' = [gen EXCEPT ![f] = 0]
     /\ refused' = [refused EXCEPT ![f] = 0]
     /\ UNCHANGED <<own, since>>
  \/ attempt[f] = 2 /\ Returns(f)

\* Mutant: any late answer gives the session up.
Invalidates_AnyGeneration(f) ==
  /\ at[f] = "redirected" /\ mu = None
  /\ authenticated' = FALSE /\ generation' = generation + 1
  /\ EndsAttempt(f)
  /\ UNCHANGED <<mu, credentials, siteVars, fetches>>

\* Mutant: the session is not given up.
Invalidates_Never(f) ==
  /\ at[f] = "redirected" /\ mu = None
  /\ EndsAttempt(f)
  /\ UNCHANGED <<mu, sessionVars, siteVars, fetches>>

\* invalidate, and the end of the attempt.
Invalidates(f) ==
  /\ at[f] = "redirected" /\ mu = None
  /\ IF gen[f] = generation
     THEN authenticated' = FALSE /\ generation' = generation + 1
     ELSE UNCHANGED <<authenticated, generation>>
  /\ EndsAttempt(f)
  /\ UNCHANGED <<mu, credentials, siteVars, fetches>>

\* The site ends a login somebody may still use.
EndsLogin(l) ==
  /\ l \notin ended
  /\ \E c \in 1 .. Len(jars) : jars[c] = l
  /\ ended' = ended \cup {l}
  /\ UNCHANGED <<mu, sessionVars, jars, logins, fetches, at, callVars>>

-------------------------------------------------------------------------------

Login(f) == FindsSession(f) \/ LogsInAgain(f) \/ Prepares(f)
Answered(f) == LoginAccepted(f) \/ LoginFails(f) \/ RequestReturns(f) \/ Redirected(f)

Next ==
  \/ \E f \in Fetchers : Login(f) \/ Answered(f) \/ Invalidates(f)
                         \/ \E c \in Credentials : Fetch(f, c)
  \/ \E l \in 1 .. Len(logins) : EndsLogin(l)

Spec == Init /\ [][Next]_vars

-------------------------------------------------------------------------------
(* Properties. *)

\* Where a call can be.
Places == {"idle", "login", "logging in", "request", "redirected"}

\* Types of all variables.
TypeOK ==
  /\ mu \in Fetchers \cup {None}
  /\ credentials \in Credentials \cup {None}
  /\ authenticated \in BOOLEAN
  /\ generation \in Nat
  /\ jars \in Seq(Nat)
  /\ logins \in Seq(Credentials)
  /\ ended \subseteq Nat
  /\ fetches \in Nat
  /\ at \in [Fetchers -> Places]
  /\ own \in [Fetchers -> Credentials \cup {None}]
  /\ attempt \in [Fetchers -> 0 .. 2]
  /\ client \in [Fetchers -> Nat]
  /\ gen \in [Fetchers -> Nat]
  /\ refused \in [Fetchers -> Nat]
  /\ since \in [Fetchers -> Nat]

\* A page is fetched with a login of the credentials it was asked for with,
\* although a fetch with others may have replaced the session meanwhile.
OwnAccount ==
  \A f \in Fetchers : at[f] = "request" =>
    /\ client[f] \in 1 .. Len(jars)
    /\ jars[client[f]] \in 1 .. Len(logins)
    /\ logins[jars[client[f]]] = own[f]

\* A fetch is refused for good only with a login that was made after it began:
\* a login that had run out before costs it one attempt at most, whatever other
\* fetches do to the session between its two attempts.
RefusedWithNewLogin ==
  \A f \in Fetchers : at[f] = "redirected" /\ attempt[f] = 2 => refused[f] > since[f]

\* The session's login is given up for other credentials or because the site
\* refused that very login: the late answer to a request that was made with an
\* earlier one does not cost the others their new login.
FreshLoginKept ==
  [][authenticated /\ ~authenticated' =>
       \/ credentials' # credentials
       \/ \E f \in Fetchers : at[f] = "redirected" /\ refused[f] = Last(jars)]_vars
===============================================================================
