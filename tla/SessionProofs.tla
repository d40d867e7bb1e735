---------------------------- MODULE SessionProofs ----------------------------
(***************************************************************************)
(* Proofs about the two sessions of the server with sites it logs in to:   *)
(* AuthenticatedSession, for every set of callers and of credentials and   *)
(* any number of fetches, and OpenSubtitles, for every set of handlers,    *)
(* any number of downloads, and whatever the site does to tokens and to    *)
(* the password.  The two share no state; of OpenSubtitles the variables   *)
(* that have the name of one of the other session are renamed.             *)
(***************************************************************************)
EXTENDS AuthenticatedSession, Downloads, SequenceTheorems, TLAPS

CONSTANT Workloads

VARIABLES tokenMu, token, expired, loginRejected,
          accepted, valid, passwordGood, rejections, workload

O == INSTANCE OpenSubtitles WITH mu <- tokenMu, logins <- accepted

\* The login of the session belongs to its credentials; a session with
\* credentials has a client.
SessionOK ==
  /\ credentials # None => Len(jars) > 0
  /\ authenticated =>
       /\ Len(jars) > 0
       /\ Last(jars) \in 1 .. Len(logins)
       /\ logins[Last(jars)] = credentials

\* The mutex is held by the call whose login request is out; the session is the
\* caller's then, has a jar and no login.
LockOK(f) ==
  /\ at[f] = "logging in" <=> mu = f
  /\ at[f] = "logging in" => own[f] = credentials /\ ~authenticated /\ Len(jars) > 0

\* A call that is under way has credentials and began in the past.
CallOK(f) ==
  at[f] # "idle" => own[f] \in Credentials /\ attempt[f] \in {1, 2} /\ since[f] <= Len(logins)

\* A request goes out with a login of its credentials, and with the session's
\* client only if the session is for them.
RequestOK(f) ==
  at[f] = "request" =>
    /\ client[f] \in 1 .. Len(jars)
    /\ jars[client[f]] \in 1 .. Len(logins)
    /\ logins[jars[client[f]]] = own[f]
    /\ client[f] = Len(jars) => own[f] = credentials

\* A call whose generation is the session's uses the session's login.
GenerationOK(f) ==
  at[f] \in {"request", "redirected"} =>
    /\ gen[f] <= generation
    /\ gen[f] = generation =>
         /\ authenticated
         /\ at[f] = "request" => client[f] = Len(jars)
         /\ at[f] = "redirected" => refused[f] = Last(jars)

\* A call that tries again does not find the login it was refused with: the
\* session has none, or one made after the call began.
RenewalOK(f) ==
  /\ authenticated /\ at[f] \in {"request", "redirected"} /\ gen[f] < generation
       => Last(jars) > since[f]
  /\ authenticated /\ at[f] = "login" /\ attempt[f] = 2 => Last(jars) > since[f]
  /\ at[f] = "request" /\ attempt[f] = 2 => jars[client[f]] > since[f]
  /\ at[f] = "redirected" /\ attempt[f] = 2 => refused[f] > since[f]

CallInv(f) == LockOK(f) /\ CallOK(f) /\ RequestOK(f) /\ GenerationOK(f) /\ RenewalOK(f)

\* The inductive invariant.
IInv == TypeOK /\ SessionOK /\ \A f \in Fetchers : CallInv(f)

-------------------------------------------------------------------------------
(* The types of the calls' frames. *)

FramesTyped ==
  /\ at \in [Fetchers -> Places]
  /\ own \in [Fetchers -> Credentials \cup {None}]
  /\ attempt \in [Fetchers -> 0 .. 2]
  /\ client \in [Fetchers -> Nat]
  /\ gen \in [Fetchers -> Nat]
  /\ refused \in [Fetchers -> Nat]
  /\ since \in [Fetchers -> Nat]

\* A frame that is gone has the values it had before the call.
LEMMA ReturnTyped ==
  ASSUME TypeOK, NEW f \in Fetchers, Returns(f)
  PROVE  FramesTyped'
<1>1. "idle" \in Places
  BY DEF Places
<1> QED
  BY <1>1 DEF Returns, FramesTyped, TypeOK

-------------------------------------------------------------------------------
(* The sequences. *)

\* A new jar is the last one and empty; the others keep their logins.
LEMMA NewJar ==
  ASSUME NEW s \in Seq(Nat)
  PROVE  /\ Append(s, 0) \in Seq(Nat)
         /\ Len(Append(s, 0)) = Len(s) + 1
         /\ \A i \in 1 .. Len(s) : Append(s, 0)[i] = s[i]
  BY AppendProperties

\* A login is appended, and noted in the last jar.
LEMMA NewLogin ==
  ASSUME TypeOK, Len(jars) > 0, NEW c \in Credentials,
         logins' = Append(logins, c), jars' = [jars EXCEPT ![Len(jars)] = Len(logins')]
  PROVE  /\ logins' \in Seq(Credentials) /\ jars' \in Seq(Nat)
         /\ Len(logins') = Len(logins) + 1 /\ Len(jars') = Len(jars)
         /\ \A l \in 1 .. Len(logins) : logins'[l] = logins[l]
         /\ logins'[Len(logins) + 1] = c
         /\ jars'[Len(jars)] = Len(logins) + 1
         /\ \A i \in 1 .. Len(jars) : i # Len(jars) => jars'[i] = jars[i]
<1>1. jars \in Seq(Nat) /\ logins \in Seq(Credentials) /\ Len(jars) \in 1 .. Len(jars)
  BY DEF TypeOK
<1>2. /\ logins' \in Seq(Credentials)
      /\ Len(logins') = Len(logins) + 1
      /\ \A l \in 1 .. Len(logins) : logins'[l] = logins[l]
      /\ logins'[Len(logins) + 1] = c
  BY <1>1, AppendProperties
<1>3. Len(logins') \in Nat
  BY <1>1, <1>2
<1>4. /\ jars' \in Seq(Nat)
      /\ Len(jars') = Len(jars)
      /\ \A i \in 1 .. Len(jars) : jars'[i] = IF i = Len(jars) THEN Len(logins') ELSE jars[i]
  BY <1>1, <1>3, ExceptSeq
<1> QED
  BY <1>1, <1>2, <1>4

-------------------------------------------------------------------------------
(* Steps.  A call that does not take the step keeps its frame. *)

SameCall(g) ==
  /\ at'[g] = at[g] /\ own'[g] = own[g] /\ attempt'[g] = attempt[g] /\ client'[g] = client[g]
  /\ gen'[g] = gen[g] /\ refused'[g] = refused[g] /\ since'[g] = since[g]

\* The invariant of another call survives a step that leaves the session and
\* the site alone, but for the mutex.
LEMMA OthersKeep ==
  ASSUME NEW f \in Fetchers, NEW g \in Fetchers, SameCall(g), CallInv(g),
         UNCHANGED <<credentials, authenticated, generation, jars, logins>>, mu' = g <=> mu = g
  PROVE  CallInv(g)'
  BY DEF SameCall, CallInv, LockOK, CallOK, RequestOK, GenerationOK, RenewalOK, Last

\* A call begins.
LEMMA FetchKeeps ==
  ASSUME IInv, NEW f \in Fetchers, NEW c \in Credentials, Fetch(f, c)
  PROVE  IInv'
<1> USE SessionAssumption
<1>1. TypeOK'
  <2>1. UNCHANGED <<mu, credentials, authenticated, generation, jars, logins, ended>>
    BY DEF Fetch, sessionVars, siteVars
  <2>2. fetches' \in Nat
    BY DEF IInv, TypeOK, Fetch
  <2>3. "login" \in Places
    BY DEF Places
  <2>4. FramesTyped'
    BY <2>3 DEF IInv, TypeOK, FramesTyped, Fetch, callVars
  <2> QED
    BY <2>1, <2>2, <2>4 DEF IInv, TypeOK, FramesTyped
<1>2. UNCHANGED <<credentials, authenticated, generation, jars, logins>>
  BY DEF Fetch, sessionVars, siteVars, callVars
<1>3. SessionOK'
  BY <1>2 DEF IInv, SessionOK, Last
<1>4. ASSUME NEW g \in Fetchers, g # f
      PROVE  CallInv(g)'
  <2>1. SameCall(g) /\ (mu' = g <=> mu = g)
    BY <1>4 DEF IInv, TypeOK, SameCall, CallInv, LockOK, Fetch, sessionVars, siteVars, callVars
  <2> QED
    BY <1>2, <2>1, OthersKeep DEF IInv
<1>5. CallInv(f)'
  <2>1. at'[f] = "login" /\ own'[f] = c /\ attempt'[f] = 1 /\ since'[f] = Len(logins)
    BY DEF IInv, TypeOK, Fetch
  <2>2. mu' # f
    BY DEF IInv, CallInv, LockOK, Fetch
  <2>3. Len(logins) \in Nat
    BY DEF IInv, TypeOK
  <2> QED
    BY <1>2, <2>1, <2>2, <2>3 DEF CallInv, LockOK, CallOK, RequestOK, GenerationOK, RenewalOK
<1> QED
  BY <1>1, <1>3, <1>4, <1>5 DEF IInv

\* The session's login is the caller's, and new enough for a second attempt.
LEMMA FindsSessionKeeps ==
  ASSUME IInv, NEW f \in Fetchers, FindsSession(f)
  PROVE  IInv'
<1> USE SessionAssumption
<1>1. TypeOK'
  <2>1. UNCHANGED <<mu, credentials, authenticated, generation, jars, logins, ended, fetches>>
    BY DEF FindsSession, LoginReturns, sessionVars, siteVars
  <2>2. "request" \in Places
    BY DEF Places
  <2>3. FramesTyped'
    BY <2>2 DEF IInv, TypeOK, FramesTyped, FindsSession, LoginReturns, callVars
  <2> QED
    BY <2>1, <2>3 DEF IInv, TypeOK, FramesTyped
<1>2. UNCHANGED <<credentials, authenticated, generation, jars, logins>>
  BY DEF FindsSession, LoginReturns, sessionVars, siteVars, callVars
<1>3. SessionOK'
  BY <1>2 DEF IInv, SessionOK, Last
<1>4. ASSUME NEW g \in Fetchers, g # f
      PROVE  CallInv(g)'
  <2>1. SameCall(g) /\ (mu' = g <=> mu = g)
    BY <1>4
    DEF IInv, TypeOK, SameCall, CallInv, LockOK, FindsSession, LoginReturns, sessionVars, siteVars, callVars
  <2> QED
    BY <1>2, <2>1, OthersKeep DEF IInv
<1>5. CallInv(f)'
  <2>1. /\ at'[f] = "request" /\ own'[f] = own[f] /\ attempt'[f] = attempt[f]
        /\ since'[f] = since[f] /\ client'[f] = Len(jars) /\ gen'[f] = generation
    BY DEF IInv, TypeOK, FindsSession, LoginReturns
  <2>2. mu' # f /\ at[f] = "login" /\ own[f] = credentials
    BY DEF IInv, CallInv, LockOK, FindsSession
  <2>3. /\ Len(jars) \in Nat /\ generation \in Nat /\ SessionOK
        /\ CallOK(f) /\ RenewalOK(f)
    BY DEF IInv, TypeOK, CallInv
  <2>4. authenticated
    BY DEF FindsSession
  <2>5. LockOK(f)' /\ CallOK(f)'
    BY <1>2, <2>1, <2>2, <2>3 DEF LockOK, CallOK
  <2>6. RequestOK(f)' /\ GenerationOK(f)' /\ RenewalOK(f)'
    BY <1>2, <2>1, <2>2, <2>3, <2>4
    DEF SessionOK, RequestOK, GenerationOK, RenewalOK, Last
  <2> QED
    BY <2>5, <2>6 DEF CallInv
<1> QED
  BY <1>1, <1>3, <1>4, <1>5 DEF IInv

\* The mutex is free, so no other call is logging in.
LEMMA LogsInAgainKeeps ==
  ASSUME IInv, NEW f \in Fetchers, LogsInAgain(f)
  PROVE  IInv'
<1> USE SessionAssumption
<1>1. TypeOK'
  <2>1. UNCHANGED <<credentials, authenticated, generation, jars, logins, ended, fetches>>
    BY DEF LogsInAgain, sessionVars, siteVars
  <2>2. mu' = f
    BY DEF LogsInAgain
  <2>3. "logging in" \in Places
    BY DEF Places
  <2>4. FramesTyped'
    BY <2>3 DEF IInv, TypeOK, FramesTyped, LogsInAgain, callVars
  <2> QED
    BY <2>1, <2>2, <2>4 DEF IInv, TypeOK, FramesTyped
<1>2. UNCHANGED <<credentials, authenticated, generation, jars, logins>>
  BY DEF LogsInAgain, sessionVars, siteVars, callVars
<1>3. SessionOK'
  BY <1>2 DEF IInv, SessionOK, Last
<1>4. ASSUME NEW g \in Fetchers, g # f
      PROVE  CallInv(g)'
  <2>1. SameCall(g) /\ (mu' = g <=> mu = g)
    BY <1>4 DEF IInv, TypeOK, SameCall, CallInv, LockOK, LogsInAgain, sessionVars, siteVars, callVars
  <2> QED
    BY <1>2, <2>1, OthersKeep DEF IInv
<1>5. CallInv(f)'
  <2>1. /\ at'[f] = "logging in" /\ own'[f] = own[f] /\ attempt'[f] = attempt[f]
        /\ since'[f] = since[f]
    BY DEF IInv, TypeOK, LogsInAgain, callVars
  <2>2. at[f] = "login" /\ mu' = f /\ own[f] = credentials /\ ~authenticated
    BY DEF LogsInAgain
  <2>3. CallOK(f) /\ SessionOK
    BY DEF IInv, CallInv
  <2>4. Len(jars) > 0
    BY <2>2, <2>3 DEF CallOK, SessionOK
  <2> QED
    BY <1>2, <2>1, <2>2, <2>3, <2>4
    DEF CallInv, LockOK, CallOK, RequestOK, GenerationOK, RenewalOK
<1> QED
  BY <1>1, <1>3, <1>4, <1>5 DEF IInv

\* The session stays without a login.
LEMMA LoginFailsKeeps ==
  ASSUME IInv, NEW f \in Fetchers, LoginFails(f)
  PROVE  IInv'
<1> USE SessionAssumption
<1>1. TypeOK'
  <2>1. UNCHANGED <<credentials, authenticated, generation, jars, logins, ended, fetches>>
    BY DEF LoginFails, sessionVars, siteVars
  <2>2. mu' = None
    BY DEF LoginFails
  <2>3. FramesTyped'
    BY ReturnTyped DEF IInv, LoginFails
  <2> QED
    BY <2>1, <2>2, <2>3 DEF IInv, TypeOK, FramesTyped
<1>2. UNCHANGED <<credentials, authenticated, generation, jars, logins>>
  BY DEF LoginFails, Returns, sessionVars, siteVars, callVars
<1>3. SessionOK'
  BY <1>2 DEF IInv, SessionOK, Last
<1>4. ASSUME NEW g \in Fetchers, g # f
      PROVE  CallInv(g)'
  <2>1. SameCall(g) /\ (mu' = g <=> mu = g)
    BY <1>4
    DEF IInv, TypeOK, SameCall, CallInv, LockOK, LoginFails, Returns, sessionVars, siteVars, callVars
  <2> QED
    BY <1>2, <2>1, OthersKeep DEF IInv
<1>5. CallInv(f)'
  <2>1. at'[f] = "idle" /\ mu' # f
    BY SessionAssumption DEF IInv, TypeOK, LoginFails, Returns
  <2> QED
    BY <2>1 DEF CallInv, LockOK, CallOK, RequestOK, GenerationOK, RenewalOK
<1> QED
  BY <1>1, <1>3, <1>4, <1>5 DEF IInv

\* The call is over.
LEMMA RequestReturnsKeeps ==
  ASSUME IInv, NEW f \in Fetchers, RequestReturns(f)
  PROVE  IInv'
<1> USE SessionAssumption
<1>1. TypeOK'
  <2>1. UNCHANGED <<mu, credentials, authenticated, generation, jars, logins, ended, fetches>>
    BY DEF RequestReturns, sessionVars, siteVars
  <2>2. FramesTyped'
    BY ReturnTyped DEF IInv, RequestReturns
  <2> QED
    BY <2>1, <2>2 DEF IInv, TypeOK, FramesTyped
<1>2. UNCHANGED <<credentials, authenticated, generation, jars, logins>>
  BY DEF RequestReturns, Returns, sessionVars, siteVars, callVars
<1>3. SessionOK'
  BY <1>2 DEF IInv, SessionOK, Last
<1>4. ASSUME NEW g \in Fetchers, g # f
      PROVE  CallInv(g)'
  <2>1. SameCall(g) /\ (mu' = g <=> mu = g)
    BY <1>4
    DEF IInv, TypeOK, SameCall, CallInv, LockOK, RequestReturns, Returns, sessionVars, siteVars, callVars
  <2> QED
    BY <1>2, <2>1, OthersKeep DEF IInv
<1>5. CallInv(f)'
  <2>1. at'[f] = "idle" /\ mu' # f
    BY DEF IInv, TypeOK, CallInv, LockOK, RequestReturns, Returns
  <2> QED
    BY <2>1 DEF CallInv, LockOK, CallOK, RequestOK, GenerationOK, RenewalOK
<1> QED
  BY <1>1, <1>3, <1>4, <1>5 DEF IInv

\* The login that is refused is the one of the client.
LEMMA RedirectedKeeps ==
  ASSUME IInv, NEW f \in Fetchers, Redirected(f)
  PROVE  IInv'
<1> USE SessionAssumption
<1>1. TypeOK'
  <2>1. UNCHANGED <<mu, credentials, authenticated, generation, jars, logins, ended, fetches>>
    BY DEF Redirected, sessionVars, siteVars
  <2>2. "redirected" \in Places
    BY DEF Places
  <2>3. FramesTyped'
    BY <2>2 DEF IInv, TypeOK, FramesTyped, Redirected, callVars
  <2> QED
    BY <2>1, <2>3 DEF IInv, TypeOK, FramesTyped
<1>2. UNCHANGED <<credentials, authenticated, generation, jars, logins>>
  BY DEF Redirected, sessionVars, siteVars, callVars
<1>3. SessionOK'
  BY <1>2 DEF IInv, SessionOK, Last
<1>4. ASSUME NEW g \in Fetchers, g # f
      PROVE  CallInv(g)'
  <2>1. SameCall(g) /\ (mu' = g <=> mu = g)
    BY <1>4 DEF IInv, TypeOK, SameCall, CallInv, LockOK, Redirected, sessionVars, siteVars, callVars
  <2> QED
    BY <1>2, <2>1, OthersKeep DEF IInv
<1>5. CallInv(f)'
  <2>1. /\ at'[f] = "redirected" /\ own'[f] = own[f] /\ attempt'[f] = attempt[f]
        /\ since'[f] = since[f] /\ gen'[f] = gen[f] /\ refused'[f] = jars[client[f]]
    BY DEF IInv, TypeOK, Redirected
  <2>2. mu' # f /\ at[f] = "request"
    BY DEF IInv, CallInv, LockOK, Redirected
  <2>3. CallOK(f) /\ GenerationOK(f) /\ RenewalOK(f)
    BY DEF IInv, CallInv
  <2> QED
    BY <1>2, <2>1, <2>2, <2>3
    DEF CallInv, LockOK, CallOK, RequestOK, GenerationOK, RenewalOK, Last
<1> QED
  BY <1>1, <1>3, <1>4, <1>5 DEF IInv

\* Other credentials: a call keeps its client, which is not the session's any more.
LEMMA PreparesKeeps ==
  ASSUME IInv, NEW f \in Fetchers, Prepares(f)
  PROVE  IInv'
<1> USE SessionAssumption
<1>1. /\ jars' \in Seq(Nat) /\ Len(jars') = Len(jars) + 1
      /\ \A i \in 1 .. Len(jars) : jars'[i] = jars[i]
  BY NewJar DEF IInv, TypeOK, Prepares
<1>2. /\ mu = None /\ mu' = f /\ logins' = logins /\ credentials' = own[f]
      /\ generation' = generation + 1
  BY DEF Prepares
<1>3. ~authenticated'
  BY DEF Prepares
<1>4. generation \in Nat /\ Len(jars) \in Nat
  BY DEF IInv, TypeOK
<1>5. own[f] \in Credentials /\ attempt[f] \in {1, 2} /\ since[f] <= Len(logins)
  BY DEF IInv, CallInv, CallOK, Prepares
<1>6. TypeOK'
  <2>1. UNCHANGED <<logins, ended, fetches>>
    BY DEF Prepares
  <2>2. authenticated' \in BOOLEAN
    BY <1>3 DEF Prepares
  <2>3. "logging in" \in Places
    BY DEF Places
  <2>4. FramesTyped'
    BY <2>3 DEF IInv, TypeOK, FramesTyped, Prepares, callVars
  <2> QED
    BY <1>1, <1>2, <1>4, <1>5, <2>1, <2>2, <2>4 DEF IInv, TypeOK, FramesTyped
<1>7. SessionOK'
  BY <1>1, <1>3, <1>4 DEF SessionOK
<1>8. ASSUME NEW g \in Fetchers, g # f
      PROVE  CallInv(g)'
  <2>1. SameCall(g) /\ at[g] # "logging in"
    BY <1>2, <1>8 DEF IInv, TypeOK, SameCall, CallInv, LockOK, Prepares, callVars
  <2>2. CallInv(g) /\ gen[g] \in Nat
    BY DEF IInv, TypeOK
  <2>3. LockOK(g)' /\ CallOK(g)'
    BY <1>2, <1>8, <2>1, <2>2 DEF SameCall, CallInv, LockOK, CallOK
  <2>4. RequestOK(g)'
    BY <1>1, <1>2, <1>4, <2>1, <2>2 DEF SameCall, CallInv, RequestOK
  <2>5. GenerationOK(g)'
    <3>1. at[g] \in {"request", "redirected"} => gen[g] <= generation
      BY <2>2 DEF CallInv, GenerationOK
    <3>2. gen'[g] = gen[g] /\ at'[g] = at[g]
      BY <2>1 DEF SameCall
    <3>3. at[g] \in {"request", "redirected"} => gen[g] < generation'
      BY <1>2, <1>4, <2>2, <3>1
    <3>4. generation' \in Nat
      BY <1>2, <1>4
    <3> QED
      BY <2>2, <3>2, <3>3, <3>4 DEF GenerationOK
  <2>6. RenewalOK(g)'
    BY <1>1, <1>3, <2>1, <2>2 DEF SameCall, CallInv, RequestOK, RenewalOK
  <2> QED
    BY <2>3, <2>4, <2>5, <2>6 DEF CallInv
<1>9. CallInv(f)'
  <2>1. /\ at'[f] = "logging in" /\ own'[f] = own[f] /\ attempt'[f] = attempt[f]
        /\ since'[f] = since[f]
    BY DEF IInv, TypeOK, Prepares, callVars
  <2>2. LockOK(f)'
    <3>1. own'[f] = credentials'
      BY <1>2, <2>1
    <3>2. Len(jars') > 0
      BY <1>1, <1>4
    <3> QED
      BY <1>2, <1>3, <2>1, <3>1, <3>2 DEF LockOK
  <2>3. CallOK(f)'
    BY <1>2, <1>5, <2>1 DEF CallOK
  <2>4. RequestOK(f)' /\ GenerationOK(f)' /\ RenewalOK(f)'
    BY <2>1 DEF RequestOK, GenerationOK, RenewalOK
  <2> QED
    BY <2>2, <2>3, <2>4 DEF CallInv
<1> QED
  BY <1>6, <1>7, <1>8, <1>9 DEF IInv

\* The new login is in the last jar, which only requests of the same account
\* use, and is newer than any call.
LEMMA LoginAcceptedKeeps ==
  ASSUME IInv, NEW f \in Fetchers, LoginAccepted(f)
  PROVE  IInv'
<1> USE SessionAssumption
<1> DEFINE n == Len(logins) + 1
<1>1. CallInv(f) /\ at[f] = "logging in" /\ mu = f
  BY DEF IInv, CallInv, LockOK, LoginAccepted
<1>2. own[f] = credentials /\ own[f] \in Credentials
  BY <1>1 DEF CallInv, LockOK, CallOK
<1>3. Len(jars) > 0
  BY <1>1 DEF CallInv, LockOK
<1>4. ~authenticated
  BY <1>1 DEF CallInv, LockOK
<1>5. attempt[f] \in {1, 2} /\ since[f] <= Len(logins)
  BY <1>1 DEF CallInv, CallOK
<1>6. Len(jars) \in Nat /\ Len(logins) \in Nat /\ generation \in Nat
  BY DEF IInv, TypeOK
<1>7. mu' = None /\ credentials' = credentials /\ generation' = generation
  BY DEF LoginAccepted
<1>8. authenticated'
  BY DEF LoginAccepted
<1>9. /\ logins' \in Seq(Credentials) /\ Len(logins') = n
      /\ \A l \in 1 .. Len(logins) : logins'[l] = logins[l]
      /\ logins'[n] = own[f]
  BY <1>2, <1>3, NewLogin DEF IInv, LoginAccepted
<1>10. /\ jars' \in Seq(Nat) /\ Len(jars') = Len(jars) /\ jars'[Len(jars)] = n
       /\ \A i \in 1 .. Len(jars) : i # Len(jars) => jars'[i] = jars[i]
  BY <1>2, <1>3, NewLogin DEF IInv, LoginAccepted
<1> HIDE DEF n
<1>11. n = Len(logins) + 1
  BY DEF n
<1>12. TypeOK'
  <2>1. UNCHANGED <<ended, fetches>>
    BY DEF LoginAccepted
  <2>2. authenticated' \in BOOLEAN
    BY DEF LoginAccepted
  <2>3. "request" \in Places
    BY DEF Places
  <2>4. FramesTyped'
    BY <1>6, <2>3 DEF IInv, TypeOK, FramesTyped, LoginAccepted, LoginReturns
  <2> QED
    BY <1>7, <1>9, <1>10, <2>1, <2>2, <2>4 DEF IInv, TypeOK, FramesTyped
<1>13. SessionOK'
  <2>1. Len(jars') > 0 /\ Last(jars') = n
    BY <1>3, <1>10 DEF Last
  <2>2. n \in 1 .. Len(logins') /\ logins'[n] = credentials'
    BY <1>2, <1>6, <1>7, <1>9, <1>11
  <2> QED
    BY <2>1, <2>2 DEF SessionOK
<1>14. ASSUME NEW g \in Fetchers, g # f
       PROVE  CallInv(g)'
  <2>1. SameCall(g) /\ at[g] # "logging in"
    BY <1>1, <1>14 DEF IInv, TypeOK, CallInv, LockOK, SameCall, LoginAccepted, LoginReturns
  <2>2. CallInv(g) /\ gen[g] \in Nat /\ since[g] \in Nat
    BY DEF IInv, TypeOK
  <2>3. LockOK(g)'
    BY <1>7, <2>1 DEF SameCall, LockOK
  <2>4. CallOK(g)' /\ (at[g] # "idle" => since[g] < n)
    <3>1. since[g] <= Len(logins) => since[g] < n /\ since[g] <= Len(logins')
      BY <1>6, <1>9, <1>11, <2>2
    <3>2. CallOK(g)
      BY <2>2 DEF CallInv
    <3> QED
      BY <2>1, <3>1, <3>2 DEF SameCall, CallOK
  <2>5. RequestOK(g)' /\ (at[g] = "request" => jars'[client[g]] >= jars[client[g]])
    <3>1. CASE at[g] # "request"
      BY <2>1, <3>1 DEF SameCall, RequestOK
    <3>2. CASE at[g] = "request" /\ client[g] = Len(jars)
      <4>1. own[g] = own[f] /\ client[g] \in 1 .. Len(jars) /\ jars[client[g]] \in 1 .. Len(logins)
        BY <1>2, <2>2, <3>2 DEF CallInv, RequestOK
      <4>2. client'[g] = Len(jars) /\ own'[g] = own[f]
        BY <2>1, <3>2, <4>1 DEF SameCall
      <4> QED
        BY <1>2, <1>6, <1>7, <1>9, <1>10, <1>11, <3>2, <4>1, <4>2 DEF RequestOK
    <3>3. CASE at[g] = "request" /\ client[g] # Len(jars)
      <4>1. /\ client[g] \in 1 .. Len(jars) /\ jars[client[g]] \in 1 .. Len(logins)
            /\ logins[jars[client[g]]] = own[g]
        BY <2>2, <3>3 DEF CallInv, RequestOK
      <4>2. client'[g] = client[g] /\ own'[g] = own[g]
        BY <2>1 DEF SameCall
      <4> QED
        BY <1>6, <1>9, <1>10, <1>11, <3>3, <4>1, <4>2 DEF RequestOK
    <3> QED
      BY <3>1, <3>2, <3>3
  <2>6. GenerationOK(g)'
    BY <1>4, <1>7, <2>1, <2>2 DEF SameCall, CallInv, GenerationOK
  <2>7. Last(jars') = n
    BY <1>10 DEF Last
  <2>8. RenewalOK(g) /\ RequestOK(g)
    BY <2>2 DEF CallInv
  <2>9. RenewalOK(g)'
    <3>1. CASE at[g] = "request"
      <4>1. client[g] \in 1 .. Len(jars)
        BY <2>8, <3>1 DEF RequestOK
      <4>2. jars[client[g]] \in Nat /\ jars'[client[g]] \in Nat
        <5>1. jars \in Seq(Nat)
          BY DEF IInv, TypeOK
        <5> QED
          BY <1>10, <4>1, <5>1
      <4>3. attempt[g] = 2 => jars'[client[g]] > since[g]
        BY <2>2, <2>5, <2>8, <3>1, <4>2 DEF RenewalOK
      <4>4. at'[g] = "request" /\ client'[g] = client[g] /\ attempt'[g] = attempt[g]
            /\ since'[g] = since[g]
        BY <2>1, <3>1 DEF SameCall
      <4>5. Last(jars') > since'[g]
        BY <1>6, <1>11, <2>2, <2>4, <2>7, <3>1, <4>4
      <4> QED
        BY <4>3, <4>4, <4>5 DEF RenewalOK
    <3>2. CASE at[g] = "redirected"
      <4>1. at'[g] = "redirected" /\ refused'[g] = refused[g] /\ attempt'[g] = attempt[g]
            /\ since'[g] = since[g]
        BY <2>1, <3>2 DEF SameCall
      <4>2. Last(jars') > since'[g]
        BY <1>6, <1>11, <2>2, <2>4, <2>7, <3>2, <4>1
      <4> QED
        BY <2>8, <3>2, <4>1, <4>2 DEF RenewalOK
    <3>3. CASE at[g] = "login"
      <4>1. at'[g] = "login" /\ since'[g] = since[g]
        BY <2>1, <3>3 DEF SameCall
      <4>2. Last(jars') > since'[g]
        BY <1>6, <1>11, <2>2, <2>4, <2>7, <3>3, <4>1
      <4> QED
        BY <4>1, <4>2 DEF RenewalOK
    <3>4. CASE at[g] \notin {"login", "request", "redirected"}
      BY <2>1, <3>4 DEF SameCall, RenewalOK
    <3> QED
      BY <3>1, <3>2, <3>3, <3>4
  <2> QED
    BY <2>3, <2>4, <2>5, <2>6, <2>9 DEF CallInv
<1>15. CallInv(f)'
  <2>1. at'[f] = "request" /\ client'[f] = Len(jars) /\ gen'[f] = generation
    BY DEF IInv, TypeOK, LoginAccepted, LoginReturns
  <2>2. own'[f] = own[f] /\ attempt'[f] = attempt[f] /\ since'[f] = since[f] /\ since[f] \in Nat
    BY DEF IInv, TypeOK, LoginAccepted
  <2>3. LockOK(f)'
    BY <1>7, <2>1 DEF LockOK
  <2>4. CallOK(f)'
    BY <1>2, <1>5, <1>6, <1>9, <1>11, <2>2 DEF CallOK
  <2>5. RequestOK(f)'
    BY <1>2, <1>3, <1>6, <1>7, <1>9, <1>10, <1>11, <2>1, <2>2 DEF RequestOK
  <2>6. GenerationOK(f)'
    BY <1>6, <1>7, <1>8, <1>10, <2>1 DEF GenerationOK
  <2>7. RenewalOK(f)'
    BY <1>5, <1>6, <1>7, <1>10, <1>11, <2>1, <2>2 DEF RenewalOK
  <2> QED
    BY <2>3, <2>4, <2>5, <2>6, <2>7 DEF CallInv
<1> QED
  BY <1>12, <1>13, <1>14, <1>15 DEF IInv

\* A login that is given up is not found by anybody; a late answer changes
\* nothing.
LEMMA InvalidatesKeeps ==
  ASSUME IInv, NEW f \in Fetchers, Invalidates(f)
  PROVE  IInv'
<1> USE SessionAssumption
<1>1. UNCHANGED <<mu, credentials, jars, logins, ended, fetches>> /\ mu = None
  BY DEF Invalidates, siteVars
<1>2. \/ gen[f] = generation /\ ~authenticated' /\ generation' = generation + 1
      \/ gen[f] # generation /\ UNCHANGED <<authenticated, generation>>
  BY DEF Invalidates
<1>3. TypeOK'
  <2>1. generation' \in Nat
    BY DEF IInv, TypeOK, Invalidates
  <2>2. authenticated' \in BOOLEAN
    BY DEF IInv, TypeOK, Invalidates
  <2>3. ASSUME ~Returns(f)
        PROVE  FramesTyped'
    <3>1. FramesTyped /\ "login" \in Places
      BY DEF IInv, TypeOK, FramesTyped, Places
    <3>2. attempt[f] \in 0 .. 1
      BY <2>3, <3>1 DEF Invalidates, EndsAttempt, FramesTyped
    <3> QED
      BY <2>3, <3>1, <3>2 DEF Invalidates, EndsAttempt, FramesTyped
  <2>4. FramesTyped'
    BY <2>3, ReturnTyped DEF IInv
  <2> QED
    BY <1>1, <2>1, <2>2, <2>4 DEF IInv, TypeOK, FramesTyped
<1>4. SessionOK'
  BY <1>1, <1>2 DEF IInv, SessionOK, Last
<1>5. generation \in Nat
  BY DEF IInv, TypeOK
<1>6. ASSUME NEW g \in Fetchers, g # f
      PROVE  CallInv(g)'
  <2>1. SameCall(g)
    BY <1>6 DEF IInv, TypeOK, SameCall, Invalidates, EndsAttempt, Returns
  <2>2. CallInv(g) /\ gen[g] \in Nat
    BY DEF IInv, TypeOK
  <2>3. LockOK(g)' /\ CallOK(g)' /\ RequestOK(g)'
    BY <1>1, <1>2, <2>1, <2>2 DEF SameCall, CallInv, LockOK, CallOK, RequestOK
  <2>4. GenerationOK(g)' /\ RenewalOK(g)'
    BY <1>1, <1>2, <1>5, <2>1, <2>2 DEF SameCall, CallInv, GenerationOK, RenewalOK, Last
  <2> QED
    BY <2>3, <2>4 DEF CallInv
<1>7. CallInv(f)'
  <2>1. CallInv(f) /\ at[f] = "redirected" /\ gen[f] \in Nat
    BY DEF IInv, TypeOK, Invalidates
  <2>2. \/ at'[f] = "idle"
        \/ at'[f] = "login" /\ attempt'[f] = 2 /\ own'[f] = own[f] /\ since'[f] = since[f]
    <3>1. CASE Returns(f)
      BY <3>1 DEF IInv, TypeOK, Returns
    <3>2. CASE ~Returns(f)
      <4>1. attempt[f] = 1
        BY <2>1, <3>2 DEF CallInv, CallOK, Invalidates, EndsAttempt
      <4> QED
        BY <3>2, <4>1 DEF IInv, TypeOK, Invalidates, EndsAttempt
    <3> QED
      BY <3>1, <3>2
  <2>3. CallOK(f)'
    BY <1>1, <2>1, <2>2 DEF CallInv, CallOK
  <2>4. LockOK(f)' /\ RequestOK(f)' /\ GenerationOK(f)'
    BY <1>1, <2>2 DEF LockOK, RequestOK, GenerationOK
  <2>5. RenewalOK(f)'
    BY <1>1, <1>2, <1>5, <2>1, <2>2 DEF CallInv, GenerationOK, RenewalOK, Last
  <2> QED
    BY <2>3, <2>4, <2>5 DEF CallInv
<1> QED
  BY <1>3, <1>4, <1>6, <1>7 DEF IInv

\* What the site knows of a login that has ended is not part of the invariant.
LEMMA EndsLoginKeeps ==
  ASSUME IInv, NEW l \in 1 .. Len(logins), EndsLogin(l)
  PROVE  IInv'
<1>1. UNCHANGED <<mu, credentials, authenticated, generation, jars, logins, fetches>>
  BY DEF EndsLogin, sessionVars
<1>2. UNCHANGED <<at, own, attempt, client, gen, refused, since>>
  BY DEF EndsLogin, callVars
<1>3. ended' \subseteq Nat
  BY DEF IInv, TypeOK, EndsLogin
<1>4. TypeOK'
  BY <1>1, <1>2, <1>3 DEF IInv, TypeOK
<1>5. SessionOK'
  BY <1>1 DEF IInv, SessionOK, Last
<1>6. ASSUME NEW g \in Fetchers
      PROVE  CallInv(g)'
  <2>1. SameCall(g)
    BY <1>2 DEF SameCall
  <2> QED
    BY <1>1, <2>1, OthersKeep DEF IInv
<1> QED
  BY <1>4, <1>5, <1>6 DEF IInv

-------------------------------------------------------------------------------
(* The theorems. *)

\* Nobody has called yet.
LEMMA InitInv == Init => IInv
<1> SUFFICES ASSUME Init PROVE IInv
  OBVIOUS
<1> USE SessionAssumption
<1>1. TypeOK
  <2>1. mu \in Fetchers \cup {None} /\ credentials \in Credentials \cup {None}
    BY DEF Init
  <2>2. authenticated \in BOOLEAN
    BY DEF Init
  <2>3. generation \in Nat /\ fetches \in Nat /\ ended \subseteq Nat
    BY DEF Init
  <2>4. jars \in Seq(Nat) /\ logins \in Seq(Credentials)
    BY DEF Init
  <2>5. "idle" \in Places
    BY DEF Places
  <2>6. FramesTyped
    BY <2>5 DEF Init, FramesTyped
  <2> QED
    BY <2>1, <2>2, <2>3, <2>4, <2>6 DEF TypeOK, FramesTyped
<1>2. SessionOK
  BY DEF Init, SessionOK
<1>3. ASSUME NEW f \in Fetchers
      PROVE  CallInv(f)
  <2>1. at[f] = "idle" /\ mu = None
    BY DEF Init
  <2> QED
    BY <2>1 DEF CallInv, LockOK, CallOK, RequestOK, GenerationOK, RenewalOK
<1> QED
  BY <1>1, <1>2, <1>3 DEF IInv

\* One case per action.
LEMMA StepInv == IInv /\ [Next]_vars => IInv'
<1> SUFFICES ASSUME IInv, [Next]_vars PROVE IInv'
  OBVIOUS
<1>1. CASE UNCHANGED vars
  <2>1. UNCHANGED <<mu, credentials, authenticated, generation, jars, logins, ended, fetches>>
    BY <1>1 DEF vars, sessionVars, siteVars
  <2>2. UNCHANGED <<at, own, attempt, client, gen, refused, since>>
    BY <1>1 DEF vars, callVars
  <2>3. TypeOK' /\ SessionOK'
    BY <2>1, <2>2 DEF IInv, TypeOK, SessionOK, Last
  <2>4. ASSUME NEW g \in Fetchers
        PROVE  CallInv(g)'
    <3>1. SameCall(g)
      BY <2>2 DEF SameCall
    <3> QED
      BY <2>1, <3>1, OthersKeep DEF IInv
  <2> QED
    BY <2>3, <2>4 DEF IInv
<1>2. ASSUME NEW f \in Fetchers, NEW c \in Credentials, Fetch(f, c) PROVE IInv'
  BY <1>2, FetchKeeps
<1>3. ASSUME NEW f \in Fetchers, Login(f) PROVE IInv'
  BY <1>3, FindsSessionKeeps, LogsInAgainKeeps, PreparesKeeps DEF Login
<1>4. ASSUME NEW f \in Fetchers, Answered(f) PROVE IInv'
  BY <1>4, LoginAcceptedKeeps, LoginFailsKeeps, RequestReturnsKeeps, RedirectedKeeps DEF Answered
<1>5. ASSUME NEW f \in Fetchers, Invalidates(f) PROVE IInv'
  BY <1>5, InvalidatesKeeps
<1>6. ASSUME NEW l \in 1 .. Len(logins), EndsLogin(l) PROVE IInv'
  BY <1>6, EndsLoginKeeps
<1> QED
  BY <1>1, <1>2, <1>3, <1>4, <1>5, <1>6 DEF Next

\* The inductive invariant holds.
THEOREM Invariance == Spec => []IInv
<1>1. Init => IInv
  BY InitInv
<1>2. IInv /\ [Next]_vars => IInv'
  BY StepInv
<1> QED
  BY <1>1, <1>2, PTL DEF Spec

\* Every variable has its type.
THEOREM SessionTypeCorrect == Spec => []TypeOK
<1>1. IInv => TypeOK
  BY DEF IInv
<1> QED
  BY <1>1, Invariance, PTL

\* A page is fetched with a login of the credentials it was asked for with
\* (session.Fetch), whatever concurrent fetches do to the session.
THEOREM PagesFromOwnAccount == Spec => []OwnAccount
<1>1. IInv => OwnAccount
  BY DEF IInv, CallInv, RequestOK, OwnAccount
<1> QED
  BY <1>1, Invariance, PTL

\* The second attempt of a fetch is only ever refused with a login that was made
\* after the fetch began: two attempts are enough for a login that ran out.
THEOREM TwoAttemptsAreEnough == Spec => []RefusedWithNewLogin
<1>1. IInv => RefusedWithNewLogin
  BY DEF IInv, CallInv, RenewalOK, RefusedWithNewLogin
<1> QED
  BY <1>1, Invariance, PTL

\* No late answer costs the other callers a new login (session.invalidate).
THEOREM NewLoginIsKept == Spec => FreshLoginKept
<1> DEFINE Kept ==
      authenticated /\ ~authenticated' =>
        \/ credentials' # credentials
        \/ \E f \in Fetchers : at[f] = "redirected" /\ refused[f] = Last(jars)
<1>1. IInv /\ [Next]_vars => [Kept]_vars
  <2> SUFFICES ASSUME IInv, Next, authenticated, ~authenticated', credentials' = credentials
               PROVE  \E f \in Fetchers : at[f] = "redirected" /\ refused[f] = Last(jars)
    OBVIOUS
  <2>1. PICK f \in Fetchers : Invalidates(f)
    BY DEF Next, Login, Answered, Fetch, FindsSession, LogsInAgain, Prepares, LoginAccepted,
           LoginFails, RequestReturns, Redirected, EndsLogin, sessionVars, siteVars, callVars
  <2>2. at[f] = "redirected" /\ gen[f] = generation
    BY <2>1 DEF Invalidates
  <2> QED
    BY <2>1, <2>2 DEF IInv, CallInv, GenerationOK
<1> QED
  BY <1>1, Invariance, PTL DEF Spec, FreshLoginKept

-------------------------------------------------------------------------------
(* OpenSubtitles. *)

Stages == {"idle", "session", "logging in", "download", "refused"}

DownloadTypeOK ==
  /\ token \in Nat /\ accepted \in Nat
  /\ tokenMu \in Handlers \cup {None}
  /\ doing \in [Handlers -> Stages]
  /\ try \in [Handlers -> {0, 1, 2}]
  /\ authToken \in [Handlers -> Nat]
  /\ oldToken \in [Handlers -> Nat]
  /\ workload \in Workloads

\* Tokens are those of logins the site has accepted.
TokensAreOld ==
  /\ token <= accepted
  /\ \A h \in Handlers : authToken[h] <= accepted /\ oldToken[h] <= accepted

\* The mutex is held by the handler whose login request is out.
TokenLockOK(h) == tokenMu = h <=> doing[h] = "logging in"

\* A handler whose first attempt was refused does not find the token it was
\* refused with: there is none, or a newer one.
RetryOK(h) ==
  /\ doing[h] = "refused" => try[h] = 1
  /\ try[h] = 2 /\ doing[h] \in {"session", "logging in"} => token = 0 \/ token > oldToken[h]
  /\ try[h] = 2 /\ doing[h] = "download" => authToken[h] > oldToken[h]

\* The inductive invariant, with what OpenSubtitles assumes of the constants.
DownloadInv ==
  /\ O!DownloadsAssumption /\ DownloadTypeOK /\ TokensAreOld
  /\ \A h \in Handlers : TokenLockOK(h) /\ RetryOK(h)

-------------------------------------------------------------------------------

\* What a step of another handler leaves alone.
SameHandler(h) ==
  /\ doing'[h] = doing[h]
  /\ try'[h] = try[h]
  /\ authToken'[h] = authToken[h]
  /\ oldToken'[h] = oldToken[h]

\* A handler that does not take the step keeps its invariant when the mutex does
\* not come to it or leave it, and a token that changes is given up or new.
LEMMA OtherHandlersKeep ==
  ASSUME DownloadInv, NEW g \in Handlers, SameHandler(g),
         tokenMu' = g <=> tokenMu = g, token' \in Nat,
         token' = token \/ token' = 0 \/ token' > accepted
  PROVE  (TokenLockOK(g) /\ RetryOK(g))'
<1>1. oldToken[g] <= accepted /\ oldToken[g] \in Nat /\ accepted \in Nat
  BY DEF DownloadInv, DownloadTypeOK, TokensAreOld
<1>2. token' > accepted => token' > oldToken[g]
  BY <1>1
<1>3. TokenLockOK(g)'
  BY DEF DownloadInv, TokenLockOK, SameHandler
<1>4. RetryOK(g)'
  BY <1>2 DEF DownloadInv, RetryOK, SameHandler
<1> QED
  BY <1>3, <1>4

\* A step of handler h: what is left to show of the invariant is what it says of h.
LEMMA HandlerKeeps ==
  ASSUME DownloadInv, NEW h \in Handlers, DownloadTypeOK', TokensAreOld', (TokenLockOK(h) /\ RetryOK(h))',
         \A g \in Handlers \ {h} : SameHandler(g),
         tokenMu' = tokenMu \/ {tokenMu, tokenMu'} = {h, None},
         token' = token \/ token' = 0 \/ token' > accepted
  PROVE  DownloadInv'
<1>1. \A g \in Handlers \ {h} : tokenMu' = g <=> tokenMu = g
  BY DEF DownloadInv, O!DownloadsAssumption
<1>2. \A g \in Handlers \ {h} : (TokenLockOK(g) /\ RetryOK(g))'
  BY <1>1, OtherHandlersKeep DEF DownloadTypeOK
<1> QED
  BY <1>2 DEF DownloadInv

\* A step that leaves the session's mutex and token alone, and the site's logins.
LEMMA QuietStepKeeps ==
  ASSUME DownloadInv, NEW h \in Handlers, DownloadTypeOK', UNCHANGED <<tokenMu, token, accepted>>,
         \A g \in Handlers \ {h} : SameHandler(g),
         authToken'[h] <= accepted /\ oldToken'[h] <= accepted,
         (TokenLockOK(h) /\ RetryOK(h))'
  PROVE  DownloadInv'
<1>1. TokensAreOld'
  BY DEF DownloadInv, TokensAreOld, SameHandler
<1> QED
  BY <1>1, HandlerKeeps

\* What Returns and HasSession leave behind.
LEMMA ReturnsChanges ==
  ASSUME DownloadTypeOK, NEW h \in Handlers, O!HandlerReturns(h)
  PROVE  /\ doing' \in [Handlers -> Stages] /\ try' \in [Handlers -> {0, 1, 2}]
         /\ authToken' \in [Handlers -> Nat] /\ oldToken' \in [Handlers -> Nat]
         /\ \A g \in Handlers \ {h} : SameHandler(g)
         /\ doing'[h] = "idle" /\ try'[h] = 0 /\ authToken'[h] = 0 /\ oldToken'[h] = 0
  BY DEF DownloadTypeOK, O!HandlerReturns, Stages, SameHandler

LEMMA HasSessionChanges ==
  ASSUME DownloadTypeOK, NEW h \in Handlers, NEW t \in Nat, O!HasSession(h, t)
  PROVE  /\ doing' \in [Handlers -> Stages] /\ try' \in [Handlers -> {0, 1, 2}]
         /\ authToken' \in [Handlers -> Nat] /\ oldToken' \in [Handlers -> Nat]
         /\ \A g \in Handlers \ {h} : SameHandler(g)
         /\ doing'[h] = "download" /\ try'[h] = try[h]
         /\ authToken'[h] = t /\ oldToken'[h] = oldToken[h]
  BY DEF DownloadTypeOK, O!HasSession, Stages, SameHandler

\* Without a session only a first attempt goes out, and anonymously.
LEMMA HasNoSessionChanges ==
  ASSUME DownloadTypeOK, NEW h \in Handlers, O!HasNoSession(h)
  PROVE  /\ doing' \in [Handlers -> Stages] /\ try' \in [Handlers -> {0, 1, 2}]
         /\ authToken' \in [Handlers -> Nat] /\ oldToken' \in [Handlers -> Nat]
         /\ \A g \in Handlers \ {h} : SameHandler(g)
         /\ doing'[h] \in {"idle", "download"} /\ try'[h] # 2
         /\ authToken'[h] = 0 /\ oldToken'[h] \in {0, oldToken[h]}
<1>1. CASE try[h] = 1 /\ O!HasSession(h, 0)
  BY <1>1, HasSessionChanges
<1>2. CASE try[h] = 2 /\ O!HandlerReturns(h)
  BY <1>2, ReturnsChanges
<1> QED
  BY <1>1, <1>2 DEF O!HasNoSession

-------------------------------------------------------------------------------
(* The actions. *)

LEMMA DownloadKeeps ==
  ASSUME DownloadInv, NEW h \in Handlers, UNCHANGED workload, O!Download(h) \/ O!DownloadAnonymously(h)
  PROVE  DownloadInv'
<1>1. DownloadTypeOK'
  BY DEF DownloadInv, DownloadTypeOK, Stages,
         O!Download, O!DownloadAnonymously, O!Begins, O!sessionVars, O!siteVars
<1>2. /\ UNCHANGED <<tokenMu, token, accepted>>
      /\ authToken'[h] = authToken[h] /\ oldToken'[h] = oldToken[h]
      /\ \A g \in Handlers \ {h} : SameHandler(g)
  BY DEF DownloadInv, DownloadTypeOK, SameHandler,
         O!Download, O!DownloadAnonymously, O!Begins, O!sessionVars, O!siteVars
<1>3. doing[h] = "idle" /\ doing'[h] \in {"session", "download"} /\ try'[h] = 1
  BY DEF DownloadInv, DownloadTypeOK, O!Download, O!DownloadAnonymously, O!Begins
<1>4. TokenLockOK(h)'
  BY <1>2, <1>3 DEF DownloadInv, TokenLockOK
<1>5. RetryOK(h)'
  BY <1>3 DEF RetryOK
<1> QED
  BY <1>1, <1>2, <1>4, <1>5, QuietStepKeeps DEF DownloadInv, TokensAreOld

LEMMA LoginWasRejectedKeeps ==
  ASSUME DownloadInv, NEW h \in Handlers, UNCHANGED workload, O!LoginWasRejected(h)
  PROVE  DownloadInv'
<1>1. O!HasNoSession(h) /\ UNCHANGED <<tokenMu, token, accepted>> /\ doing[h] = "session"
  BY DEF O!LoginWasRejected, O!sessionVars, O!siteVars
<1>2. DownloadTypeOK'
  BY <1>1, HasNoSessionChanges DEF DownloadInv, DownloadTypeOK
<1>3. (TokenLockOK(h) /\ RetryOK(h))'
  BY <1>1, HasNoSessionChanges DEF DownloadInv, TokenLockOK, RetryOK
<1> QED
  BY <1>1, <1>2, <1>3, HasNoSessionChanges, QuietStepKeeps DEF DownloadInv, DownloadTypeOK, TokensAreOld

LEMMA FindsTokenKeeps ==
  ASSUME DownloadInv, NEW h \in Handlers, UNCHANGED workload, O!FindsToken(h)
  PROVE  DownloadInv'
<1>1. O!HasSession(h, token) /\ UNCHANGED <<tokenMu, token, accepted>> /\ doing[h] = "session" /\ token # 0
  BY DEF O!FindsToken, O!sessionVars, O!siteVars
<1>2. DownloadTypeOK'
  BY <1>1, HasSessionChanges DEF DownloadInv, DownloadTypeOK
<1>3. (TokenLockOK(h) /\ RetryOK(h))'
  <2>1. /\ doing'[h] = "download" /\ try'[h] = try[h]
        /\ authToken'[h] = token /\ oldToken'[h] = oldToken[h]
    BY <1>1, HasSessionChanges DEF DownloadInv, DownloadTypeOK
  <2>2. tokenMu # h
    BY <1>1 DEF DownloadInv, TokenLockOK
  <2>3. try[h] = 2 => token > oldToken[h]
    BY <1>1 DEF DownloadInv, RetryOK
  <2> QED
    BY <1>1, <2>1, <2>2, <2>3 DEF TokenLockOK, RetryOK
<1> QED
  BY <1>1, <1>2, <1>3, HasSessionChanges, QuietStepKeeps DEF DownloadInv, DownloadTypeOK, TokensAreOld

LEMMA LogsInKeeps ==
  ASSUME DownloadInv, NEW h \in Handlers, UNCHANGED workload, O!LogsIn(h)
  PROVE  DownloadInv'
<1>1. DownloadTypeOK'
  BY DEF DownloadInv, DownloadTypeOK, Stages, O!LogsIn, O!siteVars
<1>2. TokensAreOld' /\ \A g \in Handlers \ {h} : SameHandler(g)
  BY DEF DownloadInv, DownloadTypeOK, TokensAreOld, SameHandler, O!LogsIn, O!siteVars
<1>3. (TokenLockOK(h) /\ RetryOK(h))'
  BY DEF DownloadInv, DownloadTypeOK, TokenLockOK, RetryOK, O!LogsIn
<1>4. token' = token /\ {tokenMu, tokenMu'} = {h, None}
  BY DEF O!LogsIn
<1> QED
  BY <1>1, <1>2, <1>3, <1>4, HandlerKeeps

LEMMA TokenLoginKeeps ==
  ASSUME DownloadInv, NEW h \in Handlers, UNCHANGED workload, O!LoginAccepted(h)
  PROVE  DownloadInv'
<1>1. /\ O!HasSession(h, accepted') /\ accepted' = accepted + 1 /\ token' = accepted'
      /\ tokenMu = h /\ tokenMu' = None
  BY DEF O!LoginAccepted, DownloadInv, TokenLockOK
<1>2. accepted' \in Nat /\ token' > accepted
  BY <1>1 DEF DownloadInv, DownloadTypeOK
<1>3. DownloadTypeOK'
  BY <1>1, <1>2, HasSessionChanges DEF DownloadInv, DownloadTypeOK
<1>4. TokensAreOld'
  <2>1. \A g \in Handlers : authToken[g] <= accepted' /\ oldToken[g] <= accepted'
    BY <1>1 DEF DownloadInv, DownloadTypeOK, TokensAreOld
  <2> QED
    BY <1>1, <1>2, <2>1, HasSessionChanges DEF DownloadInv, TokensAreOld, SameHandler
<1>5. (TokenLockOK(h) /\ RetryOK(h))'
  <2>1. accepted' > oldToken[h]
    BY <1>1 DEF DownloadInv, DownloadTypeOK, TokensAreOld
  <2>2. doing'[h] = "download" /\ authToken'[h] = accepted' /\ oldToken'[h] = oldToken[h]
    BY <1>1, <1>2, HasSessionChanges DEF DownloadInv
  <2>3. tokenMu' # h
    BY <1>1 DEF DownloadInv, O!DownloadsAssumption
  <2> QED
    BY <2>1, <2>2, <2>3 DEF TokenLockOK, RetryOK
<1> QED
  BY <1>1, <1>2, <1>3, <1>4, <1>5, HasSessionChanges, HandlerKeeps DEF DownloadInv

LEMMA TokenLoginFailsKeeps ==
  ASSUME DownloadInv, NEW h \in Handlers, UNCHANGED workload, O!LoginRejected(h) \/ O!LoginFails(h)
  PROVE  DownloadInv'
<1>1. O!HasNoSession(h) /\ UNCHANGED <<token, accepted>> /\ tokenMu = h /\ tokenMu' = None
  BY DEF O!LoginRejected, O!LoginFails, O!siteVars, DownloadInv, TokenLockOK
<1>2. DownloadTypeOK'
  BY <1>1, HasNoSessionChanges DEF DownloadInv, DownloadTypeOK
<1>3. TokensAreOld'
  BY <1>1, HasNoSessionChanges DEF DownloadInv, DownloadTypeOK, TokensAreOld, SameHandler
<1>4. (TokenLockOK(h) /\ RetryOK(h))'
  BY <1>1, HasNoSessionChanges DEF DownloadInv, O!DownloadsAssumption, TokenLockOK, RetryOK
<1> QED
  BY <1>1, <1>2, <1>3, <1>4, HasNoSessionChanges, HandlerKeeps DEF DownloadInv

LEMMA DownloadAnsweredKeeps ==
  ASSUME DownloadInv, NEW h \in Handlers, UNCHANGED workload, O!DownloadAnswered(h)
  PROVE  DownloadInv'
<1>1. UNCHANGED <<tokenMu, token, accepted>> /\ doing[h] = "download"
  BY DEF O!DownloadAnswered, O!sessionVars, O!siteVars
<1>2. CASE O!HandlerReturns(h)
  <2>1. DownloadTypeOK'
    BY <1>1, <1>2, ReturnsChanges DEF DownloadInv, DownloadTypeOK
  <2>2. (TokenLockOK(h) /\ RetryOK(h))'
    BY <1>1, <1>2, ReturnsChanges DEF DownloadInv, TokenLockOK, RetryOK
  <2> QED
    BY <1>1, <1>2, <2>1, <2>2, ReturnsChanges, QuietStepKeeps DEF DownloadInv, DownloadTypeOK
<1>3. CASE ~O!HandlerReturns(h)
  <2>1. /\ try[h] = 1
        /\ doing' = [doing EXCEPT ![h] = "refused"]
        /\ oldToken' = [oldToken EXCEPT ![h] = authToken[h]]
        /\ UNCHANGED <<try, authToken>>
    BY <1>3 DEF O!DownloadAnswered, O!IsRefused
  <2>2. DownloadTypeOK'
    BY <1>1, <2>1 DEF DownloadInv, DownloadTypeOK, Stages
  <2>3. /\ oldToken'[h] = authToken[h] /\ authToken'[h] = authToken[h]
        /\ \A g \in Handlers \ {h} : SameHandler(g)
    BY <2>1 DEF DownloadInv, DownloadTypeOK, SameHandler
  <2>4. (TokenLockOK(h) /\ RetryOK(h))'
    BY <1>1, <2>1 DEF DownloadInv, DownloadTypeOK, TokenLockOK, RetryOK
  <2> QED
    BY <1>1, <2>2, <2>3, <2>4, QuietStepKeeps DEF DownloadInv, TokensAreOld
<1> QED
  BY <1>2, <1>3

LEMMA TokenInvalidatesKeeps ==
  ASSUME DownloadInv, NEW h \in Handlers, UNCHANGED workload, O!Invalidates(h)
  PROVE  DownloadInv'
<1>1. try' = [try EXCEPT ![h] = 2]
  <2>1. try[h] = 1
    BY DEF O!Invalidates, O!TriesAgain, DownloadInv, RetryOK
  <2>2. try[h] + 1 = 2
    BY <2>1
  <2> QED
    BY <2>2 DEF O!Invalidates, O!TriesAgain
<1>2. DownloadTypeOK'
  BY <1>1 DEF DownloadInv, DownloadTypeOK, Stages, O!Invalidates, O!TriesAgain, O!siteVars
<1>3. TokensAreOld' /\ \A g \in Handlers \ {h} : SameHandler(g)
  BY DEF DownloadInv, DownloadTypeOK, TokensAreOld, SameHandler, O!Invalidates, O!TriesAgain, O!siteVars
<1>4. (TokenLockOK(h) /\ RetryOK(h))'
  BY DEF DownloadInv, DownloadTypeOK, TokenLockOK, RetryOK, O!Invalidates, O!TriesAgain
<1>5. token' = 0 /\ tokenMu' = tokenMu
  BY DEF O!Invalidates
<1> QED
  BY <1>2, <1>3, <1>4, <1>5, HandlerKeeps

\* A step of the site or of the clock, or none.
LEMMA OtherStepKeeps ==
  ASSUME DownloadInv, UNCHANGED <<tokenMu, token, accepted, doing, try, authToken, oldToken, workload>>
  PROVE  DownloadInv'
  BY DEF DownloadInv, DownloadTypeOK, TokensAreOld, TokenLockOK, RetryOK

-------------------------------------------------------------------------------
(* The theorems. *)

LEMMA InitDownloadInv == O!DownloadsAssumption /\ O!Init => DownloadInv
  BY DEF O!DownloadsAssumption, O!Init, O!HandlersInit, DownloadInv, DownloadTypeOK, Stages, TokensAreOld,
         TokenLockOK, RetryOK

\* One case per action.
LEMMA DownloadStepInv == DownloadInv /\ [O!Next]_(O!vars) => DownloadInv'
<1> SUFFICES ASSUME DownloadInv, [O!Next]_(O!vars) PROVE DownloadInv'
  OBVIOUS
<1>1. CASE UNCHANGED O!vars
  BY <1>1, OtherStepKeeps DEF O!vars, O!stateVars, O!sessionVars, O!siteVars, O!handlerVars
<1>2. CASE O!Next
  <2>1. workload \subseteq Handlers /\ UNCHANGED workload
    BY <1>2 DEF O!Next, DownloadInv, O!DownloadsAssumption, DownloadTypeOK
  <2>2. ASSUME NEW h \in workload, O!Download(h) \/ O!DownloadAnonymously(h) PROVE DownloadInv'
    BY <2>1, <2>2, DownloadKeeps
  <2>3. ASSUME NEW h \in workload, O!Session(h) PROVE DownloadInv'
    BY <2>1, <2>3, LoginWasRejectedKeeps, FindsTokenKeeps, LogsInKeeps DEF O!Session
  <2>4. ASSUME NEW h \in workload, O!LoginAnswered(h) PROVE DownloadInv'
    BY <2>1, <2>4, TokenLoginKeeps, TokenLoginFailsKeeps DEF O!LoginAnswered
  <2>5. ASSUME NEW h \in workload, O!DownloadAnswered(h) PROVE DownloadInv'
    BY <2>1, <2>5, DownloadAnsweredKeeps
  <2>6. ASSUME NEW h \in workload, O!Invalidates(h) PROVE DownloadInv'
    BY <2>1, <2>6, TokenInvalidatesKeeps
  <2>7. ASSUME NEW t \in valid, O!RevokesToken(t) PROVE DownloadInv'
    BY <2>1, <2>7, OtherStepKeeps DEF O!RevokesToken, O!sessionVars, O!handlerVars
  <2>8. CASE O!TokenExpires \/ O!PasswordChanges
    BY <2>1, <2>8, OtherStepKeeps
       DEF O!TokenExpires, O!PasswordChanges, O!sessionVars, O!siteVars, O!handlerVars
  <2> QED
    BY <1>2, <2>2, <2>3, <2>4, <2>5, <2>6, <2>7, <2>8 DEF O!Next, O!Step
<1> QED
  BY <1>1, <1>2

\* The inductive invariant holds.
THEOREM DownloadInvariance == O!DownloadsAssumption /\ O!Spec => []DownloadInv
<1>1. O!DownloadsAssumption /\ O!Init => DownloadInv
  BY InitDownloadInv
<1>2. DownloadInv /\ [O!Next]_(O!vars) => DownloadInv'
  BY DownloadStepInv
<1> QED
  BY <1>1, <1>2, PTL DEF O!Spec

\* The second attempt of a download is made with another token than the one its
\* first attempt was refused with (getOpenSubtitlesDownload), whatever other
\* handlers do to the session in between.
THEOREM RetriesAreNotInVain == O!DownloadsAssumption /\ O!Spec => []RetryHasNewToken
<1>1. DownloadInv => RetryHasNewToken
  BY DEF DownloadInv, RetryOK, RetryHasNewToken
<1> QED
  BY <1>1, DownloadInvariance, PTL

\* One login is out at a time: the mutex is held over the request
\* (getOpenSubtitlesSession).
THEOREM OneLoginAtATime ==
  O!DownloadsAssumption /\ O!Spec =>
    [](\A g, h \in Handlers : doing[g] = "logging in" /\ doing[h] = "logging in" => g = h)
<1>1. DownloadInv => \A g, h \in Handlers : doing[g] = "logging in" /\ doing[h] = "logging in" => g = h
  BY DEF DownloadInv, TokenLockOK
<1> QED
  BY <1>1, DownloadInvariance, PTL
===============================================================================
