-------------------------- MODULE ReceiverSceneProofs --------------------------
(***************************************************************************)
(* Proofs about ReceiverScene and the registry of torrents under it, for   *)
(* any number of torrents, requests, openings and workloads.               *)
(***************************************************************************)
EXTENDS ReceiverScene, FiniteSetTheorems, TLAPS

(* The types, by part of the state. *)

LibraryTypes ==
  /\ adds \in 0 .. MaxAdds
  /\ hashOf \in [Torrents -> Hashes \cup {None}]
  /\ found \in [Hashes -> Torrents \cup {None}]
  /\ info \subseteq Torrents /\ dropped \subseteq Torrents
SharedTypes ==
  /\ ActiveTorrents \in [Hashes -> Torrents \cup {None}]
  /\ receivedTorrent \in Hashes \cup {None} /\ sentByPage \in BOOLEAN
ReceiverTypes == receiverEnabled \in BOOLEAN /\ receiverResponse \in URIs \cup {None}
RequestTypes ==
  /\ at \in [Adders -> {"idle", "fetch", "look up", "add", "wait"}]
  /\ uri \in [Adders -> URIs \cup {None}]
  /\ spec \in [Adders -> Hashes \cup {None}]
  /\ torrent \in [Adders -> Torrents \cup {None}]
  /\ known \in [Adders -> BOOLEAN]
  /\ answer \in [Adders -> Hashes \cup {None}]
OtherTypes == removing \in [Removers -> Hashes \cup {None}] /\ workload \in Workloads

-------------------------------------------------------------------------------
(* The inductive invariant: the registry and the library. *)

\* The library makes its torrents in order, each for an /add that was under way.
InFlight == {a \in Adders : at[a] \in {"fetch", "look up", "add"}}
Made(n) == \A t \in Torrents : hashOf[t] # None <=> t <= n
CountOK ==
  /\ IsFiniteSet(InFlight)
  /\ \E n \in 0 .. MaxAdds : Made(n) /\ n + Cardinality(InFlight) <= adds

\* A torrent is registered, and found, under its own hash.
LibraryOK ==
  /\ \A t \in dropped : hashOf[t] # None
  /\ \A x \in Hashes : ActiveTorrents[x] # None => hashOf[ActiveTorrents[x]] = x
  /\ \A x \in Hashes : found[x] # None => hashOf[found[x]] = x /\ found[x] \notin dropped

\* What a request has at each stage; those outside the workload have nothing.
RequestOK(a) ==
  /\ at[a] # "idle" => uri[a] \in URIs /\ a \in workload.adders
  /\ at[a] \in {"look up", "add", "wait"} => spec[a] # None
  /\ at[a] = "wait" <=> torrent[a] # None
  /\ torrent[a] # None => hashOf[torrent[a]] # None
  /\ answer[a] # None => uri[a] \in URIs /\ a \in workload.adders
RequestsOK ==
  /\ \A a \in Adders : RequestOK(a)
  /\ \A r \in Removers : removing[r] # None => r \in workload.removers

\* With one /add at a time: the file the server keeps is that of the torrent it works on,
\* which is the one its URI names, unless it took a file it was sent before, ...
RequestFits(a) ==
  /\ at[a] = "fetch" => receivedTorrent = None
  /\ at[a] \in {"look up", "add", "wait"} =>
        /\ receivedTorrent \in {None, spec[a]}
        /\ uri[a].kind = "magnet" \/ ~foreign => spec[a] = uri[a].hash
  /\ foreign /\ at[a] # "idle" => uri[a].kind # "magnet" /\ at[a] # "fetch"
  /\ answer[a] # None /\ ~foreign => answer[a] = uri[a].hash
\* ... and nobody registers another torrent of that hash, or drops the one it waits for.
RequestAlone(a) ==
  /\ at[a] \in {"add", "wait"} => ActiveTorrents[spec[a]] = None
  /\ at[a] = "wait" => hashOf[torrent[a]] = spec[a] /\ torrent[a] \notin dropped
\* A torrent that is being removed stays registered until then.
RemoverAlone(r) ==
  removing[r] # None =>
    ActiveTorrents[removing[r]] # None /\ ActiveTorrents[removing[r]] \in dropped
FileHasOwner == receivedTorrent # None => sentByPage \/ \E a \in Adders : at[a] # "idle"
Live(x) ==
  ActiveTorrents[x] # None => ActiveTorrents[x] \notin dropped \/ \E r \in Removers : removing[r] = x
Owned(t) ==
  hashOf[t] # None /\ t \notin dropped =>
    ActiveTorrents[hashOf[t]] = t \/ \E a \in Adders : torrent[a] = t
Registry ==
  /\ \A a \in Adders : RequestFits(a) /\ RequestAlone(a)
  /\ \A r \in Removers : RemoverAlone(r)
  /\ FileHasOwner
  /\ \A x \in Hashes : Live(x)
  /\ \A t \in Torrents : Owned(t)
AloneOK == Alone => Registry

(* The inductive invariant: the scene and the receiver. *)

ScreenOK ==
  /\ receivingProgress => focus = "ReceiverPage" /\ ~receiverWaiting /\ sleeping + due > 0
  /\ focus \in {"Main", "PlayerPage"} => adding = "no"
  /\ focus = "ReceiverPage" => (receiverWaiting <=> adding # "no")
  /\ focus = "MultiVideo" => adding \in {"no", "preparing"}
  /\ haveMultiVideo <=> focus = "MultiVideo" /\ adding = "preparing"
  /\ adding \in {"announced", "sent"} => received # None

CallsOK ==
  receivingProgress =>
    starts + stops > 0 \/ overtaken \/ receiverEnabled \/ receiverResponse # None

\* The receiver keeps one thing, and a workload without the scene leaves it alone.
ReceiverOK ==
  /\ receiverResponse # None => ~receiverEnabled
  /\ workload.scene = {} =>
        /\ ~sentByPage /\ ~foreign
        /\ ~receiverEnabled /\ ~receivingProgress /\ starts = 0 /\ adding = "no"

\* The /add of the widget is under way only while the scene waits for it, or before.
ServedOK == \A a \in workload.scene : at[a] # "idle" => adding = "handled" \/ focus = "Main"

\* The file of a torrent u that was sent as one is there to be added.
Kept(u) == u.kind # "magnet" => receivedTorrent = u.hash /\ sentByPage
FileOK ==
  Alone =>
    /\ adding \in {"announced", "sent", "handled"} => starts = 0 /\ ~receiverEnabled
    /\ receivingProgress /\ starts = 0 /\ receiverResponse # None => Kept(receiverResponse)
    /\ adding \in {"announced", "sent"} => Kept(received)

Basics == TypeOK /\ CountOK /\ LibraryOK /\ RequestsOK
SceneOK == SceneTypeOK /\ ScreenOK /\ CallsOK /\ ReceiverOK /\ ServedOK /\ FileOK
IInv == Basics /\ AloneOK /\ SceneOK

-------------------------------------------------------------------------------
(* Types. *)

LEMMA TypeSplit ==
  TypeOK => LibraryTypes /\ SharedTypes /\ ReceiverTypes /\ RequestTypes /\ OtherTypes
  BY DEF TypeOK, LibraryTypes, SharedTypes, ReceiverTypes, RequestTypes, OtherTypes

LEMMA TypeJoin ==
  ASSUME LibraryTypes', SharedTypes', ReceiverTypes', RequestTypes', OtherTypes'
  PROVE  TypeOK'
  BY DEF TypeOK, LibraryTypes, SharedTypes, ReceiverTypes, RequestTypes, OtherTypes

\* None is no torrent, hash or URI; a workload is what it is.
LEMMA Constants ==
  /\ None \notin Hashes /\ None \notin Torrents /\ None \notin URIs
  /\ MaxAdds \in Nat /\ Torrents \subseteq Nat
  /\ \A u \in URIs : u.hash \in Hashes /\ u.kind \in {"magnet", "url", "name"}
  /\ \A w \in Workloads : /\ w.adders \subseteq Adders /\ w.removers \subseteq Removers
                          /\ w.scene \subseteq w.adders /\ w.adds \in 0 .. MaxAdds
                          /\ w.hashes \subseteq Hashes
<1>1. /\ None \notin Hashes /\ None \notin Torrents /\ None \notin URIs
      /\ MaxAdds \in Nat /\ Torrents \subseteq Nat
  BY RegistryAssumption DEF Torrents
<1>2. \A u \in URIs : u.hash \in Hashes /\ u.kind \in {"magnet", "url", "name"}
  BY DEF URIs
<1>3. \A w \in Workloads : /\ w.adders \subseteq Adders /\ w.removers \subseteq Removers
                           /\ w.scene \subseteq w.adders /\ w.adds \in 0 .. MaxAdds
                           /\ w.hashes \subseteq Hashes
  BY RegistryAssumption, SceneAssumption
<1> QED
  BY <1>1, <1>2, <1>3

-------------------------------------------------------------------------------
(* How many torrents there are. *)

LEMMA CountKept ==
  ASSUME CountOK, UNCHANGED hashOf, adds' = adds, adds \in Nat, InFlight' \subseteq InFlight
  PROVE  CountOK'
<1>1. PICK n \in 0 .. MaxAdds : Made(n) /\ n + Cardinality(InFlight) <= adds
  BY DEF CountOK
<1>2. IsFiniteSet(InFlight') /\ Cardinality(InFlight') <= Cardinality(InFlight)
  BY FS_Subset DEF CountOK
<1>3. Cardinality(InFlight) \in Nat /\ Cardinality(InFlight') \in Nat
  BY <1>2, FS_CardinalityType DEF CountOK
<1>4. Made(n)' /\ n + Cardinality(InFlight') <= adds'
  BY <1>1, <1>2, <1>3 DEF Made
<1> QED
  BY <1>2, <1>4 DEF CountOK

LEMMA OneMore ==
  ASSUME NEW T, NEW x, IsFiniteSet(T)
  PROVE  IsFiniteSet(T \cup {x}) /\ Cardinality(T \cup {x}) <= Cardinality(T) + 1
<1>1. Cardinality(T) \in Nat
  BY FS_CardinalityType
<1>2. IsFiniteSet(T \cup {x})
      /\ Cardinality(T \cup {x}) = IF x \in T THEN Cardinality(T) ELSE Cardinality(T) + 1
  BY FS_AddElement
<1> QED
  BY <1>1, <1>2

LEMMA CountRequest ==
  ASSUME CountOK, UNCHANGED hashOf, adds \in Nat, adds' = adds + 1, NEW a,
         InFlight' \subseteq InFlight \cup {a}
  PROVE  CountOK'
<1>1. PICK n \in 0 .. MaxAdds : Made(n) /\ n + Cardinality(InFlight) <= adds
  BY DEF CountOK
<1> DEFINE S == InFlight \cup {a}
<1>0. IsFiniteSet(InFlight) /\ Cardinality(InFlight) \in Nat
  BY FS_CardinalityType DEF CountOK
<1>2. IsFiniteSet(S) /\ Cardinality(S) <= Cardinality(InFlight) + 1
  BY <1>0, OneMore
<1> HIDE DEF S
<1>3. IsFiniteSet(InFlight') /\ Cardinality(InFlight') <= Cardinality(S)
  BY <1>2, FS_Subset DEF S
<1>4. Cardinality(InFlight') \in Nat /\ Cardinality(S) \in Nat
  BY <1>2, <1>3, FS_CardinalityType
<1>5. Made(n)' /\ n + Cardinality(InFlight') <= adds'
  BY <1>0, <1>1, <1>2, <1>3, <1>4 DEF Made
<1> QED
  BY <1>3, <1>5 DEF CountOK

\* The torrent AddToClient is about: one that is found, or the next one, which exists.
TorrentFor(x) ==
  IF found[x] = None THEN CHOOSE n \in Torrents : hashOf[n] = None
                                   /\ \A m \in Torrents : m < n => hashOf[m] # None
  ELSE found[x]

LEMMA NextTorrent ==
  ASSUME CountOK, LibraryTypes, NEW n \in 0 .. MaxAdds, Made(n), n < MaxAdds
  PROVE  (CHOOSE m \in Torrents : hashOf[m] = None /\ \A k \in Torrents : k < m => hashOf[k] # None)
           = n + 1
<1> DEFINE P(m) == hashOf[m] = None /\ \A k \in Torrents : k < m => hashOf[k] # None
<1>0. MaxAdds \in Nat
  BY RegistryAssumption
<1>1. n + 1 \in Torrents /\ P(n + 1)
  BY <1>0 DEF Made, Torrents
<1>2. ASSUME NEW m \in Torrents, P(m) PROVE m = n + 1
  <2>1. m > n
    BY <1>2, <1>0 DEF Made, Torrents
  <2>2. ~(m > n + 1)
    BY <1>1, <1>2 DEF Made, Torrents
  <2> QED
    BY <2>1, <2>2, <1>0 DEF Torrents
<1> QED
  BY <1>1, <1>2

LEMMA TorrentForExists ==
  ASSUME CountOK, LibraryTypes, LibraryOK, NEW x \in Hashes, NEW a \in InFlight
  PROVE  /\ TorrentFor(x) \in Torrents
         /\ hashOf[TorrentFor(x)] \in {None, x} /\ TorrentFor(x) \notin dropped
         /\ found[x] = None => hashOf[TorrentFor(x)] = None
<1>1. PICK n \in 0 .. MaxAdds : Made(n) /\ n + Cardinality(InFlight) <= adds
  BY DEF CountOK
<1>2. Cardinality(InFlight) \in Nat /\ Cardinality(InFlight) # 0
  BY FS_CardinalityType, FS_EmptySet DEF CountOK
<1>3. n < MaxAdds /\ MaxAdds \in Nat
  BY <1>1, <1>2, RegistryAssumption DEF LibraryTypes
<1>4. CASE found[x] = None
  <2>1. TorrentFor(x) = n + 1
    BY <1>1, <1>3, <1>4, NextTorrent DEF TorrentFor
  <2>2. n + 1 \in Torrents /\ hashOf[n + 1] = None
    BY <1>1, <1>3 DEF Made, Torrents
  <2> QED
    BY <2>1, <2>2 DEF LibraryOK
<1>5. CASE found[x] # None
  BY <1>5 DEF TorrentFor, LibraryTypes, LibraryOK
<1> QED
  BY <1>4, <1>5

LEMMA CountAdded ==
  ASSUME CountOK, LibraryTypes, LibraryOK, NEW x \in Hashes, NEW a \in InFlight,
         hashOf' = [hashOf EXCEPT ![TorrentFor(x)] = x], adds' = adds, InFlight' = InFlight \ {a}
  PROVE  CountOK'
<1>1. PICK n \in 0 .. MaxAdds : Made(n) /\ n + Cardinality(InFlight) <= adds
  BY DEF CountOK
<1>2. Cardinality(InFlight) \in Nat /\ Cardinality(InFlight) # 0
  BY FS_CardinalityType, FS_EmptySet DEF CountOK
<1>3. IsFiniteSet(InFlight') /\ Cardinality(InFlight') = Cardinality(InFlight) - 1
  BY FS_RemoveElement DEF CountOK
<1>4. n < MaxAdds /\ MaxAdds \in Nat /\ None \notin Hashes
  BY <1>1, <1>2, RegistryAssumption DEF LibraryTypes
<1>5. CASE found[x] = None
  <2>1. TorrentFor(x) = n + 1
    BY <1>1, <1>4, <1>5, NextTorrent DEF TorrentFor
  <2>2. \A t \in Torrents : hashOf'[t] = IF t = n + 1 THEN x ELSE hashOf[t]
    BY <2>1 DEF LibraryTypes
  <2>3. Made(n + 1)'
    BY <1>1, <1>4, <2>2 DEF Made, Torrents
  <2>4. n + 1 \in 0 .. MaxAdds /\ (n + 1) + Cardinality(InFlight') <= adds'
    BY <1>1, <1>2, <1>3, <1>4 DEF LibraryTypes
  <2> QED
    BY <1>3, <2>3, <2>4 DEF CountOK
<1>6. CASE found[x] # None
  <2>1. hashOf' = hashOf
    BY <1>6 DEF TorrentFor, LibraryTypes, LibraryOK
  <2>2. Made(n)' /\ n + Cardinality(InFlight') <= adds'
    BY <1>1, <1>2, <1>3, <2>1 DEF Made, LibraryTypes
  <2> QED
    BY <1>3, <2>2 DEF CountOK
<1> QED
  BY <1>5, <1>6
-------------------------------------------------------------------------------
(* The requests and the library: types, counts and stages. *)

\* A request up to its look-up changes nothing in the library.
Early(a) ==
  \/ FetchesFile(a) \/ FetchesMagnet(a) \/ FetchFails(a) \/ FindsActive(a) \/ FindsNone(a)
  \/ AddPanics(a)

LEMMA EarlyFrame ==
  ASSUME NEW a \in Adders, Early(a)
  PROVE  /\ UNCHANGED <<adds, libraryVars, ActiveTorrents, receiverVars, removing>>
         /\ at[a] \in {"fetch", "look up", "add"}
         /\ fileVars' = fileVars \/ (receivedTorrent' = None /\ sentByPage' = FALSE)
            \/ (at[a] = "fetch" /\ receivedTorrent' = uri[a].hash /\ sentByPage' = FALSE)
<1>1. CASE FetchesFile(a) \/ FetchesMagnet(a) \/ FetchFails(a)
  BY <1>1 DEF FetchesFile, FetchesMagnet, FetchFails, ForgetFile
<1>2. CASE FindsActive(a) \/ FindsNone(a) \/ AddPanics(a)
  BY <1>2 DEF FindsActive, FindsNone, AddPanics, ForgetFile
<1> QED
  BY <1>1, <1>2 DEF Early

LEMMA EarlyBasics ==
  ASSUME Basics, NEW a \in Adders, Early(a), UNCHANGED workload
  PROVE  Basics'
<1> USE DEF Basics
<1>1. uri[a] \in URIs /\ a \in workload.adders /\ torrent[a] = None /\ at[a] \in {"fetch", "look up", "add"}
  BY EarlyFrame, TypeSplit DEF RequestsOK, RequestOK, RequestTypes
<1>0. [uri[a] EXCEPT !.kind = "magnet"] \in URIs
  BY <1>1 DEF URIs
<1>2. RequestTypes'
  <2>1. CASE FetchesFile(a) \/ FetchesMagnet(a)
    <3>1. [uri EXCEPT ![a].kind = "magnet"] \in [Adders -> URIs \cup {None}]
      BY <1>0, TypeSplit DEF RequestTypes
    <3> QED
      BY <1>1, <2>1, <3>1, Constants, TypeSplit DEF FetchesFile, FetchesMagnet, RequestTypes
  <2>2. CASE FetchFails(a) \/ FindsActive(a) \/ AddPanics(a)
    <3>1. PICK x \in Hashes \cup {None} : Return(a, x) /\ UNCHANGED <<uri, spec>>
      BY <2>2, TypeSplit DEF FetchFails, FindsActive, AddPanics, RequestTypes
    <3> QED
      BY <3>1, TypeSplit DEF Return, RequestTypes
  <2>3. CASE FindsNone(a)
    BY <2>3, TypeSplit DEF FindsNone, requestVars, RequestTypes
  <2> QED
    BY <2>1, <2>2, <2>3 DEF Early
<1>3. TypeOK'
  <2>1. LibraryTypes' /\ ReceiverTypes' /\ OtherTypes'
    BY EarlyFrame, TypeSplit DEF libraryVars, receiverVars, LibraryTypes, ReceiverTypes, OtherTypes
  <2>2. SharedTypes'
    BY <1>1, Constants, EarlyFrame, TypeSplit DEF SharedTypes, fileVars
  <2> QED
    BY <1>2, <2>1, <2>2, TypeJoin
<1>4. CountOK'
  <2>1. InFlight' \subseteq InFlight
    <3>1. \A b \in Adders : b # a => at'[b] = at[b]
      BY TypeSplit DEF Early, FetchesFile, FetchesMagnet, FetchFails, FindsActive, FindsNone, AddPanics,
         Return, RequestTypes
    <3>2. a \in InFlight
      BY <1>1 DEF InFlight
    <3> QED
      BY <3>1, <3>2 DEF InFlight
  <2>2. UNCHANGED hashOf /\ adds' = adds
    BY EarlyFrame DEF libraryVars
  <2>3. adds \in Nat
    BY RegistryAssumption, TypeSplit DEF LibraryTypes
  <2> QED
    BY <2>1, <2>2, <2>3, CountKept
<1>5. LibraryOK'
  BY EarlyFrame DEF LibraryOK, libraryVars
<1>6. RequestsOK'
  <2>1. ASSUME NEW b \in Adders, b # a PROVE RequestOK(b)'
    <3>1. /\ at'[b] = at[b] /\ uri'[b] = uri[b] /\ spec'[b] = spec[b] /\ torrent'[b] = torrent[b]
          /\ answer'[b] = answer[b] /\ hashOf' = hashOf
      BY <2>1, TypeSplit, EarlyFrame DEF Early, FetchesFile, FetchesMagnet, FetchFails, FindsActive, FindsNone,
         AddPanics, Return, RequestTypes, requestVars, libraryVars
    <3> QED
      BY <3>1 DEF RequestsOK, RequestOK
  <2>2. RequestOK(a)'
    <3>1. CASE FetchesFile(a) \/ FetchesMagnet(a)
      <4>1. uri'[a] \in URIs /\ torrent' = torrent
        BY <1>0, <1>1, <3>1, TypeSplit DEF FetchesFile, FetchesMagnet, RequestTypes
      <4>2. at'[a] = "look up" /\ spec'[a] = uri[a].hash
        BY <3>1, TypeSplit DEF FetchesFile, FetchesMagnet, RequestTypes
      <4> QED
        BY <1>1, <4>1, <4>2, Constants DEF RequestOK
    <3>2. CASE FetchFails(a) \/ FindsActive(a) \/ AddPanics(a)
      <4>1. at'[a] = "idle" /\ torrent'[a] = None /\ uri'[a] = uri[a]
        BY <3>2, TypeSplit DEF FetchFails, FindsActive, AddPanics, Return, RequestTypes
      <4> QED
        BY <1>1, <4>1 DEF RequestOK
    <3>3. CASE FindsNone(a)
      <4>1. at[a] = "look up" /\ at'[a] = "add" /\ UNCHANGED <<uri, spec, torrent>>
        BY <3>3, TypeSplit DEF FindsNone, requestVars, RequestTypes
      <4> QED
        BY <1>1, <4>1 DEF RequestsOK, RequestOK
    <3> QED
      BY <3>1, <3>2, <3>3 DEF Early
  <2>3. \A r \in Removers : removing'[r] # None => r \in workload'.removers
    BY EarlyFrame DEF RequestsOK
  <2> QED
    BY <2>1, <2>2, <2>3 DEF RequestsOK
<1> QED
  BY <1>3, <1>4, <1>5, <1>6

\* A new request.
LEMMA RequestBasics ==
  ASSUME Basics, NEW a \in workload.adders, NEW u \in URIs, Request(a, u), UNCHANGED workload
  PROVE  Basics'
<1> USE DEF Basics
<1>1. /\ at[a] = "idle" /\ adds' = adds + 1 /\ adds < workload.adds
      /\ uri' = [uri EXCEPT ![a] = u] /\ answer' = [answer EXCEPT ![a] = None]
      /\ UNCHANGED <<libraryVars, ActiveTorrents, receiverVars, torrent, known, removing>>
  BY DEF Request
<1>2. \/ /\ receivedTorrent' = None /\ sentByPage' = FALSE
         /\ spec' = [spec EXCEPT ![a] = u.hash] /\ at' = [at EXCEPT ![a] = "look up"]
      \/ /\ receivedTorrent # None /\ spec' = [spec EXCEPT ![a] = receivedTorrent]
         /\ at' = [at EXCEPT ![a] = "look up"] /\ UNCHANGED fileVars
      \/ at' = [at EXCEPT ![a] = "fetch"] /\ UNCHANGED <<spec, fileVars>>
  BY DEF Request, ForgetFile
<1>3. a \in Adders /\ adds + 1 \in 0 .. MaxAdds
  BY <1>1, Constants, TypeSplit DEF LibraryTypes, OtherTypes
<1>4. TypeOK'
  <2>1. LibraryTypes' /\ ReceiverTypes' /\ OtherTypes'
    BY <1>1, <1>3, TypeSplit DEF libraryVars, receiverVars, LibraryTypes, ReceiverTypes, OtherTypes
  <2>2. SharedTypes'
    BY <1>1, <1>2, TypeSplit DEF SharedTypes, fileVars
  <2>3. RequestTypes'
    <3>1. /\ at' \in [Adders -> {"idle", "fetch", "look up", "add", "wait"}]
          /\ spec' \in [Adders -> Hashes \cup {None}]
      <4>1. u.hash \in Hashes
        BY Constants
      <4>2. PICK x \in Hashes \cup {None}, w \in {"look up", "fetch"} :
              spec' \in {spec, [spec EXCEPT ![a] = x]} /\ at' = [at EXCEPT ![a] = w]
        BY <1>2, <4>1, TypeSplit DEF SharedTypes
      <4> QED
        BY <1>3, <4>2, TypeSplit DEF RequestTypes
    <3> QED
      BY <1>1, <1>3, <3>1, TypeSplit DEF RequestTypes
  <2> QED
    BY <2>1, <2>2, <2>3, TypeJoin
<1>5. CountOK'
  <2>1. InFlight' \subseteq InFlight \cup {a}
    BY <1>2, <1>3, TypeSplit DEF InFlight, RequestTypes
  <2> QED
    BY <1>1, <2>1, CountRequest, TypeSplit DEF libraryVars, LibraryTypes
<1>6. LibraryOK'
  BY <1>1 DEF LibraryOK, libraryVars
<1>7. RequestsOK'
  <2>1. ASSUME NEW b \in Adders, b # a PROVE RequestOK(b)'
    <3>1. /\ at'[b] = at[b] /\ uri'[b] = uri[b] /\ spec'[b] = spec[b] /\ torrent'[b] = torrent[b]
          /\ answer'[b] = answer[b] /\ hashOf' = hashOf
      BY <1>1, <1>2, <2>1, TypeSplit DEF RequestTypes, libraryVars
    <3> QED
      BY <3>1 DEF RequestsOK, RequestOK
  <2>2. RequestOK(a)'
    <3>1. uri'[a] = u /\ answer'[a] = None /\ torrent'[a] = None
      BY <1>1, <1>3, TypeSplit DEF RequestTypes, RequestsOK, RequestOK
    <3>2. at'[a] = "fetch" \/ (at'[a] = "look up" /\ spec'[a] # None)
      <4>1. u.hash # None
        BY Constants
      <4>2. \/ at' = [at EXCEPT ![a] = "fetch"]
            \/ \E x : x # None /\ at' = [at EXCEPT ![a] = "look up"] /\ spec' = [spec EXCEPT ![a] = x]
        BY <1>2, <4>1
      <4> QED
        BY <1>3, <4>2, TypeSplit DEF RequestTypes
    <3> QED
      BY <3>1, <3>2, Constants DEF RequestOK
  <2>3. \A r \in Removers : removing'[r] # None => r \in workload'.removers
    BY <1>1 DEF RequestsOK
  <2> QED
    BY <2>1, <2>2, <2>3 DEF RequestsOK
<1> QED
  BY <1>4, <1>5, <1>6, <1>7
\* AddTorrent or AddMagnet.
LEMMA AddedBasics ==
  ASSUME Basics, NEW a \in Adders, AddsFile(a) \/ AddsMagnet(a), UNCHANGED workload
  PROVE  Basics'
<1> USE DEF Basics
<1>1. PICK x \in Hashes :
        /\ at[a] = "add"
        /\ hashOf' = [hashOf EXCEPT ![TorrentFor(x)] = x]
        /\ found' = [found EXCEPT ![x] = TorrentFor(x)]
        /\ info' \in {info, info \cup {TorrentFor(x)}}
        /\ torrent' = [torrent EXCEPT ![a] = TorrentFor(x)]
        /\ known' = [known EXCEPT ![a] = TorrentFor(x) \in info']
        /\ at' = [at EXCEPT ![a] = "wait"]
        /\ UNCHANGED <<dropped, adds, ActiveTorrents, fileVars, receiverVars, uri, spec, answer, removing>>
  <2>1. CASE AddsFile(a)
    <3>1. receivedTorrent \in Hashes
      BY <2>1, TypeSplit DEF AddsFile, SharedTypes
    <3> QED
      BY <2>1, <3>1 DEF AddsFile, AddToClient, TorrentFor
  <2>2. CASE AddsMagnet(a)
    <3>1. uri[a].hash \in Hashes
      BY <2>2, Constants DEF AddsMagnet, RequestsOK, RequestOK
    <3> QED
      BY <2>2, <3>1 DEF AddsMagnet, AddToClient, TorrentFor
  <2> QED
    BY <2>1, <2>2
<1> DEFINE t == TorrentFor(x)
<1>2. a \in InFlight
  BY <1>1 DEF InFlight
<1>3. t \in Torrents /\ hashOf[t] \in {None, x} /\ t \notin dropped
  BY <1>2, TorrentForExists, TypeSplit
<1> HIDE DEF t
<1>4. TypeOK'
  <2>1. LibraryTypes'
    BY <1>1, <1>3, TypeSplit DEF LibraryTypes, t
  <2>2. SharedTypes' /\ ReceiverTypes' /\ OtherTypes'
    BY <1>1, TypeSplit DEF SharedTypes, ReceiverTypes, OtherTypes, fileVars, receiverVars
  <2>3. RequestTypes'
    <3>1. PICK k \in BOOLEAN : known' = [known EXCEPT ![a] = k]
      <4>1. (TorrentFor(x) \in info') \in BOOLEAN
        OBVIOUS
      <4> QED
        BY <1>1, <4>1
    <3>2. known' \in [Adders -> BOOLEAN]
      BY <3>1, TypeSplit DEF RequestTypes
    <3>3. torrent' \in [Adders -> Torrents \cup {None}]
      BY <1>1, <1>3, TypeSplit DEF RequestTypes, t
    <3> QED
      BY <1>1, <3>2, <3>3, TypeSplit DEF RequestTypes
  <2> QED
    BY <2>1, <2>2, <2>3, TypeJoin
<1>5. CountOK'
  <2>1. InFlight' = InFlight \ {a}
    BY <1>1, TypeSplit DEF InFlight, RequestTypes
  <2> QED
    BY <1>1, <1>2, <2>1, CountAdded, TypeSplit
<1>6. hashOf'[t] = x /\ \A u \in Torrents : hashOf[u] # None => hashOf'[u] = hashOf[u]
  BY <1>1, <1>3, TypeSplit DEF LibraryTypes, t
<1>7. LibraryOK'
  <2>1. \A u \in dropped' : hashOf'[u] # None
    BY <1>1, <1>6, TypeSplit DEF LibraryOK, LibraryTypes
  <2>2. ASSUME NEW y \in Hashes, ActiveTorrents'[y] # None PROVE hashOf'[ActiveTorrents'[y]] = y
    <3>1. ActiveTorrents[y] \in Torrents /\ hashOf[ActiveTorrents[y]] = y /\ y # None
      BY <1>1, <2>2, Constants, TypeSplit DEF LibraryOK, SharedTypes
    <3> QED
      BY <1>1, <1>6, <3>1
  <2>3. ASSUME NEW y \in Hashes, found'[y] # None
        PROVE  hashOf'[found'[y]] = y /\ found'[y] \notin dropped'
    <3>1. CASE y = x
      BY <1>1, <1>3, <1>6, <3>1, TypeSplit DEF LibraryTypes, t
    <3>2. CASE y # x
      <4>1. found'[y] = found[y]
        BY <1>1, <3>2, TypeSplit DEF LibraryTypes
      <4>2. found[y] \in Torrents /\ hashOf[found[y]] = y /\ found[y] \notin dropped /\ y # None
        BY <2>3, <4>1, Constants, TypeSplit DEF LibraryTypes, LibraryOK
      <4> QED
        BY <1>1, <1>6, <4>1, <4>2
    <3> QED
      BY <3>1, <3>2
  <2> QED
    BY <2>1, <2>2, <2>3 DEF LibraryOK
<1>8. RequestsOK'
  <2>1. ASSUME NEW b \in Adders, b # a PROVE RequestOK(b)'
    <3>1. /\ at'[b] = at[b] /\ torrent'[b] = torrent[b] /\ torrent[b] \in Torrents \cup {None}
          /\ UNCHANGED <<uri, spec, answer, workload>>
      BY <1>1, <2>1, TypeSplit DEF RequestTypes
    <3> QED
      BY <1>6, <3>1 DEF RequestsOK, RequestOK
  <2>2. RequestOK(a)'
    <3>1. /\ at'[a] = "wait" /\ torrent'[a] = t /\ t # None /\ hashOf'[t] # None
          /\ UNCHANGED <<uri, spec, answer, workload>>
      BY <1>1, <1>3, <1>6, Constants, TypeSplit DEF RequestTypes, t
    <3> QED
      BY <1>1, <3>1 DEF RequestsOK, RequestOK
  <2>3. \A r \in Removers : removing'[r] # None => r \in workload'.removers
    BY <1>1 DEF RequestsOK
  <2> QED
    BY <2>1, <2>2, <2>3 DEF RequestsOK
<1> QED
  BY <1>4, <1>5, <1>7, <1>8

\* The end of the wait, with or without the torrent.
LEMMA WaitBasics ==
  ASSUME Basics, NEW a \in Adders, Registers(a) \/ Rejects(a) \/ TimesOut(a), UNCHANGED workload
  PROVE  Basics'
<1> USE DEF Basics
<1> DEFINE t == torrent[a]
<1>1. /\ at[a] = "wait" /\ UNCHANGED <<adds, hashOf, info, receiverVars, uri, spec, removing>>
      /\ receivedTorrent' = None /\ sentByPage' = FALSE
      /\ \E x \in {None, hashOf[t]} : Return(a, x)
      /\ \/ ActiveTorrents' = [ActiveTorrents EXCEPT ![hashOf[t]] = t] /\ UNCHANGED <<found, dropped>>
         \/ Drop(t) /\ UNCHANGED ActiveTorrents
  BY DEF Registers, Rejects, TimesOut, ForgetFile, libraryVars
<1>2. t \in Torrents /\ hashOf[t] \in Hashes
  BY <1>1, TypeSplit DEF RequestsOK, RequestOK, RequestTypes, LibraryTypes
<1>3. PICK x \in Hashes \cup {None} : Return(a, x)
  BY <1>1, <1>2
<1> HIDE DEF t
<1>4. TypeOK'
  <2>1. LibraryTypes'
    BY <1>1, <1>2, TypeSplit DEF LibraryTypes, Drop
  <2>2. SharedTypes' /\ ReceiverTypes' /\ OtherTypes'
    BY <1>1, <1>2, TypeSplit DEF SharedTypes, ReceiverTypes, OtherTypes, receiverVars
  <2>3. RequestTypes'
    BY <1>1, <1>3, TypeSplit DEF RequestTypes, Return
  <2> QED
    BY <2>1, <2>2, <2>3, TypeJoin
<1>5. CountOK'
  <2>1. InFlight' \subseteq InFlight
    BY <1>3, TypeSplit DEF InFlight, RequestTypes, Return
  <2>2. adds \in Nat
    BY RegistryAssumption, TypeSplit DEF LibraryTypes
  <2> QED
    BY <1>1, <2>1, <2>2, CountKept
<1>6. LibraryOK'
  <2>1. CASE ActiveTorrents' = [ActiveTorrents EXCEPT ![hashOf[t]] = t] /\ UNCHANGED <<found, dropped>>
    BY <1>1, <1>2, <2>1, TypeSplit DEF LibraryOK, SharedTypes
  <2>2. CASE Drop(t) /\ UNCHANGED ActiveTorrents
    <3>1. \A u \in dropped' : hashOf'[u] # None
      BY <1>1, <1>2, <2>2, Constants DEF LibraryOK, Drop
    <3>2. \A y \in Hashes : found'[y] # None => found'[y] = found[y] /\ y # hashOf[t]
      BY <1>2, <2>2, TypeSplit DEF LibraryTypes, Drop
    <3> QED
      BY <1>1, <2>2, <3>1, <3>2 DEF LibraryOK, Drop
  <2> QED
    BY <1>1, <2>1, <2>2
<1>7. RequestsOK'
  <2>1. ASSUME NEW b \in Adders, b # a PROVE RequestOK(b)'
    <3>1. /\ at'[b] = at[b] /\ torrent'[b] = torrent[b] /\ answer'[b] = answer[b]
          /\ UNCHANGED <<uri, spec, workload, hashOf>>
      BY <1>1, <1>3, <2>1, TypeSplit DEF RequestTypes, Return
    <3> QED
      BY <3>1 DEF RequestsOK, RequestOK
  <2>2. RequestOK(a)'
    <3>1. at'[a] = "idle" /\ torrent'[a] = None /\ UNCHANGED <<uri, workload>>
      BY <1>1, <1>3, TypeSplit DEF RequestTypes, Return
    <3> QED
      BY <1>1, <3>1 DEF RequestsOK, RequestOK
  <2>3. \A r \in Removers : removing'[r] # None => r \in workload'.removers
    BY <1>1 DEF RequestsOK
  <2> QED
    BY <2>1, <2>2, <2>3 DEF RequestsOK
<1> QED
  BY <1>4, <1>5, <1>6, <1>7

\* The metadata of a torrent, and the removers.
LEMMA RemoveBasics ==
  ASSUME Basics, UNCHANGED workload,
         \/ \E t \in Torrents : GetsInfo(t)
         \/ \E r \in workload.removers : RemoverDeletes(r) \/ \E x \in Hashes : RemoverDrops(r, x)
  PROVE  Basics'
<1> USE DEF Basics
<1>1. UNCHANGED <<adds, hashOf, fileVars, receiverVars, at, requestVars, workload>>
  BY DEF GetsInfo, RemoverDeletes, RemoverDrops, libraryVars
<1>2. SharedTypes' /\ ReceiverTypes' /\ RequestTypes'
  <2>1. ActiveTorrents' \in [Hashes -> Torrents \cup {None}]
    BY TypeSplit DEF SharedTypes, GetsInfo, RemoverDeletes, RemoverDrops
  <2> QED
    BY <1>1, <2>1, TypeSplit DEF SharedTypes, ReceiverTypes, RequestTypes, fileVars, receiverVars, requestVars
<1>3. CountOK'
  <2>1. InFlight' = InFlight /\ hashOf' = hashOf /\ adds' = adds
    BY <1>1 DEF InFlight
  <2>2. adds \in Nat
    BY RegistryAssumption, TypeSplit DEF LibraryTypes
  <2> QED
    BY <2>1, <2>2, CountKept
<1>4. \A a \in Adders : RequestOK(a)'
  BY <1>1 DEF RequestsOK, RequestOK, requestVars
<1>5. ASSUME NEW t \in Torrents, GetsInfo(t) PROVE Basics'
  <2>1. LibraryTypes' /\ OtherTypes' /\ LibraryOK' /\ RequestsOK'
    BY <1>1, <1>4, <1>5, TypeSplit DEF LibraryTypes, OtherTypes, LibraryOK, RequestsOK, GetsInfo
  <2> QED
    BY <1>2, <1>3, <2>1, TypeJoin
<1>6. ASSUME NEW r \in workload.removers, RemoverDeletes(r) PROVE Basics'
  <2>0. r \in Removers
    BY Constants, TypeSplit DEF OtherTypes
  <2>1. LibraryTypes' /\ OtherTypes' /\ RequestsOK'
    BY <1>1, <1>4, <1>6, <2>0, TypeSplit DEF LibraryTypes, OtherTypes, RequestsOK, RemoverDeletes, libraryVars
  <2>2. LibraryOK'
    BY <1>6, TypeSplit DEF LibraryOK, RemoverDeletes, libraryVars, SharedTypes
  <2> QED
    BY <1>2, <1>3, <2>1, <2>2, TypeJoin
<1>7. ASSUME NEW r \in workload.removers, NEW x \in Hashes, RemoverDrops(r, x) PROVE Basics'
  <2> DEFINE t == ActiveTorrents[x]
  <2>0. r \in Removers /\ t \in Torrents /\ hashOf[t] = x
    BY <1>7, Constants, TypeSplit DEF OtherTypes, SharedTypes, LibraryOK, RemoverDrops
  <2>1. /\ dropped' = dropped \cup {t} /\ found' = [found EXCEPT ![x] = None]
        /\ removing' = [removing EXCEPT ![r] = x] /\ UNCHANGED <<info, ActiveTorrents>>
    BY <1>7, <2>0 DEF RemoverDrops, Drop
  <2> HIDE DEF t
  <2>2. LibraryTypes' /\ OtherTypes' /\ RequestsOK'
    BY <1>1, <1>4, <2>0, <2>1, TypeSplit DEF LibraryTypes, OtherTypes, RequestsOK
  <2>3. LibraryOK'
    <3>1. \A u \in dropped' : hashOf'[u] # None
      BY <1>1, <2>0, <2>1, Constants DEF LibraryOK
    <3>2. \A y \in Hashes : found'[y] # None => found'[y] = found[y] /\ y # x
      BY <2>1, TypeSplit DEF LibraryTypes
    <3> QED
      BY <1>1, <2>0, <2>1, <3>1, <3>2 DEF LibraryOK
  <2> QED
    BY <1>2, <1>3, <2>2, <2>3, TypeJoin
<1> QED
  BY <1>5, <1>6, <1>7
-------------------------------------------------------------------------------
(* One /add and one delete at a time. *)

\* Nobody but a has anything under way, or an answer.
Sole(a) == \A b \in Adders : b # a => at[b] = "idle" /\ torrent[b] = None /\ answer[b] = None

LEMMA SoleAdder ==
  ASSUME Basics, Alone, NEW a \in workload.adders
  PROVE  Sole(a)
  BY DEF Basics, RequestsOK, RequestOK, Alone, Sole

\* What others have at a step of a.
LEMMA OthersFit ==
  ASSUME NEW a \in Adders, Sole(a), NEW b \in Adders, b # a, at'[b] = at[b], answer'[b] = answer[b]
  PROVE  RequestFits(b)' /\ RequestAlone(b)'
  BY DEF Sole, RequestFits, RequestAlone

LEMMA EarlyAlone ==
  ASSUME Basics, Registry, Alone, NEW a \in Adders, Early(a), UNCHANGED foreign
  PROVE  Registry'
<1> USE DEF Basics
<1>1. uri[a] \in URIs /\ torrent[a] = None /\ a \in workload.adders
  BY EarlyFrame DEF RequestsOK, RequestOK
<1>2. Sole(a)
  BY <1>1, SoleAdder
<1>3. UNCHANGED <<hashOf, dropped, ActiveTorrents, removing>>
  BY EarlyFrame DEF libraryVars
<1>4. torrent' = torrent
  BY <1>1, TypeSplit DEF Early, FetchesFile, FetchesMagnet, FetchFails, FindsActive, FindsNone, AddPanics,
     Return, RequestTypes, requestVars
<1>5. RequestFits(a)' /\ RequestAlone(a)' /\ (receivedTorrent' # None => at'[a] # "idle")
  <2>1. RequestFits(a)
    BY DEF Registry
  <2>2. CASE FetchesFile(a)
    <3>1. ~foreign /\ answer[a] = answer'[a]
      BY <2>1, <2>2 DEF FetchesFile, RequestFits
    <3>2. at'[a] = "look up" /\ spec'[a] = uri[a].hash /\ receivedTorrent' = uri[a].hash /\ uri' = uri
      BY <2>2, TypeSplit DEF FetchesFile, RequestTypes
    <3> QED
      BY <2>1, <3>1, <3>2 DEF RequestFits, RequestAlone
  <2>3. CASE FetchesMagnet(a)
    <3>1. uri'[a].hash = uri[a].hash
      BY <1>1, <2>3, TypeSplit DEF FetchesMagnet, RequestTypes, URIs
    <3>2. ~foreign /\ answer[a] = answer'[a]
      BY <2>1, <2>3 DEF FetchesMagnet, RequestFits
    <3>3. at'[a] = "look up" /\ spec'[a] = uri[a].hash /\ receivedTorrent' = None
      BY <2>3, TypeSplit DEF FetchesMagnet, RequestTypes, ForgetFile
    <3> QED
      BY <2>1, <3>1, <3>2, <3>3 DEF RequestFits, RequestAlone
  <2>4. CASE FetchFails(a) \/ AddPanics(a)
    <3>1. receivedTorrent' = None /\ at'[a] = "idle" /\ answer'[a] = None
      BY <2>1, <2>4, TypeSplit DEF FetchFails, AddPanics, Return, RequestTypes, RequestFits, ForgetFile, fileVars
    <3> QED
      BY <3>1 DEF RequestFits, RequestAlone
  <2>5. CASE FindsActive(a)
    <3>1. /\ receivedTorrent' = None /\ at'[a] = "idle" /\ answer'[a] = spec[a] /\ uri' = uri
          /\ ~foreign => spec[a] = uri[a].hash
      BY <2>1, <2>5, TypeSplit DEF FindsActive, Return, RequestTypes, RequestFits, ForgetFile
    <3> QED
      BY <3>1 DEF RequestFits, RequestAlone
  <2>6. CASE FindsNone(a)
    <3>1. /\ at[a] = "look up" /\ at'[a] = "add" /\ ActiveTorrents[spec[a]] = None
          /\ UNCHANGED <<uri, spec, answer, receivedTorrent>>
      BY <2>6, TypeSplit DEF FindsNone, requestVars, RequestTypes, fileVars
    <3> QED
      BY <1>3, <2>1, <3>1 DEF RequestFits, RequestAlone
  <2> QED
    BY <2>2, <2>3, <2>4, <2>5, <2>6 DEF Early
<1>6. ASSUME NEW b \in Adders, b # a PROVE RequestFits(b)' /\ RequestAlone(b)'
  <2>1. at'[b] = at[b] /\ answer'[b] = answer[b]
    BY <1>6, TypeSplit DEF Early, FetchesFile, FetchesMagnet, FetchFails, FindsActive, FindsNone, AddPanics,
       Return, RequestTypes, requestVars
  <2> QED
    BY <1>2, <1>6, <2>1, OthersFit
<1>7. \A r \in Removers : RemoverAlone(r)'
  BY <1>3 DEF Registry, RemoverAlone
<1>8. (\A x \in Hashes : Live(x)') /\ (\A t \in Torrents : Owned(t)')
  BY <1>3, <1>4 DEF Registry, Live, Owned
<1> QED
  BY <1>5, <1>6, <1>7, <1>8 DEF Registry, FileHasOwner

\* A request for u, when a file the server keeps is that of u, or foreign.
LEMMA RequestAloneKeeps ==
  ASSUME Basics, Registry, Alone, NEW a \in workload.adders, NEW u \in URIs, Request(a, u),
         u.kind # "magnet" /\ ~foreign' => receivedTorrent \in {None, u.hash},
         foreign' => u.kind # "magnet" /\ receivedTorrent # None
  PROVE  Registry'
<1> USE DEF Basics
<1>1. a \in Adders /\ Sole(a)
  BY SoleAdder, Constants, TypeSplit DEF OtherTypes
<1>2. UNCHANGED <<hashOf, dropped, ActiveTorrents, removing, torrent>>
  BY DEF Request, libraryVars
<1>3. uri'[a] = u /\ answer'[a] = None
  BY <1>1, TypeSplit DEF Request, RequestTypes
<1>4. \/ /\ at'[a] = "look up" /\ receivedTorrent' \in {None, spec'[a]}
         /\ u.kind = "magnet" \/ ~foreign' => spec'[a] = u.hash
      \/ at'[a] = "fetch" /\ receivedTorrent' = None /\ ~foreign'
  <2>1. CASE u.kind = "magnet"
    BY <1>1, <2>1, TypeSplit DEF Request, RequestTypes, ForgetFile
  <2>2. CASE u.kind # "magnet"
    BY <1>1, <2>2, TypeSplit DEF Request, RequestTypes, fileVars
  <2> QED
    BY <2>1, <2>2
<1>5. RequestFits(a)' /\ RequestAlone(a)' /\ at'[a] # "idle"
  BY <1>3, <1>4 DEF RequestFits, RequestAlone
<1>6. ASSUME NEW b \in Adders, b # a PROVE RequestFits(b)' /\ RequestAlone(b)'
  <2>1. at'[b] = at[b] /\ answer'[b] = answer[b]
    BY <1>6, TypeSplit DEF Request, RequestTypes
  <2> QED
    BY <1>1, <1>6, <2>1, OthersFit
<1>7. \A r \in Removers : RemoverAlone(r)'
  BY <1>2 DEF Registry, RemoverAlone
<1>8. (\A x \in Hashes : Live(x)') /\ (\A t \in Torrents : Owned(t)')
  BY <1>2 DEF Registry, Live, Owned
<1> QED
  BY <1>1, <1>5, <1>6, <1>7, <1>8 DEF Registry, FileHasOwner

LEMMA AddedAlone ==
  ASSUME Basics, Registry, Alone, NEW a \in Adders, AddsFile(a) \/ AddsMagnet(a), UNCHANGED foreign
  PROVE  Registry'
<1> USE DEF Basics
<1>1. at[a] = "add" /\ uri[a] \in URIs /\ torrent[a] = None /\ a \in workload.adders /\ RequestFits(a) /\ RequestAlone(a)
  BY DEF AddsFile, AddsMagnet, RequestsOK, RequestOK, Registry
<1> DEFINE x == spec[a]
           t == TorrentFor(x)
<1>2. /\ hashOf' = [hashOf EXCEPT ![t] = x] /\ torrent' = [torrent EXCEPT ![a] = t]
      /\ at' = [at EXCEPT ![a] = "wait"]
      /\ UNCHANGED <<dropped, ActiveTorrents, fileVars, uri, spec, answer, removing>>
  <2>1. CASE AddsFile(a)
    <3>1. receivedTorrent = spec[a]
      BY <1>1, <2>1 DEF AddsFile, RequestFits
    <3> QED
      BY <2>1, <3>1 DEF AddsFile, AddToClient, TorrentFor
  <2>2. CASE AddsMagnet(a)
    <3>1. uri[a].hash = spec[a]
      BY <1>1, <2>2 DEF AddsMagnet, RequestFits
    <3> QED
      BY <2>2, <3>1 DEF AddsMagnet, AddToClient, TorrentFor
  <2> QED
    BY <2>1, <2>2
<1>3. Sole(a) /\ x \in Hashes /\ a \in InFlight
  BY <1>1, SoleAdder, TypeSplit DEF InFlight, RequestsOK, RequestOK, RequestTypes
<1> HIDE DEF x
<1>4. t \in Torrents /\ t \notin dropped /\ hashOf[t] \in {None, x}
  BY <1>3, TorrentForExists, TypeSplit
<1> HIDE DEF t
<1>5. /\ hashOf'[t] = x /\ \A u \in Torrents : u # t => hashOf'[u] = hashOf[u]
      /\ torrent'[a] = t /\ at'[a] = "wait"
  BY <1>2, <1>4, TypeSplit DEF LibraryTypes, RequestTypes
<1>6. RequestFits(a)' /\ RequestAlone(a)'
  <2>1. RequestFits(a)'
    BY <1>1, <1>2, <1>5 DEF RequestFits, fileVars
  <2>2. hashOf'[torrent'[a]] = x /\ torrent'[a] \notin dropped'
    BY <1>2, <1>4, <1>5
  <2>3. ActiveTorrents'[x] = None /\ spec'[a] = x
    BY <1>1, <1>2 DEF RequestAlone, x
  <2> QED
    BY <2>1, <2>2, <2>3 DEF RequestAlone
<1>7. ASSUME NEW b \in Adders, b # a PROVE RequestFits(b)' /\ RequestAlone(b)'
  <2>1. at'[b] = at[b] /\ answer'[b] = answer[b]
    BY <1>2, <1>7, TypeSplit DEF RequestTypes
  <2> QED
    BY <1>3, <1>7, <2>1, OthersFit
<1>8. (\A r \in Removers : RemoverAlone(r)') /\ (\A y \in Hashes : Live(y)')
  BY <1>2 DEF Registry, RemoverAlone, Live
<1>9. ASSUME NEW u \in Torrents, hashOf'[u] # None, u \notin dropped'
      PROVE  ActiveTorrents'[hashOf'[u]] = u \/ \E b \in Adders : torrent'[b] = u
  <2>1. CASE u = t
    BY <1>5, <2>1
  <2>2. CASE u # t
    <3>1. Owned(u) /\ hashOf'[u] = hashOf[u] /\ u # None
      BY <1>5, <2>2, Constants DEF Registry
    <3>2. ~(\E b \in Adders : torrent[b] = u)
      BY <1>1, <1>3, <3>1 DEF Sole
    <3> QED
      BY <1>2, <1>9, <3>1, <3>2 DEF Owned
  <2> QED
    BY <2>1, <2>2
<1> QED
  BY <1>5, <1>6, <1>7, <1>8, <1>9 DEF Registry, FileHasOwner, Owned

LEMMA WaitAlone ==
  ASSUME Basics, Registry, Alone, NEW a \in Adders, Registers(a) \/ Rejects(a) \/ TimesOut(a), UNCHANGED foreign
  PROVE  Registry'
<1> USE DEF Basics
<1> DEFINE t == torrent[a]
           x == spec[a]
<1>1. /\ at[a] = "wait" /\ a \in workload.adders /\ RequestFits(a) /\ RequestAlone(a) /\ uri[a] \in URIs
      /\ t \in Torrents /\ hashOf[t] = x /\ t \notin dropped /\ ActiveTorrents[x] = None
  <2>1. at[a] = "wait"
    BY DEF Registers, Rejects, TimesOut
  <2>2. a \in workload.adders /\ RequestFits(a) /\ RequestAlone(a) /\ uri[a] \in URIs /\ torrent[a] # None
    BY <2>1 DEF RequestsOK, RequestOK, Registry
  <2> QED
    BY <2>1, <2>2, TypeSplit DEF RequestAlone, RequestTypes
<1>2. Sole(a) /\ x \in Hashes
  BY <1>1, SoleAdder, TypeSplit DEF RequestsOK, RequestOK, RequestTypes
<1>3. PICK y \in {None, x} : Return(a, y)
  BY <1>1 DEF Registers, Rejects, TimesOut
<1>4. /\ receivedTorrent' = None /\ UNCHANGED <<hashOf, uri, removing>>
      /\ \/ ActiveTorrents' = [ActiveTorrents EXCEPT ![x] = t] /\ UNCHANGED dropped
         \/ dropped' = dropped \cup {t} /\ UNCHANGED ActiveTorrents
  BY <1>1 DEF Registers, Rejects, TimesOut, ForgetFile, libraryVars, Drop
<1> HIDE DEF t, x
<1>5. RequestFits(a)' /\ RequestAlone(a)'
  <2>1. at'[a] = "idle" /\ answer'[a] = y
    BY <1>3, TypeSplit DEF Return, RequestTypes
  <2>2. ~foreign => uri[a].hash = x
    BY <1>1 DEF RequestFits, x
  <2> QED
    BY <1>3, <1>4, <2>1, <2>2 DEF RequestFits, RequestAlone
<1>6. ASSUME NEW b \in Adders, b # a PROVE RequestFits(b)' /\ RequestAlone(b)'
  <2>1. at'[b] = at[b] /\ answer'[b] = answer[b]
    BY <1>3, <1>6, TypeSplit DEF Return, RequestTypes
  <2> QED
    BY <1>2, <1>6, <2>1, OthersFit
<1>7. \A z \in Hashes : z # x => ActiveTorrents'[z] = ActiveTorrents[z]
  BY <1>4, TypeSplit DEF SharedTypes
<1>8. \A r \in Removers : RemoverAlone(r)'
  <2> SUFFICES ASSUME NEW r \in Removers, removing[r] # None
               PROVE  ActiveTorrents'[removing[r]] # None /\ ActiveTorrents'[removing[r]] \in dropped'
    BY <1>4 DEF RemoverAlone
  <2>1. /\ removing[r] \in Hashes /\ removing[r] # x
        /\ ActiveTorrents[removing[r]] # None /\ ActiveTorrents[removing[r]] \in dropped
    BY <1>1, TypeSplit DEF Registry, RemoverAlone, OtherTypes
  <2> QED
    BY <1>4, <1>7, <2>1
<1>9. ASSUME NEW z \in Hashes PROVE Live(z)'
  <2>1. CASE z = x
    BY <1>1, <1>2, <1>4, <2>1, TypeSplit DEF Live, SharedTypes
  <2>2. CASE z # x
    <3>1. ActiveTorrents[z] # t
      BY <1>1, <2>2, Constants DEF LibraryOK
    <3> QED
      BY <1>4, <1>7, <2>2, <3>1 DEF Registry, Live
  <2> QED
    BY <2>1, <2>2
<1>10. ASSUME NEW u \in Torrents, hashOf[u] # None, u \notin dropped'
       PROVE  ActiveTorrents'[hashOf[u]] = u
  <2>1. CASE u = t
    BY <1>1, <1>2, <1>4, <1>10, <2>1, TypeSplit DEF SharedTypes
  <2>2. CASE u # t
    <3>1. ~(\E b \in Adders : torrent[b] = u)
      BY <1>2, <2>2, Constants DEF Sole, t
    <3>2. ActiveTorrents[hashOf[u]] = u
      BY <1>4, <1>10, <3>1 DEF Registry, Owned
    <3>3. hashOf[u] \in Hashes /\ hashOf[u] # x
      BY <1>1, <1>10, <3>2, Constants, TypeSplit DEF LibraryTypes
    <3> QED
      BY <1>7, <3>2, <3>3
  <2> QED
    BY <2>1, <2>2
<1> QED
  BY <1>4, <1>5, <1>6, <1>8, <1>9, <1>10 DEF Registry, FileHasOwner, Owned

LEMMA RemoveAlone ==
  ASSUME Basics, Registry, Alone,
         \/ \E t \in Torrents : GetsInfo(t)
         \/ \E r \in workload.removers : RemoverDeletes(r) \/ \E x \in Hashes : RemoverDrops(r, x),
         UNCHANGED foreign
  PROVE  Registry'
<1> USE DEF Basics
<1>1. UNCHANGED <<hashOf, fileVars, at, requestVars>>
  BY DEF GetsInfo, RemoverDeletes, RemoverDrops, libraryVars
<1>2. FileHasOwner' /\ \A a \in Adders : RequestFits(a)'
  BY <1>1 DEF Registry, FileHasOwner, RequestFits, requestVars, fileVars
<1>3. ASSUME NEW t \in Torrents, GetsInfo(t) PROVE Registry'
  <2>1. UNCHANGED <<dropped, ActiveTorrents, removing>>
    BY <1>3 DEF GetsInfo
  <2> QED
    BY <1>1, <1>2, <2>1 DEF Registry, RequestAlone, RemoverAlone, Live, Owned, requestVars
<1>4. ASSUME NEW r \in workload.removers, RemoverDeletes(r) PROVE Registry'
  <2> DEFINE y == removing[r]
  <2>1. /\ r \in Removers /\ y \in Hashes /\ ActiveTorrents[y] \in dropped
        /\ ActiveTorrents' = [ActiveTorrents EXCEPT ![y] = None]
        /\ removing' = [removing EXCEPT ![r] = None] /\ UNCHANGED dropped
    BY <1>4, Constants, TypeSplit DEF RemoverDeletes, libraryVars, OtherTypes, Registry, RemoverAlone
  <2>2. \A s \in Removers : s # r => removing[s] = None
    BY <1>4 DEF RequestsOK, Alone
  <2> HIDE DEF y
  <2>3. /\ ActiveTorrents'[y] = None
        /\ \A z \in Hashes : z # y => ActiveTorrents'[z] = ActiveTorrents[z]
        /\ \A s \in Removers : removing'[s] = None
    BY <2>1, <2>2, TypeSplit DEF SharedTypes, OtherTypes
  <2>4. ASSUME NEW a \in Adders PROVE RequestAlone(a)'
    <3>1. at[a] \in {"add", "wait"} => spec[a] \in Hashes
      BY TypeSplit DEF RequestsOK, RequestOK, RequestTypes
    <3> QED
      BY <1>1, <2>1, <2>3, <3>1 DEF Registry, RequestAlone, requestVars
  <2>5. \A s \in Removers : RemoverAlone(s)'
    BY <2>3 DEF RemoverAlone
  <2>6. ASSUME NEW z \in Hashes PROVE Live(z)'
    <3>1. CASE z = y
      BY <2>3, <3>1 DEF Live
    <3>2. CASE z # y
      <4>1. \A s \in Removers : removing[s] # z
        BY <2>2, <3>2, Constants DEF y
      <4> QED
        BY <2>1, <2>3, <3>2, <4>1 DEF Registry, Live
    <3> QED
      BY <3>1, <3>2
  <2>7. ASSUME NEW u \in Torrents PROVE Owned(u)'
    BY <1>1, <2>1, <2>3, Constants, TypeSplit DEF Registry, Owned, requestVars, LibraryTypes
  <2> QED
    BY <1>2, <2>4, <2>5, <2>6, <2>7 DEF Registry
<1>5. ASSUME NEW r \in workload.removers, NEW x \in Hashes, RemoverDrops(r, x) PROVE Registry'
  <2> DEFINE t == ActiveTorrents[x]
  <2>1. /\ r \in Removers /\ removing[r] = None /\ t # None /\ t \in Torrents /\ hashOf[t] = x
        /\ dropped' = dropped \cup {t} /\ removing' = [removing EXCEPT ![r] = x]
        /\ UNCHANGED ActiveTorrents
    BY <1>5, Constants, TypeSplit DEF RemoverDrops, Drop, OtherTypes, LibraryOK, SharedTypes
  <2>2. removing'[r] = x /\ \A s \in Removers : s # r => removing'[s] = removing[s]
    BY <2>1, TypeSplit DEF OtherTypes
  <2>3. ASSUME NEW a \in Adders PROVE RequestAlone(a)'
    <3>1. at[a] = "wait" => torrent[a] # t
      BY <2>1 DEF Registry, RequestAlone
    <3> HIDE DEF t
    <3> QED
      BY <1>1, <2>1, <3>1 DEF Registry, RequestAlone, requestVars
  <2>4. \A s \in Removers : RemoverAlone(s)'
    BY <2>1, <2>2 DEF Registry, RemoverAlone
  <2>5. ASSUME NEW z \in Hashes PROVE Live(z)'
    <3>1. CASE z = x
      BY <2>1, <2>2, <3>1 DEF Live
    <3>2. CASE z # x
      <4>1. ActiveTorrents[z] # t
        BY <2>1, <3>2, Constants DEF LibraryOK
      <4>2. \A s \in Removers : removing[s] = z => removing'[s] = z
        BY <2>1, <2>2, Constants
      <4> HIDE DEF t
      <4> QED
        BY <2>1, <4>1, <4>2 DEF Registry, Live
    <3> QED
      BY <3>1, <3>2
  <2>6. \A u \in Torrents : Owned(u)'
    BY <1>1, <2>1 DEF Registry, Owned, requestVars
  <2> QED
    BY <1>2, <2>3, <2>4, <2>5, <2>6 DEF Registry
<1> QED
  BY <1>3, <1>4, <1>5

-------------------------------------------------------------------------------
(* The receiver's handlers, and what the others leave of its state. *)

Receives ==
  StartReceiver \/ StopReceiver \/ \E x \in Hashes : SetReceivedMagnet(x) \/ SetReceivedTorrent(x)

LEMMA ReceiverFrame ==
  ASSUME Receives
  PROVE  /\ UNCHANGED <<adds, libraryVars, ActiveTorrents, at, requestVars, removing>>
         /\ \/ UNCHANGED fileVars
            \/ receivedTorrent' = None /\ sentByPage' = FALSE
            \/ receivedTorrent' \in Hashes /\ sentByPage' = TRUE
         /\ receiverEnabled' \in BOOLEAN
         /\ \/ receiverResponse' \in {receiverResponse, None}
            \/ \E x \in Hashes : receiverResponse' = [kind |-> "magnet", hash |-> x]
                              \/ receiverResponse' = [kind |-> "name", hash |-> x]
<1>1. CASE StartReceiver \/ StopReceiver
  BY <1>1 DEF StartReceiver, StopReceiver, ForgetFile
<1>2. ASSUME NEW x \in Hashes, SetReceivedMagnet(x) \/ SetReceivedTorrent(x)
      PROVE  /\ UNCHANGED <<adds, libraryVars, ActiveTorrents, at, requestVars, removing>>
             /\ \/ UNCHANGED fileVars
                \/ receivedTorrent' \in Hashes /\ sentByPage' = TRUE
             /\ receiverEnabled' \in BOOLEAN
             /\ \/ receiverResponse' = [kind |-> "magnet", hash |-> x]
                \/ receiverResponse' = [kind |-> "name", hash |-> x]
  <2>1. CASE SetReceivedMagnet(x)
    BY <2>1 DEF SetReceivedMagnet
  <2>2. CASE SetReceivedTorrent(x)
    BY <2>2 DEF SetReceivedTorrent
  <2> QED
    BY <1>2, <2>1, <2>2
<1> QED
  BY <1>1, <1>2 DEF Receives

LEMMA ReceiverBasics ==
  ASSUME Basics, Receives, UNCHANGED workload
  PROVE  Basics'
<1> USE DEF Basics
<1>1. UNCHANGED <<adds, libraryVars, ActiveTorrents, at, requestVars, removing>>
  BY ReceiverFrame
<1>2. TypeOK'
  <2>1. LibraryTypes' /\ RequestTypes' /\ OtherTypes'
    BY <1>1, TypeSplit DEF LibraryTypes, RequestTypes, OtherTypes, libraryVars, requestVars
  <2>2. SharedTypes'
    BY <1>1, ReceiverFrame, TypeSplit DEF SharedTypes, fileVars
  <2>3. ReceiverTypes'
    <3>1. \A x \in Hashes : [kind |-> "magnet", hash |-> x] \in URIs /\ [kind |-> "name", hash |-> x] \in URIs
      BY DEF URIs
    <3> QED
      BY <3>1, ReceiverFrame, TypeSplit DEF ReceiverTypes
  <2> QED
    BY <2>1, <2>2, <2>3, TypeJoin
<1>3. CountOK'
  <2>1. InFlight' = InFlight /\ hashOf' = hashOf /\ adds' = adds
    BY <1>1 DEF InFlight, libraryVars
  <2>2. adds \in Nat
    BY RegistryAssumption, TypeSplit DEF LibraryTypes
  <2> QED
    BY <2>1, <2>2, CountKept
<1>4. LibraryOK' /\ RequestsOK'
  BY <1>1 DEF LibraryOK, RequestsOK, RequestOK, libraryVars, requestVars
<1> QED
  BY <1>2, <1>3, <1>4

\* They do not disturb an /add, unless one is under way and another file comes.
LEMMA ReceiverAlone ==
  ASSUME Registry, Receives, UNCHANGED foreign,
         UNCHANGED fileVars \/ receivedTorrent' = None \/ \A a \in Adders : at[a] = "idle"
  PROVE  Registry'
<1>1. UNCHANGED <<hashOf, dropped, ActiveTorrents, at, uri, spec, torrent, answer, removing>>
  BY ReceiverFrame DEF libraryVars, requestVars
<1>2. \A a \in Adders : RequestFits(a)' /\ RequestAlone(a)'
  <2>1. ASSUME NEW a \in Adders PROVE RequestFits(a)' /\ RequestAlone(a)'
    <3>1. RequestFits(a) /\ RequestAlone(a)
      BY DEF Registry
    <3>2. RequestAlone(a)'
      BY <1>1, <3>1 DEF RequestAlone
    <3>3. receivedTorrent' \in {receivedTorrent, None} \/ at[a] = "idle"
      BY DEF fileVars
    <3>4. foreign' <=> foreign
      OBVIOUS
    <3>5. RequestFits(a)'
      <4>1. CASE receivedTorrent' = receivedTorrent
        BY <1>1, <3>1, <3>4, <4>1 DEF RequestFits
      <4>2. CASE receivedTorrent' = None
        BY <1>1, <3>1, <3>4, <4>2 DEF RequestFits
      <4>3. CASE at[a] = "idle"
        BY <1>1, <3>1, <4>3 DEF RequestFits
      <4> QED
        BY <3>3, <4>1, <4>2, <4>3
    <3> QED
      BY <3>2, <3>5
  <2> QED
    BY <2>1
<1>3. FileHasOwner'
  BY <1>1, ReceiverFrame DEF Registry, FileHasOwner, fileVars
<1>4. /\ \A r \in Removers : RemoverAlone(r)'
      /\ \A x \in Hashes : Live(x)'
      /\ \A t \in Torrents : Owned(t)'
  BY <1>1 DEF Registry, RemoverAlone, Live, Owned
<1> QED
  BY <1>2, <1>3, <1>4 DEF Registry

LEMMA ServerKept ==
  ASSUME Basics, UNCHANGED <<serverVars, workload>>
  PROVE  Basics' /\ (Registry /\ UNCHANGED foreign => Registry')
<1>1. /\ UNCHANGED <<adds, hashOf, found, info, dropped, ActiveTorrents, receivedTorrent, sentByPage>>
      /\ UNCHANGED <<receiverEnabled, receiverResponse, at, uri, spec, torrent, known, answer>>
      /\ UNCHANGED <<removing, workload>>
  BY DEF serverVars, libraryVars, fileVars, receiverVars, requestVars
<1>2. TypeOK' /\ LibraryOK' /\ RequestsOK'
  BY <1>1 DEF Basics, TypeOK, LibraryOK, RequestsOK, RequestOK
<1>3. CountOK'
  BY <1>1 DEF Basics, CountOK, InFlight, Made
<1>4. ASSUME Registry, UNCHANGED foreign PROVE Registry'
  <2>1. \A a \in Adders : RequestFits(a)' /\ RequestAlone(a)'
    BY <1>1, <1>4 DEF Registry, RequestFits, RequestAlone
  <2>2. (\A r \in Removers : RemoverAlone(r)') /\ FileHasOwner'
    BY <1>1, <1>4 DEF Registry, RemoverAlone, FileHasOwner
  <2> QED
    BY <1>1, <1>4, <2>1, <2>2 DEF Registry, Live, Owned
<1> QED
  BY <1>2, <1>3, <1>4 DEF Basics
-------------------------------------------------------------------------------
(* Steps of the server. *)

LEMMA AddKinds ==
  ASSUME NEW a, Add(a)
  PROVE  Early(a) \/ AddsFile(a) \/ AddsMagnet(a) \/ Registers(a) \/ Rejects(a) \/ TimesOut(a)
  BY DEF Add, Fetches, Decides, Early

LEMMA AddFrame ==
  ASSUME NEW a \in Adders, Basics, Add(a)
  PROVE  /\ at[a] # "idle" /\ UNCHANGED receiverVars
         /\ UNCHANGED fileVars \/ sentByPage' = FALSE
         /\ \A b \in Adders : b # a => at'[b] = at[b]
<1>1. CASE Early(a)
  <2>1. \A b \in Adders : b # a => at'[b] = at[b]
    BY <1>1, TypeSplit DEF Basics, Early, FetchesFile, FetchesMagnet, FetchFails, FindsActive, FindsNone,
       AddPanics, Return, RequestTypes
  <2> QED
    BY <1>1, <2>1, EarlyFrame DEF fileVars
<1>2. CASE AddsFile(a) \/ AddsMagnet(a)
  BY <1>2, TypeSplit DEF Basics, AddsFile, AddsMagnet, AddToClient, RequestTypes
<1>3. CASE Registers(a) \/ Rejects(a) \/ TimesOut(a)
  BY <1>3, TypeSplit DEF Basics, Registers, Rejects, TimesOut, Return, RequestTypes, ForgetFile
<1> QED
  BY <1>1, <1>2, <1>3, AddKinds

LEMMA RequestFrame ==
  ASSUME NEW a \in Adders, NEW u, Basics, Request(a, u)
  PROVE  /\ UNCHANGED receiverVars /\ (UNCHANGED fileVars \/ sentByPage' = FALSE)
         /\ \A b \in Adders : b # a => at'[b] = at[b]
  BY TypeSplit DEF Basics, Request, RequestTypes, ForgetFile

\* A server that removes a torrent or learns about one leaves files and requests alone.
Removes ==
  \/ \E t \in Torrents : GetsInfo(t)
  \/ \E r \in workload.removers : RemoverDeletes(r) \/ \E x \in Hashes : RemoverDrops(r, x)

LEMMA RemovesFrame ==
  ASSUME Removes
  PROVE  UNCHANGED <<fileVars, receiverVars, at>>
  BY DEF Removes, GetsInfo, RemoverDeletes, RemoverDrops

LEMMA ServerBasics ==
  ASSUME Basics, Serves \/ Asks, UNCHANGED workload
  PROVE  Basics'
<1>0. workload.adders \subseteq Adders
  BY Constants, TypeSplit DEF Basics, OtherTypes
<1>1. ASSUME NEW a \in workload.adders, Add(a) PROVE Basics'
  BY <1>0, <1>1, AddKinds, EarlyBasics, AddedBasics, WaitBasics
<1>2. ASSUME NEW a \in workload.adders, NEW u \in URIs, Request(a, u) PROVE Basics'
  BY <1>2, RequestBasics
<1>3. CASE Removes
  BY <1>3, RemoveBasics DEF Removes
<1> QED
  BY <1>1, <1>2, <1>3 DEF Serves, Asks, Removes

\* One /add at a time: all of them are idle when the one of the scene is.
LEMMA AllIdle ==
  ASSUME Basics, Alone, NEW a \in workload.adders, at[a] = "idle"
  PROVE  \A b \in Adders : at[b] = "idle"
  BY SoleAdder DEF Sole

\* Without a scene no page sends a file, so nothing is left for another request; with it,
\* all requests are the widget's.
LEMMA ServerAlone ==
  ASSUME Basics, AloneOK, SceneOK, Serves \/ Asks, UNCHANGED <<sceneVars, workload>>
  PROVE  AloneOK'
<1> SUFFICES ASSUME Alone, UNCHANGED foreign PROVE Registry'
  BY DEF AloneOK, Alone, sceneVars, downloadVars, fileTaken
<1>0. Registry /\ workload.adders \subseteq Adders
  BY Constants, TypeSplit DEF AloneOK, Basics, OtherTypes
<1>1. ASSUME NEW a \in workload.adders, Add(a) PROVE Registry'
  BY <1>0, <1>1, AddKinds, EarlyAlone, AddedAlone, WaitAlone
<1>2. ASSUME NEW a \in workload.adders \ workload.scene, NEW u \in URIs, Request(a, u)
      PROVE  Registry'
  <2>1. workload.scene = {}
    BY <1>2, Constants, TypeSplit DEF Alone, Basics, OtherTypes
  <2>2. at[a] = "idle" /\ ~sentByPage /\ ~foreign
    BY <1>2, <2>1 DEF Request, SceneOK, ReceiverOK
  <2>3. \A b \in Adders : at[b] = "idle"
    BY <1>2, <2>2, AllIdle
  <2>4. receivedTorrent = None
    BY <1>0, <2>2, <2>3 DEF Registry, FileHasOwner
  <2> QED
    BY <1>0, <1>2, <2>2, <2>4, RequestAloneKeeps
<1>3. CASE Removes
  BY <1>0, <1>3, RemoveAlone DEF Removes
<1> QED
  BY <1>1, <1>2, <1>3 DEF Serves, Asks, Removes

\* What a step of the server leaves the scene.
LEMMA ServerFrame ==
  ASSUME Basics, SceneOK, Serves \/ Asks, workload' = workload
  PROVE  /\ UNCHANGED receiverVars /\ (sentByPage' => sentByPage)
         /\ \A b \in workload.scene : at[b] = "idle" => at'[b] = "idle"
         /\ \/ UNCHANGED fileVars
            \/ \E a \in workload.adders : at[a] # "idle" \/ a \notin workload.scene
<1>0. workload.adders \subseteq Adders /\ workload.scene \subseteq workload.adders
  BY Constants, TypeSplit DEF Basics, OtherTypes
<1>1. ASSUME NEW a \in workload.adders, Add(a)
      PROVE  /\ UNCHANGED receiverVars /\ (sentByPage' => sentByPage) /\ at[a] # "idle"
             /\ \A b \in workload.scene : at[b] = "idle" => at'[b] = "idle"
  BY <1>0, <1>1, AddFrame DEF fileVars
<1>2. ASSUME NEW a \in workload.adders \ workload.scene, NEW u \in URIs, Request(a, u)
      PROVE  /\ UNCHANGED receiverVars /\ (sentByPage' => sentByPage)
             /\ \A b \in workload.scene : at[b] = "idle" => at'[b] = "idle"
  BY <1>0, <1>2, RequestFrame DEF fileVars
<1>3. CASE Removes
  BY <1>3, RemovesFrame DEF fileVars
<1> QED
  BY <1>1, <1>2, <1>3 DEF Serves, Asks, Removes

LEMMA ServerScene ==
  ASSUME Basics, SceneOK, Serves \/ Asks, UNCHANGED <<sceneVars, workload>>
  PROVE  SceneOK'
<1> USE DEF SceneOK
<1>1. /\ UNCHANGED <<starts, stops, sleeping, due, overtaken, focus, haveMultiVideo, caller, openings>>
      /\ UNCHANGED <<receivingProgress, receiverWaiting, received, adding, outdated, deleting>>
      /\ UNCHANGED <<receiverEnabled, receiverResponse, workload>>
      /\ UNCHANGED <<named, listed, foreign, meddled>>
  BY ServerFrame DEF sceneVars, callVars, screenVars, flagVars, downloadVars, receiverVars, foundVars, fileTaken
<1>2. SceneTypeOK' /\ ScreenOK' /\ CallsOK'
  BY <1>1 DEF SceneTypeOK, ScreenOK, CallsOK
<1>3. ReceiverOK'
  BY <1>1, ServerFrame DEF ReceiverOK
<1>4. ServedOK'
  BY <1>1, ServerFrame DEF ServedOK
<1>5. ASSUME Alone PROVE FileOK'
  <2>1. CASE UNCHANGED fileVars
    BY <1>1, <1>5, <2>1 DEF FileOK, Kept, fileVars
  <2>2. CASE \E a \in workload.adders : at[a] # "idle" \/ a \notin workload.scene
    <3>1. PICK a \in workload.adders : at[a] # "idle" \/ a \notin workload.scene
      BY <2>2
    <3>2. CASE workload.scene = {}
      BY <1>1, <3>2 DEF ReceiverOK, FileOK
    <3>3. CASE workload.scene # {}
      <4>1. a \in workload.scene
        BY <1>5, <3>3, Constants, TypeSplit DEF Alone, Basics, OtherTypes
      <4>2. adding \in {"no", "handled"} /\ ~receivingProgress
        BY <3>1, <4>1 DEF ServedOK, ScreenOK
      <4> QED
        BY <1>1, <1>5, <4>2 DEF FileOK
    <3> QED
      BY <3>2, <3>3
  <2> QED
    BY <2>1, <2>2, ServerFrame
<1>6. ASSUME ~Alone PROVE FileOK'
  BY <1>1, <1>6 DEF FileOK, Alone
<1> QED
  BY <1>2, <1>3, <1>4, <1>5, <1>6
-------------------------------------------------------------------------------
(* Steps of the scene that leave the server alone. *)

LEMMA OneScene ==
  ASSUME Basics, NEW a \in workload.scene, NEW b \in workload.scene
  PROVE  a = b
  BY SceneAssumption, TypeSplit DEF Basics, OtherTypes

\* The scene listens again.
LEMMA ListensScene ==
  ASSUME Basics, SceneOK, NEW a \in workload.scene, NEW n \in Nat \ {0}, Listens(n),
         focus' = "ReceiverPage", adding' = "no", caller' \in {"ReceiverPage", "MultiVideo"},
         deleting' \in BOOLEAN, openings' \in Nat, at[a] = "idle",
         UNCHANGED <<received, outdated, foundVars, fileTaken, serverVars, workload>>
  PROVE  SceneOK'
<1> USE DEF SceneOK
<1>1. /\ receiverWaiting' = FALSE /\ haveMultiVideo' = FALSE /\ receivingProgress' = TRUE
      /\ starts' = starts + n /\ sleeping' = sleeping + n /\ UNCHANGED <<stops, due, overtaken>>
      /\ UNCHANGED <<at, receiverEnabled, receiverResponse, sentByPage, named, listed, foreign, meddled>>
  BY DEF Listens, serverVars, receiverVars, fileVars, foundVars, fileTaken
<1>2. starts' \in Nat \ {0} /\ stops \in Nat /\ sleeping' \in Nat \ {0} /\ due \in Nat
  BY <1>1 DEF SceneTypeOK
<1>3. SceneTypeOK'
  BY <1>1, <1>2 DEF SceneTypeOK
<1>6. sleeping' + due' > 0 /\ starts' + stops' > 0
  BY <1>1, <1>2
<1>7. ScreenOK' /\ CallsOK'
  BY <1>1, <1>6 DEF ScreenOK, CallsOK
<1>4. ReceiverOK' /\ ServedOK'
  BY <1>1, OneScene DEF ReceiverOK, ServedOK
<1>5. FileOK'
  BY <1>1, <1>2 DEF FileOK
<1> QED
  BY <1>3, <1>4, <1>5, <1>7

LEMMA OpeningScene ==
  ASSUME Basics, SceneOK, NEW a \in workload.scene, Opens \/ StepsBack \/ MultiVideoReturns,
         UNCHANGED workload
  PROVE  SceneOK'
<1> USE DEF SceneOK
<1>1. CASE Opens
  <2>1. /\ openings \in Nat /\ adding = "no" /\ openings' = openings + 1 /\ focus' = "ReceiverPage"
        /\ at[a] = "idle"
        /\ UNCHANGED <<serverVars, caller, received, adding, outdated, deleting, foundVars, fileTaken>>
    BY <1>1 DEF Opens, SceneTypeOK, ScreenOK, downloadVars
  <2>2. Listens(2)
    BY <1>1 DEF Opens
  <2> QED
    BY <2>1, <2>2, ListensScene DEF SceneTypeOK
<1>2. CASE StepsBack
  <2>1. PICK n \in {1, 2} : Listens(n)
    BY <1>2 DEF StepsBack
  <2>2. adding \in {"failed", "aborted"} /\ focus' = focus /\ adding' = "no"
        /\ UNCHANGED <<serverVars, caller, openings, received, outdated, deleting, foundVars, fileTaken>>
    BY <1>2 DEF StepsBack
  <2>3. focus = "ReceiverPage" /\ at[a] = "idle"
    BY <2>2 DEF SceneTypeOK, ScreenOK, ServedOK
  <2> QED
    BY <2>1, <2>2, <2>3, ListensScene DEF SceneTypeOK
<1>3. CASE MultiVideoReturns
  <2>1. Listens(1) /\ focus' = "ReceiverPage" /\ deleting' = TRUE
        /\ UNCHANGED <<serverVars, caller, openings, received, adding, outdated, foundVars, fileTaken>>
    BY <1>3 DEF MultiVideoReturns, downloadVars
  <2>2. adding = "no" /\ at[a] = "idle"
    BY <1>3 DEF MultiVideoReturns, ScreenOK, ServedOK
  <2> QED
    BY <2>1, <2>2, ListensScene DEF SceneTypeOK
<1> QED
  BY <1>1, <1>2, <1>3

LEMMA CheckScene ==
  ASSUME Basics, SceneOK, NEW a \in workload.scene, CheckReceives \/ CheckGoesOn \/ Leaves,
         UNCHANGED workload
  PROVE  SceneOK'
<1> USE DEF SceneOK
<1>0. UNCHANGED <<at, receiverEnabled, receiverResponse, receivedTorrent, sentByPage>>
      /\ UNCHANGED <<named, listed, foreign, meddled>>
  BY DEF CheckReceives, CheckGoesOn, Leaves, serverVars, receiverVars, fileVars, foundVars, fileTaken
<1>1. CASE CheckReceives
  <2>1. /\ due > 0 /\ receivingProgress /\ receiverResponse # None /\ due' = due - 1
        /\ receivingProgress' = FALSE /\ receiverWaiting' = TRUE /\ received' = receiverResponse
        /\ adding' = "announced" /\ outdated' = (outdated \/ starts > 0)
        /\ UNCHANGED <<starts, stops, sleeping, overtaken, focus, haveMultiVideo, caller, openings, deleting>>
    BY <1>1 DEF CheckReceives, screenVars
  <2>2. focus = "ReceiverPage" /\ adding = "no"
    BY <2>1 DEF ScreenOK, SceneTypeOK
  <2>3. SceneTypeOK'
    <3>1. received' \in URIs \cup {None} /\ due' \in Nat /\ outdated' \in BOOLEAN
      BY <2>1, TypeSplit DEF SceneTypeOK, Basics, ReceiverTypes
    <3> QED
      BY <1>0, <2>1, <3>1 DEF SceneTypeOK
  <2>4. ScreenOK' /\ CallsOK' /\ ServedOK' /\ ReceiverOK'
    BY <1>0, <2>1, <2>2 DEF ScreenOK, CallsOK, ServedOK, ReceiverOK
  <2>5. ASSUME Alone' PROVE Alone /\ starts = 0
    <3>1. /\ ~outdated' /\ ~meddled /\ \A x, y \in workload.adders : x = y
          /\ \A x, y \in workload.removers : x = y
      BY <1>0, <2>5 DEF Alone
    <3>2. ~outdated /\ ~(starts > 0)
      BY <2>1, <3>1
    <3>3. starts = 0
      BY <3>2 DEF SceneTypeOK
    <3> QED
      BY <3>1, <3>2, <3>3 DEF Alone
  <2>6. FileOK'
    BY <1>0, <2>1, <2>5 DEF FileOK, ReceiverOK, Kept
  <2> QED
    BY <2>3, <2>4, <2>6
<1>2. CASE CheckGoesOn \/ Leaves
  <2>1. /\ sleeping' \in Nat /\ due' \in Nat /\ stops' \in Nat
        /\ receivingProgress' => receivingProgress /\ sleeping' + due' > 0 /\ focus' = focus /\ stops' = stops
        /\ UNCHANGED <<starts, overtaken, haveMultiVideo, caller, openings, receiverWaiting, received, adding,
                       outdated, deleting>>
    <3>1. CASE CheckGoesOn
      BY <3>1 DEF CheckGoesOn, SceneTypeOK, ScreenOK, screenVars, flagVars, downloadVars
    <3>2. CASE Leaves
      BY <3>2 DEF Leaves, Hides, SceneTypeOK, downloadVars
    <3> QED
      BY <1>2, <3>1, <3>2
  <2>2. \/ UNCHANGED <<focus, receivingProgress>>
        \/ /\ focus' = "Main" /\ focus = "ReceiverPage" /\ ~receiverWaiting /\ receivingProgress' = FALSE
    BY <1>2 DEF CheckGoesOn, Leaves, Hides, screenVars, flagVars
  <2>3. SceneTypeOK' /\ ScreenOK'
    <3>0. /\ named' \in BOOLEAN /\ listed' \in BOOLEAN /\ foreign' \in BOOLEAN /\ meddled' \in BOOLEAN
          /\ receivingProgress' \in BOOLEAN
      BY <1>0, <2>2 DEF SceneTypeOK
    <3>1. SceneTypeOK'
      BY <2>1, <2>2, <3>0 DEF SceneTypeOK
    <3>2. ScreenOK'
      BY <2>1, <2>2 DEF SceneTypeOK, ScreenOK
    <3> QED
      BY <3>1, <3>2
  <2>4. CallsOK' /\ ServedOK' /\ ReceiverOK'
    BY <1>0, <2>1, <2>2 DEF CallsOK, ServedOK, ReceiverOK
  <2>5. FileOK'
    BY <1>0, <2>1, <2>2 DEF FileOK, Kept, Alone
  <2> QED
    BY <2>3, <2>4, <2>5
<1> QED
  BY <1>1, <1>2

\* From what was received to the player and back.
LEMMA WaitingScene ==
  ASSUME Basics, SceneOK, NEW a \in workload.scene,
         SendsAdd \/ AddAnswered(a) \/ AddTimesOut(a) \/ Chooses \/ Plays, UNCHANGED workload
  PROVE  SceneOK'
<1> USE DEF SceneOK
<1>0. UNCHANGED <<at, receiverEnabled, receiverResponse, receivedTorrent, sentByPage, starts, sleeping, due,
                  overtaken, openings, receivingProgress, receiverWaiting, received, outdated, foreign,
                  meddled>>
  BY DEF SendsAdd, AddAnswered, AddTimesOut, Chooses, Plays, serverVars, receiverVars, fileVars, callVars,
     screenVars, flagVars, fileTaken
<1>1. stops' \in {stops, 1}
  BY DEF SendsAdd, AddAnswered, AddTimesOut, Chooses, Plays, callVars
<1>2. \/ adding = "announced" /\ adding' \in {"sent", "stuck"} /\ UNCHANGED <<focus, haveMultiVideo, caller, deleting>>
      \/ /\ adding = "handled" /\ at[a] = "idle"
         /\ \/ adding' \in {"failed", "preparing", "stuck"} /\ focus' = focus
            \/ adding' = "no" /\ focus' = "MultiVideo"
         /\ haveMultiVideo' = haveMultiVideo
      \/ /\ adding \in {"sent", "handled"} /\ at[a] = "idle" /\ adding' = "aborted"
         /\ UNCHANGED <<focus, haveMultiVideo, caller>>
      \/ /\ focus = "MultiVideo" /\ adding = "no" /\ haveMultiVideo' = TRUE /\ adding' = "preparing"
         /\ focus' = focus
      \/ /\ adding = "preparing" /\ adding' = "no" /\ haveMultiVideo' = FALSE /\ focus' = "PlayerPage"
  BY DEF SendsAdd, AddAnswered, AddTimesOut, Chooses, Plays, screenVars
<1>3. ~receivingProgress
  BY <1>2 DEF ScreenOK, SceneTypeOK
<1>4. SceneTypeOK'
  <2>1. /\ caller' \in {"ReceiverPage", "MultiVideo"} /\ deleting' \in BOOLEAN
        /\ named' \in BOOLEAN /\ listed' \in BOOLEAN
    BY DEF SendsAdd, AddAnswered, AddTimesOut, Chooses, Plays, screenVars, foundVars, SceneTypeOK
  <2>2. /\ adding' \in {"no", "announced", "sent", "handled", "failed", "aborted", "preparing", "stuck"}
        /\ focus' \in {"Main", "ReceiverPage", "MultiVideo", "PlayerPage"}
        /\ haveMultiVideo' \in BOOLEAN
    BY <1>2 DEF SceneTypeOK
  <2> QED
    BY <1>0, <1>1, <2>1, <2>2 DEF SceneTypeOK
<1>5. ScreenOK'
  BY <1>0, <1>2, <1>3 DEF ScreenOK, SceneTypeOK
<1>6. CallsOK' /\ ReceiverOK'
  BY <1>0, <1>3 DEF CallsOK, ReceiverOK
<1>7. ServedOK'
  <2>1. at[a] = "idle"
    BY <1>2 DEF ServedOK, ScreenOK
  <2>2. \A b \in workload.scene : at[b] = "idle"
    BY <2>1, OneScene
  <2> QED
    BY <1>0, <2>2 DEF ServedOK
<1>8. FileOK'
  BY <1>0, <1>2, <1>3 DEF FileOK, Kept, Alone
<1> QED
  BY <1>4, <1>5, <1>6, <1>7, <1>8

LEMMA ReturnScene ==
  ASSUME Basics, SceneOK, NEW a \in workload.scene, PlayerReturns, UNCHANGED workload
  PROVE  SceneOK'
<1> USE DEF SceneOK
<1>1. /\ focus = "PlayerPage" /\ adding = "no" /\ focus' = caller /\ at[a] = "idle"
      /\ UNCHANGED <<serverVars, caller, openings, received, adding, outdated, foundVars, fileTaken>>
  BY DEF PlayerReturns, ScreenOK, ServedOK, downloadVars
<1>2. CASE caller = "ReceiverPage"
  <2>1. Listens(1) /\ deleting' = TRUE
    BY <1>2 DEF PlayerReturns
  <2> QED
    BY <1>1, <1>2, <2>1, ListensScene DEF SceneTypeOK
<1>3. CASE caller # "ReceiverPage"
  <2>1. UNCHANGED <<starts, stops, sleeping, due, overtaken, receivingProgress, receiverWaiting,
                    haveMultiVideo, deleting>>
    BY <1>3 DEF PlayerReturns, callVars, flagVars
  <2>2. /\ focus' = "MultiVideo" /\ UNCHANGED <<named, listed, foreign, meddled>>
        /\ UNCHANGED <<at, receiverEnabled, receiverResponse, receivedTorrent, sentByPage>>
    BY <1>1, <1>3 DEF SceneTypeOK, serverVars, receiverVars, fileVars, foundVars, fileTaken
  <2>3. SceneTypeOK' /\ ScreenOK'
    BY <1>1, <2>1, <2>2 DEF SceneTypeOK, ScreenOK
  <2>4. CallsOK' /\ ReceiverOK' /\ ServedOK'
    BY <1>1, <2>1, <2>2, OneScene DEF CallsOK, ReceiverOK, ServedOK
  <2>5. FileOK'
    BY <1>1, <2>1, <2>2 DEF FileOK, Kept, Alone
  <2> QED
    BY <2>3, <2>4, <2>5
<1> QED
  BY <1>2, <1>3
-------------------------------------------------------------------------------
(* Steps of the scene and the server. *)

LEMMA ReceiverStep ==
  ASSUME IInv, NEW a \in workload.scene, StartArrives \/ StopArrives \/ PageSends, UNCHANGED workload
  PROVE  IInv'
<1> USE DEF IInv, SceneOK
<1>0. Receives /\ UNCHANGED <<at, focus, haveMultiVideo, caller, openings, receivingProgress, receiverWaiting,
                              received, adding, outdated, deleting, named, listed, foreign>>
  <2>1. Receives
    <3>1. workload.hashes \subseteq Hashes
      BY Constants, TypeSplit DEF Basics, OtherTypes
    <3> QED
      BY <3>1 DEF StartArrives, StopArrives, PageSends, Receives
  <2> QED
    BY <2>1, ReceiverFrame DEF StartArrives, StopArrives, PageSends, screenVars, flagVars, downloadVars,
       foundVars, fileTaken
<1>1. Basics'
  BY <1>0, ReceiverBasics
<1>2. meddled' \in BOOLEAN /\ (~meddled' => ~meddled)
  BY DEF StartArrives, StopArrives, PageSends, fileTaken, SceneTypeOK
<1>3. ASSUME ~meddled'
      PROVE  UNCHANGED fileVars \/ receivedTorrent' = None \/ \A b \in Adders : at[b] = "idle"
  <2>1. CASE StartArrives
    BY <2>1 DEF StartArrives, StartReceiver, ForgetFile
  <2>2. CASE StopArrives
    BY <2>2 DEF StopArrives, StopReceiver
  <2>3. CASE PageSends
    BY <1>3, <2>3 DEF PageSends, SetReceivedMagnet, SetReceivedTorrent
  <2> QED
    BY <2>1, <2>2, <2>3
<1>4. AloneOK'
  <2>1. Alone' => Alone /\ ~meddled'
    BY <1>0, <1>2 DEF Alone
  <2> QED
    BY <1>0, <1>3, <2>1, ReceiverAlone DEF AloneOK
<1>5. CASE StartArrives
  <2>1. /\ starts > 0 /\ starts' = starts - 1 /\ overtaken' = FALSE /\ stops' = stops
        /\ receiverEnabled' = TRUE /\ receiverResponse' = None
    BY <1>5 DEF StartArrives, StartReceiver
  <2>2. sleeping' \in Nat /\ due' \in Nat /\ starts' \in Nat /\ sleeping' + due' = sleeping + due
    <3>1. CASE starts = 1
      BY <1>5, <3>1 DEF StartArrives, SceneTypeOK
    <3>2. CASE starts # 1
      BY <1>5, <3>2 DEF StartArrives, SceneTypeOK
    <3> QED
      BY <3>1, <3>2
  <2>3. SceneTypeOK' /\ ScreenOK' /\ CallsOK' /\ ReceiverOK' /\ ServedOK'
    <3>0. /\ named' \in BOOLEAN /\ listed' \in BOOLEAN /\ foreign' \in BOOLEAN /\ meddled' \in BOOLEAN
      BY <1>0, <1>2 DEF SceneTypeOK
    <3>1. SceneTypeOK'
      BY <1>0, <2>1, <2>2, <3>0 DEF SceneTypeOK
    <3>2. ScreenOK' /\ ServedOK'
      BY <1>0, <2>1, <2>2 DEF ScreenOK, ServedOK
    <3>3. CallsOK' /\ ReceiverOK'
      BY <1>0, <2>1 DEF CallsOK, ReceiverOK
    <3> QED
      BY <3>1, <3>2, <3>3
  <2>4. FileOK'
    <3> SUFFICES ASSUME Alone' PROVE FileOK'
      BY DEF FileOK
    <3>1. starts # 0 /\ Alone
      BY <1>0, <1>2, <2>1 DEF SceneTypeOK, Alone
    <3>2. adding' \notin {"announced", "sent", "handled"}
      BY <1>0, <3>1 DEF FileOK
    <3> QED
      BY <2>1, <3>2 DEF FileOK
  <2> QED
    BY <1>1, <1>4, <2>3, <2>4
<1>6. CASE StopArrives
  <2>1. /\ stops > 0 /\ stops' = stops - 1 /\ overtaken' = receivingProgress
        /\ UNCHANGED <<starts, sleeping, due, receiverResponse, receivedTorrent, sentByPage>>
        /\ receiverEnabled' = FALSE
    BY <1>6 DEF StopArrives, StopReceiver, fileVars
  <2>2. SceneTypeOK'
    BY <1>0, <1>2, <2>1 DEF SceneTypeOK
  <2>3. ScreenOK' /\ CallsOK' /\ ReceiverOK' /\ ServedOK'
    BY <1>0, <2>1 DEF ScreenOK, CallsOK, ReceiverOK, ServedOK
  <2>4. FileOK'
    BY <1>0, <1>2, <2>1 DEF FileOK, Kept, Alone
  <2> QED
    BY <1>1, <1>4, <2>2, <2>3, <2>4
<1>7. CASE PageSends
  <2>1. PICK x \in Hashes : SetReceivedMagnet(x) \/ SetReceivedTorrent(x)
    BY <1>7, Constants, TypeSplit DEF PageSends, Basics, OtherTypes
  <2>2. /\ UNCHANGED <<starts, stops, sleeping, due, overtaken>> /\ receiverEnabled
        /\ receiverEnabled' = FALSE /\ receiverResponse' # None
    <3>1. receiverResponse' \in URIs
      BY <2>1 DEF SetReceivedMagnet, SetReceivedTorrent, URIs
    <3> QED
      BY <1>7, <2>1, <3>1, Constants DEF PageSends, callVars, SetReceivedMagnet, SetReceivedTorrent
  <2>3. SceneTypeOK' /\ ScreenOK' /\ CallsOK' /\ ReceiverOK' /\ ServedOK'
    BY <1>0, <1>2, <2>2 DEF SceneTypeOK, ScreenOK, CallsOK, ReceiverOK, ServedOK
  <2>4. FileOK'
    <3> SUFFICES ASSUME Alone' PROVE FileOK'
      BY DEF FileOK
    <3>1. Alone
      BY <1>0, <1>2 DEF Alone
    <3>2. adding' \notin {"announced", "sent", "handled"}
      BY <1>0, <2>2, <3>1 DEF FileOK
    <3>3. Kept(receiverResponse)'
      BY <2>1 DEF Kept, SetReceivedMagnet, SetReceivedTorrent
    <3> QED
      BY <3>2, <3>3 DEF FileOK
  <2> QED
    BY <1>1, <1>4, <2>3, <2>4
<1> QED
  BY <1>5, <1>6, <1>7

LEMMA AddArrivesStep ==
  ASSUME IInv, NEW a \in workload.scene, AddArrives(a), UNCHANGED workload
  PROVE  IInv'
<1> USE DEF IInv, SceneOK
<1>0. a \in workload.adders /\ a \in Adders
  BY Constants, TypeSplit DEF Basics, OtherTypes
<1>1. /\ adding = "sent" /\ adding' = "handled" /\ Request(a, received)
      /\ UNCHANGED <<starts, stops, sleeping, due, overtaken, focus, haveMultiVideo, caller, openings>>
      /\ UNCHANGED <<receivingProgress, receiverWaiting, received, outdated, deleting, named, listed>>
      /\ foreign' = FALSE /\ meddled' = meddled
  BY DEF AddArrives, callVars, screenVars, flagVars, foundVars
<1>2. received \in URIs
  BY <1>1 DEF SceneTypeOK, ScreenOK
<1>3. Basics'
  BY <1>0, <1>1, <1>2, RequestBasics
<1>4. UNCHANGED <<receiverEnabled, receiverResponse>> /\ ~receivingProgress
  BY <1>0, <1>1, RequestFrame DEF receiverVars, ScreenOK
<1>5. AloneOK'
  <2> SUFFICES ASSUME Alone PROVE Registry'
    BY <1>1 DEF AloneOK, Alone
  <2>1. Registry /\ Kept(received)
    BY <1>1 DEF AloneOK, FileOK
  <2> QED
    BY <1>0, <1>1, <1>2, <2>1, RequestAloneKeeps DEF Kept
<1>6. SceneTypeOK' /\ ScreenOK' /\ CallsOK' /\ ReceiverOK' /\ ServedOK'
  <2>1. workload.scene # {}
    OBVIOUS
  <2> QED
    BY <1>1, <1>4, <2>1 DEF SceneTypeOK, ScreenOK, CallsOK, ReceiverOK, ServedOK
<1>7. FileOK'
  BY <1>1, <1>4 DEF FileOK, Alone
<1> QED
  BY <1>3, <1>5, <1>6, <1>7

LEMMA WidgetAddsStep ==
  ASSUME IInv, NEW a \in workload.scene, WidgetAdds(a), UNCHANGED workload
  PROVE  IInv'
<1> USE DEF IInv, SceneOK
<1>0. a \in workload.adders /\ a \in Adders
  BY Constants, TypeSplit DEF Basics, OtherTypes
<1>1. PICK u \in URIs : Request(a, u) /\ foreign' = (u.kind # "magnet" /\ receivedTorrent # None)
  BY DEF WidgetAdds
<1>2. /\ focus = "Main"
      /\ UNCHANGED <<starts, stops, sleeping, due, overtaken, focus, haveMultiVideo, caller, openings>>
      /\ UNCHANGED <<receivingProgress, receiverWaiting, received, adding, outdated, deleting, named,
                     listed, meddled>>
  BY DEF WidgetAdds, callVars, screenVars, foundVars, flagVars, downloadVars
<1>3. Basics'
  BY <1>0, <1>1, RequestBasics
<1>4. UNCHANGED <<receiverEnabled, receiverResponse>> /\ ~receivingProgress /\ adding = "no"
  BY <1>0, <1>1, <1>2, RequestFrame DEF receiverVars, ScreenOK
<1>5. AloneOK'
  <2> SUFFICES ASSUME Alone PROVE Registry'
    BY <1>2 DEF AloneOK, Alone
  <2>1. /\ u.kind # "magnet" /\ ~foreign' => receivedTorrent \in {None, u.hash}
        /\ foreign' => u.kind # "magnet" /\ receivedTorrent # None
    BY <1>1
  <2> QED
    BY <1>0, <1>1, <2>1, RequestAloneKeeps DEF AloneOK
<1>6. SceneTypeOK' /\ ScreenOK' /\ CallsOK' /\ ReceiverOK' /\ ServedOK'
  <2>1. workload.scene # {} /\ foreign' \in BOOLEAN
    BY <1>1
  <2> QED
    BY <1>2, <1>4, <2>1 DEF SceneTypeOK, ScreenOK, CallsOK, ReceiverOK, ServedOK
<1>7. FileOK'
  BY <1>2, <1>4 DEF FileOK, Alone
<1> QED
  BY <1>3, <1>5, <1>6, <1>7

LEMMA DeleteStep ==
  ASSUME IInv, NEW r \in workload.removers, DeleteAll(r), UNCHANGED workload
  PROVE  IInv'
<1> USE DEF IInv, SceneOK
<1>1. /\ UNCHANGED <<starts, stops, sleeping, due, overtaken, focus, haveMultiVideo, caller, openings>>
      /\ UNCHANGED <<receivingProgress, receiverWaiting, received, adding, outdated>>
      /\ UNCHANGED <<named, listed, foreign, meddled>>
      /\ deleting' \in BOOLEAN
  BY DEF DeleteAll, callVars, screenVars, flagVars, downloadVars, foundVars, fileTaken, SceneTypeOK
<1>2. \/ \E x \in Hashes : RemoverDrops(r, x)
      \/ UNCHANGED serverVars
  BY DEF DeleteAll
<1>3. UNCHANGED <<receiverEnabled, receiverResponse, receivedTorrent, sentByPage, at>>
  BY <1>2 DEF RemoverDrops, serverVars, receiverVars, fileVars
<1>4. Basics' /\ AloneOK'
  <2>1. Alone' => Alone
    BY <1>1 DEF Alone
  <2>2. CASE \E x \in Hashes : RemoverDrops(r, x)
    BY <1>1, <2>1, <2>2, RemoveBasics, RemoveAlone DEF AloneOK
  <2>3. CASE UNCHANGED serverVars
    BY <1>1, <2>1, <2>3, ServerKept DEF AloneOK
  <2> QED
    BY <1>2, <2>2, <2>3
<1>5. SceneTypeOK' /\ ScreenOK' /\ CallsOK' /\ ReceiverOK' /\ ServedOK'
  BY <1>1, <1>3 DEF SceneTypeOK, ScreenOK, CallsOK, ReceiverOK, ServedOK
<1>6. FileOK'
  BY <1>1, <1>3 DEF FileOK, Kept, Alone
<1> QED
  BY <1>4, <1>5, <1>6

-------------------------------------------------------------------------------
(* Invariance. *)

LEMMA InitInv == SceneInit => IInv
<1> SUFFICES ASSUME SceneInit PROVE IInv
  OBVIOUS
<1> USE DEF SceneInit, Init
<1>1. TypeOK
  <2>1. LibraryTypes
    BY RegistryAssumption DEF LibraryTypes
  <2>2. SharedTypes /\ ReceiverTypes
    BY DEF SharedTypes, ReceiverTypes
  <2>3. RequestTypes
    BY DEF RequestTypes
  <2>4. OtherTypes
    BY DEF OtherTypes
  <2> QED
    BY <2>1, <2>2, <2>3, <2>4 DEF TypeOK, LibraryTypes, SharedTypes, ReceiverTypes, RequestTypes, OtherTypes
<1>2. CountOK
  <2>1. InFlight = {}
    BY DEF InFlight
  <2>2. IsFiniteSet(InFlight) /\ Cardinality(InFlight) = 0
    BY <2>1, FS_EmptySet
  <2>3. Made(0) /\ 0 \in 0 .. MaxAdds
    BY RegistryAssumption DEF Made, Torrents
  <2> QED
    BY <2>2, <2>3 DEF CountOK
<1>3. LibraryOK /\ RequestsOK
  BY DEF LibraryOK, RequestsOK, RequestOK
<1>4. AloneOK
  <2>1. \A t \in Torrents : hashOf[t] = None
    OBVIOUS
  <2> QED
    BY <2>1 DEF AloneOK, Registry, RequestFits, RequestAlone, RemoverAlone, FileHasOwner, Live, Owned
<1>5. SceneOK
  <2>1. SceneTypeOK
    BY DEF SceneTypeOK
  <2>2. ScreenOK /\ CallsOK /\ ReceiverOK /\ FileOK
    BY DEF ScreenOK, CallsOK, ReceiverOK, FileOK
  <2>3. ServedOK
    BY Constants DEF ServedOK
  <2> QED
    BY <2>1, <2>2, <2>3 DEF SceneOK
<1> QED
  BY <1>1, <1>2, <1>3, <1>4, <1>5 DEF IInv, Basics

LEMMA StepInv == IInv /\ [Next]_systemVars => IInv'
<1> SUFFICES ASSUME IInv, [Next]_systemVars PROVE IInv'
  OBVIOUS
<1>1. CASE UNCHANGED systemVars
  <2>1. UNCHANGED <<serverVars, sceneVars, workload>>
    BY <1>1 DEF systemVars, movingVars
  <2>2. Basics' /\ (Registry /\ UNCHANGED foreign => Registry')
    BY <2>1, ServerKept DEF IInv
  <2>3. /\ UNCHANGED <<starts, stops, sleeping, due, overtaken, focus, haveMultiVideo, caller, openings>>
        /\ UNCHANGED <<receivingProgress, receiverWaiting, received, adding, outdated, deleting>>
        /\ UNCHANGED <<receiverEnabled, receiverResponse, receivedTorrent, sentByPage, at, workload>>
        /\ UNCHANGED <<named, listed, foreign, meddled>>
    BY <2>1 DEF serverVars, receiverVars, fileVars, sceneVars, callVars, screenVars, flagVars, downloadVars,
       foundVars, fileTaken
  <2>4. AloneOK'
    BY <2>2, <2>3 DEF IInv, AloneOK, Alone
  <2>5. SceneTypeOK' /\ ScreenOK' /\ CallsOK' /\ ReceiverOK' /\ ServedOK'
    BY <2>3 DEF IInv, SceneOK, SceneTypeOK, ScreenOK, CallsOK, ReceiverOK, ServedOK
  <2>6. FileOK'
    BY <2>3 DEF IInv, SceneOK, FileOK, Kept, Alone
  <2> QED
    BY <2>2, <2>4, <2>5, <2>6 DEF IInv, SceneOK
<1>2. CASE (Serves \/ Asks) /\ UNCHANGED sceneVars /\ UNCHANGED workload
  BY <1>2, ServerBasics, ServerAlone, ServerScene DEF IInv
<1>3. ASSUME NEW a \in workload.scene, Scene(a), UNCHANGED workload PROVE IInv'
  <2>1. CASE StartArrives \/ StopArrives \/ PageSends
    BY <1>3, <2>1, ReceiverStep
  <2>2. CASE AddArrives(a) \/ WidgetAdds(a)
    BY <1>3, <2>2, AddArrivesStep, WidgetAddsStep
  <2>3. CASE \E r \in workload.removers : DeleteAll(r)
    BY <1>3, <2>3, DeleteStep
  <2>4. CASE \/ Opens \/ StepsBack \/ MultiVideoReturns \/ CheckReceives \/ CheckGoesOn \/ Leaves
             \/ SendsAdd \/ AddAnswered(a) \/ AddTimesOut(a) \/ Chooses \/ Plays \/ PlayerReturns
    <3>1. SceneOK'
      BY <1>3, <2>4, OpeningScene, CheckScene, WaitingScene, ReturnScene DEF IInv
    <3>2. UNCHANGED serverVars
      BY <2>4 DEF Opens, StepsBack, MultiVideoReturns, CheckReceives, CheckGoesOn, Leaves, SendsAdd,
         AddAnswered, AddTimesOut, Chooses, Plays, PlayerReturns
    <3>3. UNCHANGED <<foreign, meddled>>
      BY <2>4 DEF Opens, StepsBack, MultiVideoReturns, CheckReceives, CheckGoesOn, Leaves, SendsAdd,
         AddAnswered, AddTimesOut, Chooses, Plays, PlayerReturns, fileTaken
    <3>4. Alone' => Alone
      <4>1. CASE ~CheckReceives
        BY <1>3, <2>4, <3>3, <4>1 DEF Opens, StepsBack, MultiVideoReturns, CheckGoesOn, Leaves, SendsAdd, AddAnswered,
           AddTimesOut, Chooses, Plays, PlayerReturns, downloadVars, Alone
      <4>2. CASE CheckReceives
        <5>1. outdated' = (outdated \/ starts > 0)
          BY <4>2 DEF CheckReceives
        <5> QED
          BY <1>3, <3>3, <5>1 DEF Alone
      <4> QED
        BY <4>1, <4>2
    <3> QED
      BY <1>3, <3>1, <3>2, <3>4, <3>3, ServerKept DEF IInv, AloneOK
  <2> QED
    BY <1>3, <2>1, <2>2, <2>3, <2>4 DEF Scene
<1> QED
  BY <1>1, <1>2, <1>3 DEF Next

\* The inductive invariant of the registry, the receiver and the scene, for any number of
\* torrents, requests and openings.
THEOREM Invariance == Spec => []IInv
<1> QED
  BY InitInv, StepInv, PTL DEF Spec

\* With one /add and one delete at a time a registered torrent is open, but between the Drop
\* and the delete of RemoveTorrent.
THEOREM RegisteredIsOpen == Spec => []ActiveIsLive
<1>1. IInv => ActiveIsLive
  BY DEF IInv, AloneOK, Registry, Live, ActiveIsLive
<1> QED
  BY <1>1, Invariance, PTL

\* With one /add and one delete at a time no torrent downloads out of reach of /delete: an
\* open one is registered, or a request waits for it.
THEOREM OpenIsOwned == Spec => []NoOrphanTorrent
<1>1. IInv => NoOrphanTorrent
  BY DEF IInv, AloneOK, Registry, Owned, NoOrphanTorrent
<1> QED
  BY <1>1, Invariance, PTL

\* With one /add at a time, what addTorrentFromUri returns is the torrent of the URI it was
\* given, although it takes any file the server has; unless that is a file which a page has
\* sent and nobody has added, the only one that is kept while no request is under way.
THEOREM PlaysWhatWasSent == Spec => []AnswersRequest
<1>1. IInv => AnswersRequest
  BY DEF IInv, AloneOK, Registry, RequestFits, FileHasOwner, AnswersRequest
<1> QED
  BY <1>1, Invariance, PTL

\* The screen that says it can receive asks for what was sent, and unless a stop was handled
\* after a start that was sent later, the receiver is on or has something.
THEOREM OpenSceneListens == Spec => []ListensWhileOpen
<1>1. IInv => ListensWhileOpen
  BY DEF IInv, SceneOK, ScreenOK, CallsOK, ListensWhileOpen
<1> QED
  BY <1>1, Invariance, PTL

===============================================================================
