--------------------------- MODULE TorrentRegistry ---------------------------
(***************************************************************************)
(* The torrents a server knows: addTorrentFromUri and RemoveTorrent        *)
(* (torrentclient/helpers.go, torrentclient.go), called by the handlers of *)
(* /add, /delete and /deleteall, and the receiver (receiver.go) that takes *)
(* a torrent file from another device.  The handlers run concurrently and  *)
(* share the package variables ActiveTorrents and receivedTorrent without  *)
(* a lock; every access to one of them is a step.  ReceiverScene adds the  *)
(* widget that makes these requests and gives the receiver its calls.      *)
(*                                                                         *)
(* The BitTorrent library is external: it finds a torrent it has by its    *)
(* hash, makes a new one otherwise, learns the metadata of a magnet link   *)
(* from peers at some time or never, and closes a torrent for good when it *)
(* is dropped.  A concurrent access the Go runtime detects ends the        *)
(* process, which no property below excludes.                              *)
(***************************************************************************)
EXTENDS Naturals, FiniteSets

CONSTANTS
  Hashes,      \* info hashes
  Oversized,   \* hashes of torrents whose pieces exceed maxPieceLength
  Adders,      \* concurrent /add requests
  Removers,    \* concurrent /delete and /deleteall requests
  MaxAdds,     \* bound: requests to /add
  Workloads,   \* bound: who takes part in a behaviour, with how many requests, for what
  None

Torrents == 1 .. MaxAdds   \* torrents the library makes, one per /add at most
\* What /add is given: a magnet link, the URL of a torrent file, or the display
\* name of a file that was received.
URIs == [kind : {"magnet", "url", "name"}, hash : Hashes]

ASSUME RegistryAssumption ==
  /\ Oversized \subseteq Hashes
  /\ MaxAdds \in Nat
  /\ Workloads \subseteq [adders : SUBSET Adders, removers : SUBSET Removers,
                          scene : SUBSET Adders, hashes : SUBSET Hashes,
                          adds : 0 .. MaxAdds, openings : Nat, late : BOOLEAN]
  /\ None \notin Hashes \cup Torrents \cup URIs

VARIABLES
  adds,             \* how many requests to /add there have been
  hashOf,           \* library: the hash of each torrent it made
  found,            \* library: the torrent it finds for a hash
  info,             \* library: torrents whose metadata is known
  dropped,          \* library: torrents that are closed
  ActiveTorrents,   \* the torrent registered for a hash
  receivedTorrent,  \* the metainfo file kept for the next add, or None
  receiverEnabled,
  receiverResponse, \* what a page has sent, or None
  sentByPage        \* auxiliary: receivedTorrent is a file the receiver took
VARIABLES
  at,       \* where each /add request is
  uri,      \* ... its URI
  spec,     \* ... the hash addTorrentFromUri works on
  torrent,  \* ... the torrent it waits for
  known,    \* ... whether its metadata was known when the wait began
  answer,   \* ... the hash of the torrent it returned
  removing  \* the torrent each remover has dropped and not yet unregistered
VARIABLES
  workload  \* bound: a member of Workloads

libraryVars == <<hashOf, found, info, dropped>>
fileVars == <<receivedTorrent, sentByPage>>
receiverVars == <<receiverEnabled, receiverResponse>>
requestVars == <<uri, spec, torrent, known, answer>>
serverVars == <<adds, libraryVars, ActiveTorrents, fileVars, receiverVars, at, requestVars,
                removing>>
vars == <<serverVars, workload>>

Init ==
  /\ adds = 0
  /\ hashOf = [t \in Torrents |-> None]
  /\ found = [x \in Hashes |-> None]
  /\ info = {}
  /\ dropped = {}
  /\ ActiveTorrents = [x \in Hashes |-> None]
  /\ receivedTorrent = None
  /\ receiverEnabled = FALSE
  /\ receiverResponse = None
  /\ sentByPage = FALSE
  /\ at = [a \in Adders |-> "idle"]
  /\ uri = [a \in Adders |-> None]
  /\ spec = [a \in Adders |-> None]
  /\ torrent = [a \in Adders |-> None]
  /\ known = [a \in Adders |-> FALSE]
  /\ answer = [a \in Adders |-> None]
  /\ removing = [r \in Removers |-> None]
  /\ workload \in Workloads

ForgetFile == receivedTorrent' = None /\ sentByPage' = FALSE

\* Torrent.Drop: the torrent is closed, and its hash is no longer found.
Drop(t) ==
  /\ dropped' = dropped \cup {t}
  /\ found' = [found EXCEPT ![hashOf[t]] = None]

\* addTorrentFromUri returns the torrent of hash x, or nothing.
Return(a, x) ==
  /\ at' = [at EXCEPT ![a] = "idle"]
  /\ answer' = [answer EXCEPT ![a] = x]
  /\ torrent' = [torrent EXCEPT ![a] = None]
  /\ known' = [known EXCEPT ![a] = FALSE]

-------------------------------------------------------------------------------
(* addTorrentFromUri. *)

\* A magnet link is parsed; for anything else a file that was received before
\* is taken, and something downloaded only when there is none.
Request(a, u) ==
  /\ at[a] = "idle"
  /\ adds < workload.adds
  /\ u.hash \in workload.hashes
  /\ adds' = adds + 1
  /\ uri' = [uri EXCEPT ![a] = u]
  /\ answer' = [answer EXCEPT ![a] = None]
  /\ \/ /\ u.kind = "magnet"
        /\ ForgetFile
        /\ spec' = [spec EXCEPT ![a] = u.hash]
        /\ at' = [at EXCEPT ![a] = "look up"]
     \/ /\ u.kind # "magnet" /\ receivedTorrent # None
        /\ spec' = [spec EXCEPT ![a] = receivedTorrent]
        /\ at' = [at EXCEPT ![a] = "look up"]
        /\ UNCHANGED fileVars
     \/ /\ u.kind # "magnet" /\ receivedTorrent = None
        /\ at' = [at EXCEPT ![a] = "fetch"]
        /\ UNCHANGED <<spec, fileVars>>
  /\ UNCHANGED <<libraryVars, ActiveTorrents, receiverVars, torrent, known, removing>>

\* The URL gives a torrent file.
FetchesFile(a) ==
  /\ at[a] = "fetch" /\ uri[a].kind = "url"
  /\ receivedTorrent' = uri[a].hash
  /\ sentByPage' = FALSE
  /\ spec' = [spec EXCEPT ![a] = uri[a].hash]
  /\ at' = [at EXCEPT ![a] = "look up"]
  /\ UNCHANGED <<adds, libraryVars, ActiveTorrents, receiverVars, uri, torrent, known, answer,
                 removing>>

\* The URL redirects to a magnet link.
FetchesMagnet(a) ==
  /\ at[a] = "fetch" /\ uri[a].kind = "url"
  /\ ForgetFile
  /\ uri' = [uri EXCEPT ![a].kind = "magnet"]
  /\ spec' = [spec EXCEPT ![a] = uri[a].hash]
  /\ at' = [at EXCEPT ![a] = "look up"]
  /\ UNCHANGED <<adds, libraryVars, ActiveTorrents, receiverVars, torrent, known, answer, removing>>

\* It cannot be fetched, as a name never can; or gives something else, which
\* forgets the file.  The client has no timeout: a download may also never end.
FetchFails(a) ==
  /\ at[a] = "fetch"
  /\ ForgetFile \/ UNCHANGED fileVars
  /\ Return(a, None)
  /\ UNCHANGED <<adds, libraryVars, ActiveTorrents, receiverVars, uri, spec, removing>>

\* The torrent is registered already.
FindsActive(a) ==
  /\ at[a] = "look up"
  /\ ActiveTorrents[spec[a]] # None
  /\ ForgetFile
  /\ Return(a, spec[a])
  /\ UNCHANGED <<adds, libraryVars, ActiveTorrents, receiverVars, uri, spec, removing>>

FindsNone(a) ==
  /\ at[a] = "look up"
  /\ ActiveTorrents[spec[a]] = None
  /\ at' = [at EXCEPT ![a] = "add"]
  /\ UNCHANGED <<adds, libraryVars, ActiveTorrents, fileVars, receiverVars, requestVars, removing>>

\* The torrent of hash x, found or new, from a file or not.
AddToClient(a, x, file) ==
  LET t == IF found[x] = None THEN CHOOSE n \in Torrents : hashOf[n] = None
                                   /\ \A m \in Torrents : m < n => hashOf[m] # None
           ELSE found[x]
  IN  /\ hashOf' = [hashOf EXCEPT ![t] = x]
      /\ found' = [found EXCEPT ![x] = t]
      /\ info' = IF file THEN info \cup {t} ELSE info
      /\ torrent' = [torrent EXCEPT ![a] = t]
      /\ known' = [known EXCEPT ![a] = t \in info']
      /\ at' = [at EXCEPT ![a] = "wait"]
      /\ UNCHANGED dropped

\* AddTorrent with the file in receivedTorrent, whoever put it there ...
AddsFile(a) ==
  /\ at[a] = "add"
  /\ receivedTorrent # None
  /\ AddToClient(a, receivedTorrent, TRUE)
  /\ UNCHANGED <<adds, ActiveTorrents, fileVars, receiverVars, uri, spec, answer, removing>>

\* ... or AddMagnet.
AddsMagnet(a) ==
  /\ at[a] = "add"
  /\ receivedTorrent = None
  /\ uri[a].kind = "magnet"
  /\ AddToClient(a, uri[a].hash, FALSE)
  /\ UNCHANGED <<adds, ActiveTorrents, fileVars, receiverVars, uri, spec, answer, removing>>

\* Somebody took the file away: AddMagnet fails and the handler
\* panics, which ends the request.
AddPanics(a) ==
  /\ at[a] = "add"
  /\ receivedTorrent = None
  /\ uri[a].kind # "magnet"
  /\ Return(a, None)
  /\ UNCHANGED <<adds, libraryVars, ActiveTorrents, fileVars, receiverVars, uri, spec, removing>>

\* Mutant: the file stays for the next request.
Registers_KeepsFile(a) ==
  LET t == torrent[a]
  IN  /\ at[a] = "wait"
      /\ t \in info
      /\ hashOf[t] \notin Oversized
      /\ ActiveTorrents' = [ActiveTorrents EXCEPT ![hashOf[t]] = t]
      /\ Return(a, hashOf[t])
      /\ UNCHANGED <<adds, libraryVars, fileVars, receiverVars, uri, spec, removing>>

\* <-t.GotInfo(), and the pieces are short enough: a new leaf is registered.
Registers(a) ==
  LET t == torrent[a]
  IN  /\ at[a] = "wait"
      /\ t \in info
      /\ hashOf[t] \notin Oversized
      /\ ActiveTorrents' = [ActiveTorrents EXCEPT ![hashOf[t]] = t]
      /\ ForgetFile
      /\ Return(a, hashOf[t])
      /\ UNCHANGED <<adds, libraryVars, receiverVars, uri, spec, removing>>

Rejects(a) ==
  /\ at[a] = "wait"
  /\ torrent[a] \in info
  /\ hashOf[torrent[a]] \in Oversized
  /\ Drop(torrent[a])
  /\ ForgetFile
  /\ Return(a, None)
  /\ UNCHANGED <<adds, hashOf, info, ActiveTorrents, receiverVars, uri, spec, removing>>

\* Mutant: the torrent is not dropped when its metadata has not arrived.
TimesOut_NoDrop(a) ==
  /\ at[a] = "wait"
  /\ ~known[a]
  /\ ForgetFile
  /\ Return(a, None)
  /\ UNCHANGED <<adds, libraryVars, ActiveTorrents, receiverVars, uri, spec, removing>>

\* Mutant: the wait ends with the metadata only.
TimesOut_Never(a) == FALSE /\ at[a] = "wait" /\ UNCHANGED vars

\* <-time.After(resolveTimeout): 35 s after the wait began, so never when the
\* metadata was known from the start; select may choose it over metadata that
\* has arrived as well.
TimesOut(a) ==
  /\ at[a] = "wait"
  /\ ~known[a]
  /\ Drop(torrent[a])
  /\ ForgetFile
  /\ Return(a, None)
  /\ UNCHANGED <<adds, hashOf, info, ActiveTorrents, receiverVars, uri, spec, removing>>

\* Peers send the metadata of an open torrent.
GetsInfo(t) ==
  /\ hashOf[t] # None
  /\ t \notin dropped \cup info
  /\ info' = info \cup {t}
  /\ UNCHANGED <<adds, hashOf, found, dropped, ActiveTorrents, fileVars, receiverVars, at,
                 requestVars, removing>>

-------------------------------------------------------------------------------
(* RemoveTorrent, called by /delete and, for one torrent after the other, by *)
(* /deleteall.                                                               *)

RemoverDrops(r, x) ==
  /\ removing[r] = None
  /\ ActiveTorrents[x] # None
  /\ Drop(ActiveTorrents[x])
  /\ removing' = [removing EXCEPT ![r] = x]
  /\ UNCHANGED <<adds, hashOf, info, ActiveTorrents, fileVars, receiverVars, at, requestVars>>

\* Mutant: the map keeps the torrent.
RemoverDeletes_Keeps(r) ==
  /\ removing[r] # None
  /\ removing' = [removing EXCEPT ![r] = None]
  /\ UNCHANGED <<adds, libraryVars, ActiveTorrents, fileVars, receiverVars, at, requestVars>>

RemoverDeletes(r) ==
  /\ removing[r] # None
  /\ ActiveTorrents' = [ActiveTorrents EXCEPT ![removing[r]] = None]
  /\ removing' = [removing EXCEPT ![r] = None]
  /\ UNCHANGED <<adds, libraryVars, fileVars, receiverVars, at, requestVars>>

-------------------------------------------------------------------------------
(* receiver.go: the widget starts, checks and stops the receiver, a page on   *)
(* another device sends a magnet link or a file.                              *)

StartReceiver ==
  /\ receiverEnabled' = TRUE
  /\ receiverResponse' = None
  /\ ForgetFile
  /\ UNCHANGED <<adds, libraryVars, ActiveTorrents, at, requestVars, removing>>

StopReceiver ==
  /\ receiverEnabled' = FALSE
  /\ UNCHANGED <<adds, libraryVars, ActiveTorrents, fileVars, receiverResponse, at, requestVars,
                 removing>>

SetReceivedMagnet(x) ==
  /\ receiverEnabled
  /\ receiverEnabled' = FALSE
  /\ receiverResponse' = [kind |-> "magnet", hash |-> x]
  /\ UNCHANGED <<adds, libraryVars, ActiveTorrents, fileVars, at, requestVars, removing>>

SetReceivedTorrent(x) ==
  /\ receiverEnabled
  /\ receiverEnabled' = FALSE
  /\ receiverResponse' = [kind |-> "name", hash |-> x]
  /\ receivedTorrent' = x
  /\ sentByPage' = TRUE
  /\ UNCHANGED <<adds, libraryVars, ActiveTorrents, at, requestVars, removing>>

-------------------------------------------------------------------------------

Fetches(a) == FetchesFile(a) \/ FetchesMagnet(a) \/ FetchFails(a)
Decides(a) ==
  \/ FindsActive(a) \/ FindsNone(a)
  \/ AddsFile(a) \/ AddsMagnet(a) \/ AddPanics(a)
  \/ Registers(a) \/ Rejects(a) \/ TimesOut(a)
Add(a) == Fetches(a) \/ Decides(a)

\* What goes on in the server and the library.
Serves ==
  \/ \E a \in workload.adders : Add(a)
  \/ \E t \in Torrents : GetsInfo(t)
  \/ \E r \in workload.removers : RemoverDeletes(r)

\* Clients that ask for anything at any time.  (The widget with the scene is one of its own.)
Asks ==
  \/ \E a \in workload.adders \ workload.scene :
        \E u \in URIs : u.kind # "name" /\ Request(a, u)
  \/ \E r \in workload.removers : \E x \in Hashes : workload.scene = {} /\ RemoverDrops(r, x)

-------------------------------------------------------------------------------
\* Types of all variables.
TypeOK ==
  /\ adds \in 0 .. MaxAdds
  /\ hashOf \in [Torrents -> Hashes \cup {None}]
  /\ found \in [Hashes -> Torrents \cup {None}]
  /\ info \subseteq Torrents /\ dropped \subseteq Torrents
  /\ ActiveTorrents \in [Hashes -> Torrents \cup {None}]
  /\ receivedTorrent \in Hashes \cup {None}
  /\ receiverEnabled \in BOOLEAN /\ receiverResponse \in URIs \cup {None}
  /\ sentByPage \in BOOLEAN
  /\ at \in [Adders -> {"idle", "fetch", "look up", "add", "wait"}]
  /\ uri \in [Adders -> URIs \cup {None}]
  /\ spec \in [Adders -> Hashes \cup {None}]
  /\ torrent \in [Adders -> Torrents \cup {None}]
  /\ known \in [Adders -> BOOLEAN]
  /\ answer \in [Adders -> Hashes \cup {None}]
  /\ removing \in [Removers -> Hashes \cup {None}]
  /\ workload \in Workloads

===============================================================================
