------------------------------ MODULE PieceCache ------------------------------
(***************************************************************************)
(* The in-memory piece storage of the torrent server                       *)
(* (server/internal/torrentclient/memorystorage): a byte-bounded LRU cache *)
(* of piece buffers shared by all torrents (storage.go) and the storage    *)
(* interface the BitTorrent library drives (memory.go).                    *)
(*                                                                         *)
(* Bytes are counted in blocks, the unit the library writes.  A buffer has *)
(* an identity, so that two owners of one buffer can be told apart, and    *)
(* each of its blocks holds the bytes of some piece or nothing (a freshly  *)
(* made buffer).  The loop of acquire runs one iteration per action while  *)
(* the writer holds pieceCache.mu; the completion map has a lock of its    *)
(* own and changes between those iterations.                               *)
(*                                                                         *)
(* The library is external: it writes the blocks it misses, hashes a piece *)
(* whose blocks it all wrote, marks the piece, and caches the completion   *)
(* it was last told (have) until a read fails.                             *)
(***************************************************************************)
EXTENDS Integers, Sequences, FiniteSets

CONSTANTS
  Torrents,   \* the torrents the client may open (info hashes)
  Pieces,     \* piece keys of all torrents
  TorrentOf,  \* TorrentOf[p]: the torrent a piece belongs to
  SizeOf,     \* SizeOf[p]: length of a piece, in blocks
  Capacity,   \* pieceCache.capacity, in blocks
  Buffers,    \* identities of byte slices
  None        \* no buffer, no piece

\* Controller.validate and main refuse a memory size under 64 MB and
\* addTorrentFromUri drops a torrent whose pieces are longer than a sixth of
\* it, so every piece that is ever written fits the capacity.
ASSUME ConstantsAssumption ==
  /\ TorrentOf \in [Pieces -> Torrents]
  /\ Capacity \in Nat
  /\ SizeOf \in [Pieces -> Nat]
  /\ \A p \in Pieces : SizeOf[p] \in 1 .. Capacity
  /\ None \notin Pieces \cup Buffers

PiecesOf(t) == {p \in Pieces : TorrentOf[p] = t}

\* The pieces of a torrent have one length, but the last may be shorter; a
\* sixth of the memory fits into the capacity, three quarters of it, twice.
ASSUME TorrentAssumption ==
  \A p, q \in Pieces : TorrentOf[q] = TorrentOf[p] /\ SizeOf[q] < SizeOf[p] =>
    /\ SizeOf[p] + SizeOf[q] <= Capacity
    /\ \A r \in PiecesOf(TorrentOf[p]) \ {q} : SizeOf[r] = SizeOf[p]

VARIABLES
  entries,    \* pieceCache.entries: the buffer of each resident piece
  lru,        \* pieceCache.lru, most recently used first
  recycled,   \* pieceCache.recycled: retained buffers without an owner
  resident,   \* pieceCache.resident
  active,     \* pieceCache.active
  bufferCap,  \* cap of every buffer
  content,    \* content[u][i]: the piece whose block i buffer u holds
  mu,         \* pieceCache.mu: who holds it across steps
  completion, \* the PieceCompletion map
  storage,    \* state of each torrent's storage
  have,       \* library: pieces it believes complete
  dirty,      \* library: blocks of an incomplete piece it has written
  hashing     \* library: result of a hash that is not recorded yet

cacheVars == <<entries, lru, recycled, resident, active, bufferCap, content, mu>>
libraryVars == <<have, dirty, hashing>>
vars == <<entries, lru, recycled, resident, active, bufferCap, content, mu,
          completion, storage, have, dirty, hashing>>

Blocks(p) == 1 .. SizeOf[p]

Free == [op |-> "free"]
Writing(p, b) == [op |-> "write", piece |-> p, block |-> b]
Deleting(t) == [op |-> "delete", torrent |-> t]
LockStates == {Free} \cup {Writing(p, b) : p \in Pieces, b \in 1 .. Capacity}
                     \cup {Deleting(t) : t \in Torrents}

Resident(p) == entries[p] # None
Live == {u \in Buffers : u \in recycled \/ \E p \in Pieces : entries[p] = u}

\* The whole piece p is in the cache and every byte of it is right.
Verified(p) == /\ Resident(p)
               /\ \A b \in Blocks(p) : content[entries[p]][b] = p

\* The bytes of a buffer fresh from make.
Zeroed == [i \in 1 .. Capacity |-> None]

-------------------------------------------------------------------------------

Init ==
  /\ entries = [p \in Pieces |-> None]
  /\ lru = <<>>
  /\ recycled = {}
  /\ resident = 0
  /\ active = 0
  /\ bufferCap = [u \in Buffers |-> 0]
  /\ content = [u \in Buffers |-> Zeroed]
  /\ mu = Free
  /\ completion = [p \in Pieces |-> "unknown"]
  /\ storage = [t \in Torrents |-> "closed"]
  /\ have = [p \in Pieces |-> FALSE]
  /\ dirty = [p \in Pieces |-> {}]
  /\ hashing = [p \in Pieces |-> "idle"]

\* lru without its i-th element: list.Remove.
WithoutIndex(i) == SubSeq(lru, 1, i - 1) \o SubSeq(lru, i + 1, Len(lru))
IndexIn(p) == CHOOSE i \in 1 .. Len(lru) : lru[i] = p
MoveToFront(p) == <<p>> \o WithoutIndex(IndexIn(p))

-------------------------------------------------------------------------------
(* storage.go: write and acquire. *)

\* The library only writes blocks it does not have, of an open torrent; it
\* never writes outside a piece, so the bounds check of write never fails and
\* the loop of WriteAt runs once.
Wanted(p, b) == /\ storage[TorrentOf[p]] = "open"
                /\ ~have[p]
                /\ hashing[p] = "idle"
                /\ b \in Blocks(p) \ dirty[p]

\* Mutant: the buffer of the front entry is taken before the entry moves there.
WriteHit_FrontBuffer(p, b) ==
  /\ mu = Free
  /\ Wanted(p, b)
  /\ Resident(p)
  /\ lru' = MoveToFront(p)
  /\ content' = [content EXCEPT ![entries[Head(lru)]][b] = p]
  /\ dirty' = [dirty EXCEPT ![p] = @ \cup {b}]
  /\ UNCHANGED <<entries, recycled, resident, active, bufferCap, mu,
                 completion, storage, have, hashing>>

\* write of a block of a resident piece.
WriteHit(p, b) ==
  /\ mu = Free
  /\ Wanted(p, b)
  /\ Resident(p)
  /\ lru' = MoveToFront(p)
  /\ content' = [content EXCEPT ![entries[p]][b] = p]
  /\ dirty' = [dirty EXCEPT ![p] = @ \cup {b}]
  /\ UNCHANGED <<entries, recycled, resident, active, bufferCap, mu,
                 completion, storage, have, hashing>>

\* write of a block of an absent piece: enters acquire with the lock held.
WriteMiss(p, b) ==
  /\ mu = Free
  /\ Wanted(p, b)
  /\ ~Resident(p)
  /\ mu' = Writing(p, b)
  /\ UNCHANGED <<entries, lru, recycled, resident, active, bufferCap, content,
                 completion, storage, libraryVars>>

\* The tail of write once acquire returned buffer u with the bytes bytes.
Insert(u, bytes) ==
  LET p == mu.piece
      b == mu.block
  IN  /\ entries' = [entries EXCEPT ![p] = u]
      /\ lru' = <<p>> \o lru
      /\ active' = active + bufferCap'[u]
      /\ content' = [content EXCEPT ![u] = [bytes EXCEPT ![b] = p]]
      /\ dirty' = [dirty EXCEPT ![p] = @ \cup {b}]
      /\ mu' = Free
      /\ UNCHANGED <<completion, storage, have, hashing>>

Acquiring == mu.op = "write"
Needed == SizeOf[mu.piece]
Fitting == {u \in recycled : bufferCap[u] >= Needed}
BestFit == {u \in Fitting : \A v \in Fitting : bufferCap[u] <= bufferCap[v]}
\* Mutant: one block more than the capacity.
Room_OffByOne == resident + Needed <= Capacity + 1
Room == resident + Needed <= Capacity

\* Mutant: the buffer stays in the recycle list.
AcquireReuse_Kept ==
  /\ Acquiring
  /\ \E u \in BestFit :
       /\ UNCHANGED <<recycled, resident, bufferCap>>
       /\ Insert(u, content[u])

\* Reuse the smallest recycled buffer that is long enough; it keeps its bytes.
AcquireReuse ==
  /\ Acquiring
  /\ \E u \in BestFit :
       /\ recycled' = recycled \ {u}
       /\ UNCHANGED <<resident, bufferCap>>
       /\ Insert(u, content[u])

\* A buffer nothing refers to any more: its identity and memory are free.
Discard(u) ==
  /\ resident' = resident - bufferCap[u]
  /\ bufferCap' = [bufferCap EXCEPT ![u] = 0]
  /\ content' = [content EXCEPT ![u] = Zeroed]

\* make([]byte, size).
AcquireAllocate ==
  /\ Acquiring
  /\ Fitting = {}
  /\ Room
  /\ \E u \in Buffers \ Live :
       /\ bufferCap' = [bufferCap EXCEPT ![u] = Needed]
       /\ resident' = resident + Needed
       /\ UNCHANGED recycled
       /\ Insert(u, Zeroed)

\* Mutants of EvictOldest: the entry stays in the map; active is not reduced;
\* the completion is not reset; the buffer is given up; the buffer is lost.
EvictOldest_KeepsEntry ==
  LET p == lru[Len(lru)]
  IN  /\ lru' = SubSeq(lru, 1, Len(lru) - 1)
      /\ active' = active - bufferCap[entries[p]]
      /\ completion' = [completion EXCEPT ![p] = "false"]
      /\ recycled' = recycled \cup {entries[p]}
      /\ UNCHANGED <<entries, resident>>
EvictOldest_KeepsActive ==
  LET p == lru[Len(lru)]
  IN  /\ lru' = SubSeq(lru, 1, Len(lru) - 1)
      /\ entries' = [entries EXCEPT ![p] = None]
      /\ completion' = [completion EXCEPT ![p] = "false"]
      /\ recycled' = recycled \cup {entries[p]}
      /\ UNCHANGED <<active, resident>>
EvictOldest_KeepsCompletion ==
  LET p == lru[Len(lru)]
  IN  /\ lru' = SubSeq(lru, 1, Len(lru) - 1)
      /\ entries' = [entries EXCEPT ![p] = None]
      /\ active' = active - bufferCap[entries[p]]
      /\ recycled' = recycled \cup {entries[p]}
      /\ UNCHANGED <<completion, resident>>
EvictOldest_GivesUp ==
  LET p == lru[Len(lru)]
  IN  /\ lru' = SubSeq(lru, 1, Len(lru) - 1)
      /\ entries' = [entries EXCEPT ![p] = None]
      /\ active' = active - bufferCap[entries[p]]
      /\ resident' = resident - bufferCap[entries[p]]
      /\ completion' = [completion EXCEPT ![p] = "false"]
      /\ UNCHANGED recycled
EvictOldest_Loses ==
  LET p == lru[Len(lru)]
  IN  /\ lru' = SubSeq(lru, 1, Len(lru) - 1)
      /\ entries' = [entries EXCEPT ![p] = None]
      /\ active' = active - bufferCap[entries[p]]
      /\ completion' = [completion EXCEPT ![p] = "false"]
      /\ UNCHANGED <<recycled, resident>>

\* evictOldest(true), with the completion callback it makes.
EvictOldest ==
  LET p == lru[Len(lru)]
  IN  /\ lru' = SubSeq(lru, 1, Len(lru) - 1)
      /\ entries' = [entries EXCEPT ![p] = None]
      /\ active' = active - bufferCap[entries[p]]
      /\ completion' = [completion EXCEPT ![p] = "false"]
      /\ recycled' = recycled \cup {entries[p]}
      /\ UNCHANGED resident

AcquireEvict ==
  /\ Acquiring
  /\ Fitting = {}
  /\ ~Room
  /\ lru # <<>>
  /\ EvictOldest
  /\ UNCHANGED <<bufferCap, content, mu, storage, libraryVars>>

\* Nothing left to evict: give up a retained buffer of another size.
AcquireDrop ==
  /\ Acquiring
  /\ Fitting = {}
  /\ ~Room
  /\ lru = <<>>
  /\ \E u \in recycled :
       /\ recycled' = recycled \ {u}
       /\ Discard(u)
  /\ UNCHANGED <<entries, lru, active, mu, completion, storage, libraryVars>>

-------------------------------------------------------------------------------
(* memory.go, and storage.go: deleteTorrent. *)

\* OpenTorrent: RAM storage always starts empty.
OpenTorrent(t) ==
  /\ storage[t] = "closed"
  /\ storage' = [storage EXCEPT ![t] = "open"]
  /\ completion' = [p \in Pieces |-> IF TorrentOf[p] = t THEN "false" ELSE completion[p]]
  /\ have' = [p \in Pieces |-> have[p] /\ TorrentOf[p] # t]
  /\ dirty' = [p \in Pieces |-> IF TorrentOf[p] = t THEN {} ELSE dirty[p]]
  /\ UNCHANGED <<cacheVars, hashing>>

\* memoryTorrent.Close up to its call of storageDelete.  The library closes
\* the storage under its storage lock: no write of the torrent is in
\* progress and a hash it still computes is thrown away.
CloseTorrent(t) ==
  /\ storage[t] = "open"
  /\ Acquiring => TorrentOf[mu.piece] # t
  /\ storage' = [storage EXCEPT ![t] = "closing"]
  /\ completion' = [p \in Pieces |-> IF TorrentOf[p] = t THEN "false" ELSE completion[p]]
  /\ hashing' = [p \in Pieces |-> IF TorrentOf[p] = t THEN "idle" ELSE hashing[p]]
  /\ UNCHANGED <<cacheVars, have, dirty>>

\* deleteTorrent takes the lock ...
DeleteTorrent(t) ==
  /\ mu = Free
  /\ storage[t] = "closing"
  /\ mu' = Deleting(t)
  /\ UNCHANGED <<entries, lru, recycled, resident, active, bufferCap, content,
                 completion, storage, libraryVars>>

OfDeleted == {i \in 1 .. Len(lru) : TorrentOf[lru[i]] = mu.torrent}

\* ... removes the entries of the torrent, the oldest first; their buffers
\* are left to the garbage collector ...
DeleteEntry ==
  /\ mu.op = "delete"
  /\ \E i \in OfDeleted :
       /\ \A j \in OfDeleted : j <= i
       /\ lru' = WithoutIndex(i)
       /\ entries' = [entries EXCEPT ![lru[i]] = None]
       /\ active' = active - bufferCap[entries[lru[i]]]
       /\ Discard(entries[lru[i]])
  /\ UNCHANGED <<recycled, mu, completion, storage, libraryVars>>

\* ... and releases the lock when the list is exhausted.
DeleteDone ==
  /\ mu.op = "delete"
  /\ OfDeleted = {}
  /\ mu' = Free
  /\ storage' = [storage EXCEPT ![mu.torrent] = "closed"]
  /\ UNCHANGED <<entries, lru, recycled, resident, active, bufferCap, content,
                 completion, libraryVars>>

-------------------------------------------------------------------------------
(* The library, as it drives the storage (external), and memoryPiece. *)

\* ReadAt of the whole piece by the hasher: every pieceCache.read moves the
\* entry to the front.
HashPiece(p) ==
  /\ mu = Free
  /\ storage[TorrentOf[p]] = "open"
  /\ hashing[p] = "idle"
  /\ ~have[p]
  /\ dirty[p] = Blocks(p)
  /\ lru' = IF Resident(p) THEN MoveToFront(p) ELSE lru
  /\ hashing' = [hashing EXCEPT ![p] = IF Verified(p) THEN "good" ELSE "bad"]
  /\ UNCHANGED <<entries, recycled, resident, active, bufferCap, content, mu,
                 completion, storage, have, dirty>>

\* MarkComplete: sets the completion without pieceCache.mu.
MarkComplete(p) ==
  /\ hashing[p] = "good"
  /\ completion' = [completion EXCEPT ![p] = "true"]
  /\ have' = [have EXCEPT ![p] = TRUE]
  /\ dirty' = [dirty EXCEPT ![p] = {}]
  /\ hashing' = [hashing EXCEPT ![p] = "idle"]
  /\ UNCHANGED <<cacheVars, storage>>

MarkNotComplete(p) ==
  /\ hashing[p] = "bad"
  /\ completion' = [completion EXCEPT ![p] = "false"]
  /\ dirty' = [dirty EXCEPT ![p] = {}]
  /\ hashing' = [hashing EXCEPT ![p] = "idle"]
  /\ UNCHANGED <<cacheVars, storage, have>>

\* A stream reads a resident piece, moving it to the front.
Read(p) ==
  /\ mu = Free
  /\ storage[TorrentOf[p]] = "open"
  /\ have[p] \/ dirty[p] # {}
  /\ Resident(p)
  /\ lru' = MoveToFront(p)
  /\ UNCHANGED <<entries, recycled, resident, active, bufferCap, content, mu,
                 completion, storage, libraryVars>>

\* A stream reads a piece that is gone: io.EOF, after which the library asks
\* Completion again and forgets the piece when it is not complete.  While
\* the map still says complete nothing changes: the read fails again.
ReadMissing(p) ==
  /\ mu = Free
  /\ storage[TorrentOf[p]] = "open"
  /\ have[p]
  /\ ~Resident(p)
  /\ completion[p] # "true"
  /\ have' = [have EXCEPT ![p] = FALSE]
  /\ UNCHANGED <<cacheVars, completion, storage, dirty, hashing>>

-------------------------------------------------------------------------------

\* One iteration of the loop of acquire, or of the loop of deleteTorrent.
Acquire == AcquireReuse \/ AcquireAllocate \/ AcquireEvict \/ AcquireDrop
Delete == DeleteEntry \/ DeleteDone

Next ==
  \/ \E p \in Pieces :
       \/ \E b \in Blocks(p) : WriteHit(p, b) \/ WriteMiss(p, b)
       \/ HashPiece(p)
       \/ MarkComplete(p)
       \/ MarkNotComplete(p)
       \/ Read(p)
       \/ ReadMissing(p)
  \/ Acquire
  \/ Delete
  \/ \E t \in Torrents : OpenTorrent(t) \/ CloseTorrent(t) \/ DeleteTorrent(t)

Spec == Init /\ [][Next]_vars

\* The goroutine inside the critical section keeps running.
FairSpec == Spec /\ WF_vars(Acquire) /\ WF_vars(Delete)

-------------------------------------------------------------------------------
(* Properties. *)

\* Types of all variables.
TypeOK ==
  /\ entries \in [Pieces -> Buffers \cup {None}]
  /\ lru \in Seq(Pieces)
  /\ recycled \subseteq Buffers
  /\ resident \in Int
  /\ active \in Int
  /\ bufferCap \in [Buffers -> Nat]
  /\ content \in [Buffers -> [1 .. Capacity -> Pieces \cup {None}]]
  /\ mu \in LockStates
  /\ completion \in [Pieces -> {"unknown", "false", "true"}]
  /\ storage \in [Torrents -> {"closed", "open", "closing"}]
  /\ have \in [Pieces -> BOOLEAN]
  /\ dirty \in [Pieces -> SUBSET (1 .. Capacity)]
  /\ hashing \in [Pieces -> {"idle", "good", "bad"}]

\* The recency list and the entry map hold the same pieces, each once: an
\* eviction always frees an entry and no entry escapes eviction.
LruMatchesEntries ==
  /\ \A i, j \in 1 .. Len(lru) : lru[i] = lru[j] => i = j
  /\ \A p \in Pieces : Resident(p) <=> \E i \in 1 .. Len(lru) : lru[i] = p

\* A buffer has one owner: no two pieces share a buffer, and none is written
\* while it also waits in the recycle list.  A broken hand-over between
\* evictOldest and acquire would corrupt the video of another torrent.
NoSharedBuffer ==
  \A p \in Pieces : Resident(p) =>
    /\ entries[p] \notin recycled
    /\ \A q \in Pieces : entries[q] = entries[p] => q = p

\* The memory the cache holds on to never exceeds its budget.
WithinCapacity == resident <= Capacity

\* The blocks of the buffers in B, the buffer capacities being cap.
BlocksOf(cap, B) == UNION {{u} \X (1 .. cap[u]) : u \in B}
InUse == {entries[p] : p \in {q \in Pieces : Resident(q)}}

\* The byte counters agree with the buffers they count, whatever the order of
\* evictions, reuses and deletions: active counts the buffers of the entries,
\* resident those and the recycled ones.
AccountingExact ==
  /\ active = Cardinality(BlocksOf(bufferCap, InUse))
  /\ resident = active + Cardinality(BlocksOf(bufferCap, recycled))

\* A piece that the completion map calls complete, or that the library
\* believes complete and serves without asking again, has exactly its own bytes
\* if its buffer is still there, whatever the buffer held before.
ServedIsVerified ==
  \A p \in Pieces : (have[p] \/ completion[p] = "true") /\ Resident(p) => Verified(p)

\* A piece is called complete without being resident only because it was
\* evicted between its hash and MarkComplete; no eviction or deletion leaves
\* a complete mark behind.
CompleteWithoutData(p) == completion[p] = "true" /\ ~Resident(p)
OnlyLateMarkLosesPiece ==
  [][\A p \in Pieces : ~CompleteWithoutData(p) /\ CompleteWithoutData(p)'
       => hashing[p] = "good" /\ ~Resident(p)]_vars

\* A buffer is given up only for a piece of a torrent whose pieces are longer
\* than another's: while one torrent plays, short last piece included, the
\* memory the cache retains does not shrink outside of a deletion, so that it
\* allocates at most once per block of its capacity.
PlaybackKeepsBuffers ==
  [][mu.op # "delete" /\ resident' < resident =>
       /\ mu.op = "write"
       /\ \E q \in Pieces : /\ TorrentOf[q] # TorrentOf[mu.piece]
                           /\ SizeOf[q] < SizeOf[mu.piece]]_vars

\* A write or a deletion that took the lock gives it back: the loop of
\* acquire ends.
LockIsReleased == (mu # Free) ~> (mu = Free)
===============================================================================
