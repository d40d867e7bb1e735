--------------------------- MODULE PieceCacheProofs ---------------------------
(***************************************************************************)
(* Invariance proofs about PieceCache, for every set of torrents, pieces   *)
(* and buffers and every capacity.                                         *)
(***************************************************************************)
EXTENDS PieceCache, SequenceTheorems, FiniteSetTheorems, TLAPS

\* The writer inside acquire adds a piece that is absent, that nobody hashes
\* and that the library does not have.
WriterOK ==
  Acquiring => /\ mu.piece \in Pieces
               /\ mu.block \in Blocks(mu.piece)
               /\ ~Resident(mu.piece)
               /\ ~have[mu.piece]
               /\ hashing[mu.piece] = "idle"

DeleterOK == mu.op = "delete" => mu.torrent \in Torrents

\* A piece that the library believes complete has its own bytes.
HadIsVerified == \A p \in Pieces : have[p] /\ Resident(p) => Verified(p)

\* A good hash that is not recorded yet is still about the buffer in the cache.
HashedIsVerified ==
  \A p \in Pieces : hashing[p] = "good" /\ Resident(p) => Verified(p)

\* The library's belief lags behind the completion map in one direction only.
CompleteIsHad == \A p \in Pieces : completion[p] = "true" => have[p]

\* The inductive invariant.  LruMatchesEntries types the buffer an eviction
\* frees; NoSharedBuffer keeps a write to one piece away from the others.
IInv ==
  /\ TypeOK
  /\ LruMatchesEntries
  /\ NoSharedBuffer
  /\ WithinCapacity
  /\ WriterOK
  /\ DeleterOK
  /\ HadIsVerified
  /\ HashedIsVerified
  /\ CompleteIsHad

-------------------------------------------------------------------------------
(* Sequences without one element. *)

\* Removing position i shifts the later elements down by one.
LEMMA RemovalShifts ==
  ASSUME NEW S, NEW s \in Seq(S), NEW i \in 1 .. Len(s)
  PROVE  LET w == SubSeq(s, 1, i - 1) \o SubSeq(s, i + 1, Len(s))
         IN  /\ w \in Seq(S)
             /\ Len(w) = Len(s) - 1
             /\ \A j \in 1 .. Len(w) : w[j] = IF j < i THEN s[j] ELSE s[j + 1]
<1> DEFINE a == SubSeq(s, 1, i - 1)
           c == SubSeq(s, i + 1, Len(s))
<1>1. /\ a \in Seq(S) /\ Len(a) = i - 1
      /\ \A j \in 1 .. i - 1 : a[j] = s[j]
  OBVIOUS
<1>2. /\ c \in Seq(S) /\ Len(c) = Len(s) - i
      /\ \A j \in 1 .. Len(s) - i : c[j] = s[i + j]
  OBVIOUS
<1> HIDE DEF a, c
<1>3. /\ a \o c \in Seq(S)
      /\ Len(a \o c) = Len(s) - 1
      /\ \A j \in 1 .. Len(s) - 1 :
           (a \o c)[j] = IF j <= i - 1 THEN a[j] ELSE c[j - (i - 1)]
  <2>1. /\ Len(a \o c) = Len(a) + Len(c)
        /\ \A j \in 1 .. Len(a) + Len(c) :
             (a \o c)[j] = IF j <= Len(a) THEN a[j] ELSE c[j - Len(a)]
    BY <1>1, <1>2, ConcatProperties
  <2>2. Len(a) + Len(c) = Len(s) - 1
    BY <1>1, <1>2
  <2>3. a \o c \in Seq(S)
    BY <1>1, <1>2, ConcatProperties
  <2> QED
    BY <1>1, <2>1, <2>2, <2>3
<1>4. ASSUME NEW j \in 1 .. Len(s) - 1
      PROVE  (a \o c)[j] = IF j < i THEN s[j] ELSE s[j + 1]
  <2>1. CASE j < i
    BY <2>1, <1>1, <1>3
  <2>2. CASE ~(j < i)
    <3>1. j - (i - 1) \in 1 .. Len(s) - i /\ i + (j - (i - 1)) = j + 1
      BY <2>2
    <3>2. c[j - (i - 1)] = s[j + 1]
      BY <3>1, <1>2
    <3> QED
      BY <2>2, <3>2, <1>3
  <2> QED
    BY <2>1, <2>2
<1> QED
  BY <1>3, <1>4 DEF a, c

\* The elements of the recency list are distinct.
Distinct(s) == \A i, j \in 1 .. Len(s) : s[i] = s[j] => i = j
Holds(s, x) == \E i \in 1 .. Len(s) : s[i] = x

\* Removing a position of a list of distinct elements removes that element
\* and no other.
LEMMA RemovalRemoves ==
  ASSUME NEW S, NEW s \in Seq(S), NEW i \in 1 .. Len(s), Distinct(s)
  PROVE  LET w == SubSeq(s, 1, i - 1) \o SubSeq(s, i + 1, Len(s))
         IN  /\ w \in Seq(S)
             /\ Distinct(w)
             /\ \A x : Holds(w, x) <=> Holds(s, x) /\ x # s[i]
<1> DEFINE w == SubSeq(s, 1, i - 1) \o SubSeq(s, i + 1, Len(s))
<1>1. /\ w \in Seq(S)
      /\ Len(w) = Len(s) - 1
      /\ \A j \in 1 .. Len(w) : w[j] = IF j < i THEN s[j] ELSE s[j + 1]
  BY RemovalShifts
<1> HIDE DEF w
<1>2. Distinct(w)
  BY <1>1 DEF Distinct
<1>3. ASSUME NEW x, Holds(w, x)
      PROVE  Holds(s, x) /\ x # s[i]
  <2>1. PICK j \in 1 .. Len(w) : w[j] = x
    BY <1>3 DEF Holds
  <2> QED
    BY <2>1, <1>1 DEF Holds, Distinct
<1>4. ASSUME NEW x, Holds(s, x), x # s[i]
      PROVE  Holds(w, x)
  <2>1. PICK k \in 1 .. Len(s) : s[k] = x /\ k # i
    BY <1>4 DEF Holds
  <2>2. CASE k < i
    BY <2>1, <2>2, <1>1 DEF Holds
  <2>3. CASE k > i
    <3>1. k - 1 \in 1 .. Len(w) /\ ~(k - 1 < i) /\ (k - 1) + 1 = k
      BY <2>3, <1>1
    <3> QED
      BY <3>1, <2>1, <1>1 DEF Holds
  <2> QED
    BY <2>1, <2>2, <2>3
<1> QED
  BY <1>1, <1>2, <1>3, <1>4 DEF w

\* Putting a new element in front of a list of distinct elements.
LEMMA PushFrontAdds ==
  ASSUME NEW S, NEW s \in Seq(S), NEW e \in S, Distinct(s), ~Holds(s, e)
  PROVE  /\ <<e>> \o s \in Seq(S)
         /\ Distinct(<<e>> \o s)
         /\ \A x : Holds(<<e>> \o s, x) <=> Holds(s, x) \/ x = e
<1> DEFINE f == <<e>> \o s
<1>1. /\ f \in Seq(S)
      /\ Len(f) = Len(s) + 1
      /\ \A j \in 1 .. Len(f) : f[j] = IF j = 1 THEN e ELSE s[j - 1]
  OBVIOUS
<1> HIDE DEF f
<1>2. Distinct(f)
  <2> SUFFICES ASSUME NEW i \in 1 .. Len(f), NEW j \in 1 .. Len(f), f[i] = f[j]
               PROVE  i = j
    BY DEF Distinct
  <2>1. ASSUME NEW k \in 1 .. Len(f), k # 1 PROVE k - 1 \in 1 .. Len(s) /\ f[k] = s[k - 1]
    BY <2>1, <1>1
  <2>2. f[1] = e
    BY <1>1
  <2> QED
    BY <2>1, <2>2 DEF Distinct, Holds
<1>3. ASSUME NEW x, Holds(f, x) PROVE Holds(s, x) \/ x = e
  BY <1>3, <1>1 DEF Holds
<1>4. ASSUME NEW x, Holds(s, x) \/ x = e PROVE Holds(f, x)
  <2>1. CASE x = e
    BY <2>1, <1>1 DEF Holds
  <2>2. CASE Holds(s, x)
    <3>1. PICK k \in 1 .. Len(s) : s[k] = x
      BY <2>2 DEF Holds
    <3>2. k + 1 \in 1 .. Len(f) /\ f[k + 1] = x
      BY <3>1, <1>1
    <3> QED
      BY <3>2 DEF Holds
  <2> QED
    BY <1>4, <2>1, <2>2
<1> QED
  BY <1>1, <1>2, <1>3, <1>4 DEF f

\* MoveToFront permutes the recency list.
LEMMA MoveToFrontPermutes ==
  ASSUME TypeOK, LruMatchesEntries, NEW p \in Pieces, Resident(p)
  PROVE  /\ MoveToFront(p) \in Seq(Pieces)
         /\ Distinct(MoveToFront(p))
         /\ \A x : Holds(MoveToFront(p), x) <=> Holds(lru, x)
<1> DEFINE i == IndexIn(p)
           w == SubSeq(lru, 1, i - 1) \o SubSeq(lru, i + 1, Len(lru))
<1>1. i \in 1 .. Len(lru) /\ lru[i] = p
  BY DEF LruMatchesEntries, IndexIn
<1>2. lru \in Seq(Pieces) /\ Distinct(lru)
  BY DEF TypeOK, LruMatchesEntries, Distinct
<1> HIDE DEF i
<1>3. /\ w \in Seq(Pieces)
      /\ Distinct(w)
      /\ \A x : Holds(w, x) <=> Holds(lru, x) /\ x # p
  BY <1>1, <1>2, RemovalRemoves
<1> HIDE DEF w
<1>4. /\ <<p>> \o w \in Seq(Pieces)
      /\ Distinct(<<p>> \o w)
      /\ \A x : Holds(<<p>> \o w, x) <=> Holds(w, x) \/ x = p
  BY <1>3, PushFrontAdds
<1>5. Holds(lru, p)
  BY <1>1 DEF Holds
<1>6. MoveToFront(p) = <<p>> \o w
  BY DEF MoveToFront, WithoutIndex, w, i
<1> QED
  BY <1>3, <1>4, <1>5, <1>6

-------------------------------------------------------------------------------
(* The recency list and the entry map, one lemma per way they change. *)

\* The recency invariant in terms of the sequence alone, for the lemmas above.
LEMMA LruRestated ==
  LruMatchesEntries <=> /\ Distinct(lru)
                        /\ \A p \in Pieces : Resident(p) <=> Holds(lru, p)
BY DEF LruMatchesEntries, Distinct, Holds

\* A piece moved to the front: WriteHit, HashPiece, Read.
LEMMA TouchKeepsLru ==
  ASSUME TypeOK, LruMatchesEntries, NEW p \in Pieces, Resident(p),
         lru' = MoveToFront(p), entries' = entries
  PROVE  lru' \in Seq(Pieces) /\ LruMatchesEntries'
<1>1. /\ lru' \in Seq(Pieces)
      /\ Distinct(lru')
      /\ \A x : Holds(lru', x) <=> Holds(lru, x)
  BY MoveToFrontPermutes
<1>2. \A q \in Pieces : Resident(q) <=> Holds(lru, q)
  BY LruRestated
<1>3. \A q \in Pieces : Holds(lru', q) <=> Resident(q)
  BY <1>1, <1>2
<1> QED
  BY <1>1, <1>3 DEF LruMatchesEntries, Distinct, Holds, Resident

\* A new entry in front: the end of a write to an absent piece.
LEMMA InsertKeepsLru ==
  ASSUME TypeOK, LruMatchesEntries, NEW p \in Pieces, ~Resident(p),
         NEW u \in Buffers, entries' = [entries EXCEPT ![p] = u],
         lru' = <<p>> \o lru
  PROVE  lru' \in Seq(Pieces) /\ LruMatchesEntries'
<1>1. lru \in Seq(Pieces) /\ Distinct(lru) /\ ~Holds(lru, p)
  BY LruRestated DEF TypeOK
<1>2. /\ lru' \in Seq(Pieces)
      /\ Distinct(lru')
      /\ \A x : Holds(lru', x) <=> Holds(lru, x) \/ x = p
  BY <1>1, PushFrontAdds
<1>3. u # None
  BY ConstantsAssumption
<1>4. \A q \in Pieces : Resident(q)' <=> Resident(q) \/ q = p
  BY <1>3 DEF TypeOK, Resident
<1>5. \A q \in Pieces : Resident(q)' <=> Holds(lru', q)
  BY <1>2, <1>4, LruRestated
<1> QED
  BY <1>2, <1>5 DEF LruMatchesEntries, Distinct, Holds

\* One entry removed: an eviction or a step of deleteTorrent.
LEMMA RemoveKeepsLru ==
  ASSUME TypeOK, LruMatchesEntries, NEW i \in 1 .. Len(lru),
         entries' = [entries EXCEPT ![lru[i]] = None],
         lru' = SubSeq(lru, 1, i - 1) \o SubSeq(lru, i + 1, Len(lru))
  PROVE  lru' \in Seq(Pieces) /\ LruMatchesEntries'
<1>1. lru \in Seq(Pieces) /\ Distinct(lru)
  BY LruRestated DEF TypeOK
<1>2. /\ lru' \in Seq(Pieces)
      /\ Distinct(lru')
      /\ \A x : Holds(lru', x) <=> Holds(lru, x) /\ x # lru[i]
  BY <1>1, RemovalRemoves
<1>3. lru[i] \in Pieces
  BY <1>1
<1>4. \A q \in Pieces : Resident(q)' <=> Resident(q) /\ q # lru[i]
  BY <1>3 DEF TypeOK, Resident
<1>5. \A q \in Pieces : Resident(q)' <=> Holds(lru', q)
  BY <1>2, <1>4, LruRestated
<1> QED
  BY <1>2, <1>5 DEF LruMatchesEntries, Distinct, Holds

\* The least recently used entry removed: evictOldest.
LEMMA EvictKeepsLru ==
  ASSUME TypeOK, LruMatchesEntries, lru # <<>>,
         entries' = [entries EXCEPT ![lru[Len(lru)]] = None],
         lru' = SubSeq(lru, 1, Len(lru) - 1)
  PROVE  lru' \in Seq(Pieces) /\ LruMatchesEntries'
<1>1. lru \in Seq(Pieces) /\ Len(lru) \in 1 .. Len(lru)
  BY DEF TypeOK
<1>2. SubSeq(lru, Len(lru) + 1, Len(lru)) = <<>>
  BY <1>1
<1>3. SubSeq(lru, 1, Len(lru) - 1) \in Seq(Pieces)
  BY <1>1
<1>4. lru' = SubSeq(lru, 1, Len(lru) - 1) \o SubSeq(lru, Len(lru) + 1, Len(lru))
  BY <1>2, <1>3, ConcatEmptySeq
<1> QED
  BY <1>1, <1>4, RemoveKeepsLru

\* A piece of the recency list is resident.
LEMMA LruResident ==
  ASSUME TypeOK, LruMatchesEntries, NEW i \in 1 .. Len(lru)
  PROVE  /\ lru[i] \in Pieces
         /\ Resident(lru[i])
         /\ entries[lru[i]] \in Buffers
BY DEF TypeOK, LruMatchesEntries, Resident


-------------------------------------------------------------------------------
(* Each action preserves the invariant. *)

\* The lock holder is one of the three kinds.
LEMMA LockHolder ==
  ASSUME mu \in LockStates
  PROVE  /\ Acquiring => /\ mu.piece \in Pieces
                         /\ mu.block \in 1 .. Capacity
                         /\ mu # Free /\ mu.op # "delete"
         /\ mu.op = "delete" => /\ mu.torrent \in Torrents
                                /\ mu # Free /\ ~Acquiring
         /\ mu = Free => ~Acquiring /\ mu.op # "delete"
BY DEF LockStates, Free, Writing, Deleting, Acquiring

\* A write to a piece that is in the cache (pieceCache.write, first branch).
LEMMA WriteHitPreserves ==
  ASSUME IInv, NEW p \in Pieces, NEW b \in Blocks(p), WriteHit(p, b)
  PROVE  IInv'
<1> USE DEF IInv
<1>1. lru' \in Seq(Pieces) /\ LruMatchesEntries'
  BY TouchKeepsLru DEF WriteHit
<1>2. b \in 1 .. Capacity /\ entries[p] \in Buffers
  BY ConstantsAssumption DEF Blocks, TypeOK, WriteHit, Resident
<1>3. TypeOK'
  BY <1>1, <1>2 DEF TypeOK, WriteHit
<1>4. NoSharedBuffer'
  BY DEF NoSharedBuffer, WriteHit, Resident
<1>5. \A q \in Pieces : q # p /\ Resident(q) => content'[entries[q]] = content[entries[q]]
  BY <1>2 DEF NoSharedBuffer, WriteHit, TypeOK
<1>6. \A q \in Pieces : q # p /\ Verified(q) => Verified(q)'
  BY <1>5 DEF Verified, WriteHit, Resident
<1>7. HadIsVerified' /\ HashedIsVerified'
  BY <1>6 DEF HadIsVerified, HashedIsVerified, WriteHit, Wanted, Resident
<1>8. WithinCapacity' /\ WriterOK' /\ DeleterOK' /\ CompleteIsHad'
  BY LockHolder DEF WithinCapacity, WriterOK, DeleterOK, CompleteIsHad, WriteHit,
     TypeOK, Acquiring
<1> QED
  BY <1>1, <1>3, <1>4, <1>7, <1>8

\* A write to a missing piece enters acquire and changes no data.
LEMMA WriteMissPreserves ==
  ASSUME IInv, NEW p \in Pieces, NEW b \in Blocks(p), WriteMiss(p, b)
  PROVE  IInv'
<1> USE DEF IInv
<1>1. b \in 1 .. Capacity
  BY ConstantsAssumption DEF Blocks
<1>2. TypeOK'
  BY <1>1 DEF TypeOK, WriteMiss, LockStates, libraryVars
<1>3. mu'.op = "write" /\ mu'.piece = p /\ mu'.block = b
  BY DEF WriteMiss, Writing
<1>4. WriterOK' /\ DeleterOK'
  BY <1>3 DEF WriterOK, DeleterOK, Acquiring, WriteMiss, Wanted, Resident, libraryVars
<1>5. /\ LruMatchesEntries' /\ NoSharedBuffer' /\ WithinCapacity'
      /\ HadIsVerified' /\ HashedIsVerified' /\ CompleteIsHad'
  BY DEF LruMatchesEntries, NoSharedBuffer, WithinCapacity, HadIsVerified,
     HashedIsVerified, CompleteIsHad, WriteMiss, Verified, Resident, libraryVars
<1> QED
  BY <1>2, <1>4, <1>5

\* The end of a write, with the buffer u that acquire chose.
LEMMA InsertPreserves ==
  ASSUME IInv, Acquiring, NEW u \in Buffers,
         \A q \in Pieces : entries[q] # u,
         NEW bytes \in [1 .. Capacity -> Pieces \cup {None}], Insert(u, bytes),
         recycled' = recycled \ {u},
         bufferCap' \in [Buffers -> Nat], resident' \in Int, resident' <= Capacity
  PROVE  IInv'
<1> USE DEF IInv
<1> DEFINE p == mu.piece
           b == mu.block
<1>1. /\ p \in Pieces /\ b \in Blocks(p) /\ ~Resident(p) /\ ~have[p]
      /\ hashing[p] = "idle"
  BY DEF WriterOK
<1>2. b \in 1 .. Capacity
  BY <1>1, ConstantsAssumption DEF Blocks
<1>3. /\ entries' = [entries EXCEPT ![p] = u]
      /\ lru' = <<p>> \o lru
      /\ active' = active + bufferCap'[u]
      /\ content' = [content EXCEPT ![u] = [bytes EXCEPT ![b] = p]]
      /\ dirty' = [dirty EXCEPT ![p] = @ \cup {b}]
      /\ mu' = Free
      /\ UNCHANGED <<completion, storage, have, hashing>>
  BY DEF Insert
<1> HIDE DEF p, b
<1>4. lru' \in Seq(Pieces) /\ LruMatchesEntries'
  BY <1>1, <1>3, InsertKeepsLru
<1>5. TypeOK'
  BY <1>1, <1>2, <1>3, <1>4 DEF TypeOK, LockStates
<1>6. u # None
  BY ConstantsAssumption
<1>7. NoSharedBuffer'
  BY <1>1, <1>3, <1>6 DEF NoSharedBuffer, Resident, TypeOK
<1>8. \A q \in Pieces : q # p => entries'[q] = entries[q] /\ (Verified(q) => Verified(q)')
  BY <1>1, <1>3 DEF Verified, Resident, TypeOK
<1>9. HadIsVerified' /\ HashedIsVerified'
  BY <1>1, <1>3, <1>8 DEF HadIsVerified, HashedIsVerified, Resident
<1>10. WithinCapacity' /\ CompleteIsHad'
  BY <1>3 DEF WithinCapacity, CompleteIsHad
<1>11. WriterOK' /\ DeleterOK'
  BY <1>3 DEF WriterOK, DeleterOK, Acquiring, Free
<1> QED
  BY <1>4, <1>5, <1>7, <1>9, <1>10, <1>11

\* acquire finds a recycled buffer that fits.
LEMMA AcquireReusePreserves ==
  ASSUME IInv, AcquireReuse
  PROVE  IInv'
<1> USE DEF IInv
<1>1. PICK u \in BestFit : /\ recycled' = recycled \ {u}
                           /\ UNCHANGED <<resident, bufferCap>>
                           /\ Insert(u, content[u])
  BY DEF AcquireReuse
<1>2. u \in recycled /\ u \in Buffers
  BY <1>1 DEF BestFit, Fitting, TypeOK
<1>3. \A q \in Pieces : entries[q] # u
  BY <1>2, ConstantsAssumption DEF NoSharedBuffer, Resident
<1>4. content[u] \in [1 .. Capacity -> Pieces \cup {None}]
  BY <1>2 DEF TypeOK
<1>5. /\ bufferCap' \in [Buffers -> Nat] /\ resident' \in Int
      /\ resident' <= Capacity /\ Acquiring
  BY <1>1 DEF TypeOK, WithinCapacity, AcquireReuse
<1> QED
  BY <1>1, <1>2, <1>3, <1>4, <1>5, InsertPreserves

\* acquire has room for a new buffer.
LEMMA AcquireAllocatePreserves ==
  ASSUME IInv, AcquireAllocate
  PROVE  IInv'
<1> USE DEF IInv
<1>1. PICK u \in Buffers \ Live :
         /\ bufferCap' = [bufferCap EXCEPT ![u] = Needed]
         /\ resident' = resident + Needed
         /\ UNCHANGED recycled
         /\ Insert(u, Zeroed)
  BY DEF AcquireAllocate
<1>2. Acquiring /\ resident + Needed <= Capacity
  BY DEF AcquireAllocate, Room
<1>3. Needed \in Nat
  BY <1>2, ConstantsAssumption DEF WriterOK, Needed
<1>4. u \in Buffers /\ recycled' = recycled \ {u} /\ \A q \in Pieces : entries[q] # u
  BY <1>1 DEF Live
<1>5. Zeroed \in [1 .. Capacity -> Pieces \cup {None}]
  BY DEF Zeroed
<1>6. bufferCap' \in [Buffers -> Nat] /\ resident' \in Int /\ resident' <= Capacity
  BY <1>1, <1>2, <1>3 DEF TypeOK
<1> QED
  BY <1>1, <1>2, <1>4, <1>5, <1>6, InsertPreserves

\* acquire evicts the oldest piece and goes round its loop again.
LEMMA AcquireEvictPreserves ==
  ASSUME IInv, AcquireEvict
  PROVE  IInv'
<1> USE DEF IInv
<1> DEFINE v == lru[Len(lru)]
<1>1. /\ lru # <<>>
      /\ lru' = SubSeq(lru, 1, Len(lru) - 1)
      /\ entries' = [entries EXCEPT ![v] = None]
      /\ active' = active - bufferCap[entries[v]]
      /\ completion' = [completion EXCEPT ![v] = "false"]
      /\ recycled' = recycled \cup {entries[v]}
      /\ UNCHANGED <<resident, bufferCap, content, mu, storage, have, dirty, hashing>>
  BY DEF AcquireEvict, EvictOldest, libraryVars
<1>2. Len(lru) \in 1 .. Len(lru)
  BY <1>1 DEF TypeOK
<1>3. v \in Pieces /\ Resident(v) /\ entries[v] \in Buffers
  BY <1>2, LruResident
<1>4. lru' \in Seq(Pieces) /\ LruMatchesEntries'
  BY <1>1, EvictKeepsLru
<1> HIDE DEF v
<1>5. TypeOK'
  BY <1>1, <1>3, <1>4 DEF TypeOK
<1>6. \A q \in Pieces : entries'[q] = IF q = v THEN None ELSE entries[q]
  BY <1>1, <1>3 DEF TypeOK
<1>7. NoSharedBuffer'
  BY <1>1, <1>3, <1>6 DEF NoSharedBuffer, Resident
<1>8. HadIsVerified' /\ HashedIsVerified'
  BY <1>1, <1>6 DEF HadIsVerified, HashedIsVerified, Verified, Resident
<1>9. CompleteIsHad'
  BY <1>1, <1>3 DEF CompleteIsHad, TypeOK
<1>10. WriterOK' /\ DeleterOK' /\ WithinCapacity'
  BY <1>1, <1>6 DEF WriterOK, DeleterOK, WithinCapacity, Acquiring, Resident
<1> QED
  BY <1>4, <1>5, <1>7, <1>8, <1>9, <1>10

\* Forgetting a buffer without an owner, or whose owner is removed with it,
\* changes the bytes of no resident piece.
LEMMA AcquireDropPreserves ==
  ASSUME IInv, AcquireDrop
  PROVE  IInv'
<1> USE DEF IInv
<1>1. PICK u \in recycled :
        /\ recycled' = recycled \ {u}
        /\ resident' = resident - bufferCap[u]
        /\ bufferCap' = [bufferCap EXCEPT ![u] = 0]
        /\ content' = [content EXCEPT ![u] = Zeroed]
  BY DEF AcquireDrop, Discard
<1>2. UNCHANGED <<entries, lru, active, mu, completion, storage, have, dirty, hashing>>
  BY DEF AcquireDrop, libraryVars
<1>3. Zeroed \in [1 .. Capacity -> Pieces \cup {None}]
  BY DEF Zeroed
<1>4. TypeOK'
  BY <1>1, <1>2, <1>3 DEF TypeOK
<1>5. \A q \in Pieces : Resident(q) => content'[entries[q]] = content[entries[q]]
  BY <1>1 DEF NoSharedBuffer, Resident, TypeOK
<1>6. HadIsVerified' /\ HashedIsVerified'
  BY <1>2, <1>5 DEF HadIsVerified, HashedIsVerified, Verified, Resident
<1>7. WithinCapacity'
  BY <1>1, ConstantsAssumption DEF WithinCapacity, TypeOK
<1>8. NoSharedBuffer' /\ LruMatchesEntries' /\ CompleteIsHad'
  BY <1>1, <1>2 DEF NoSharedBuffer, LruMatchesEntries, CompleteIsHad, Resident
<1>9. WriterOK' /\ DeleterOK'
  BY <1>2 DEF WriterOK, DeleterOK, Acquiring, Resident
<1> QED
  BY <1>4, <1>6, <1>7, <1>8, <1>9

\* deleteTorrent removes one of the torrent's pieces.
LEMMA DeleteEntryPreserves ==
  ASSUME IInv, DeleteEntry
  PROVE  IInv'
<1> USE DEF IInv
<1>1. PICK i \in OfDeleted :
        /\ lru' = WithoutIndex(i)
        /\ entries' = [entries EXCEPT ![lru[i]] = None]
        /\ active' = active - bufferCap[entries[lru[i]]]
        /\ resident' = resident - bufferCap[entries[lru[i]]]
        /\ bufferCap' = [bufferCap EXCEPT ![entries[lru[i]]] = 0]
        /\ content' = [content EXCEPT ![entries[lru[i]]] = Zeroed]
  BY DEF DeleteEntry, Discard
<1>2. UNCHANGED <<recycled, mu, completion, storage, have, dirty, hashing>>
  BY DEF DeleteEntry, libraryVars
<1>3. i \in 1 .. Len(lru)
  BY <1>1 DEF OfDeleted
<1> DEFINE v == lru[i]
<1>4. v \in Pieces /\ Resident(v) /\ entries[v] \in Buffers
  BY <1>3, LruResident
<1>5. lru' \in Seq(Pieces) /\ LruMatchesEntries'
  BY <1>1, <1>3, RemoveKeepsLru DEF WithoutIndex
<1> HIDE DEF v
<1>6. Zeroed \in [1 .. Capacity -> Pieces \cup {None}]
  BY DEF Zeroed
<1>7. /\ entries' = [entries EXCEPT ![v] = None]
      /\ active' = active - bufferCap[entries[v]]
      /\ resident' = resident - bufferCap[entries[v]]
      /\ bufferCap' = [bufferCap EXCEPT ![entries[v]] = 0]
      /\ content' = [content EXCEPT ![entries[v]] = Zeroed]
  BY <1>1 DEF v
<1>8. TypeOK'
  BY <1>2, <1>4, <1>5, <1>6, <1>7 DEF TypeOK
<1>9. \A q \in Pieces : entries'[q] = IF q = v THEN None ELSE entries[q]
  BY <1>4, <1>7 DEF TypeOK
<1>10. \A q \in Pieces : q # v /\ Resident(q) => content'[entries[q]] = content[entries[q]]
  BY <1>4, <1>7 DEF NoSharedBuffer, TypeOK
<1>11. HadIsVerified' /\ HashedIsVerified'
  BY <1>2, <1>9, <1>10 DEF HadIsVerified, HashedIsVerified, Verified, Resident
<1>12. NoSharedBuffer'
  BY <1>2, <1>9 DEF NoSharedBuffer, Resident
<1>13. WithinCapacity'
  BY <1>4, <1>7, ConstantsAssumption DEF WithinCapacity, TypeOK
<1>14. WriterOK' /\ DeleterOK' /\ CompleteIsHad'
  BY <1>2, <1>9 DEF WriterOK, DeleterOK, Acquiring, Resident, CompleteIsHad
<1> QED
  BY <1>5, <1>8, <1>11, <1>12, <1>13, <1>14

\* Actions that leave the buffers alone.
LEMMA LifecyclePreserves ==
  ASSUME IInv, NEW t \in Torrents,
         OpenTorrent(t) \/ CloseTorrent(t) \/ DeleteTorrent(t) \/ DeleteDone
  PROVE  IInv'
<1> USE DEF IInv
<1>1. UNCHANGED <<entries, lru, recycled, resident, active, bufferCap, content>>
  BY DEF OpenTorrent, CloseTorrent, DeleteTorrent, DeleteDone, cacheVars
<1>2. LruMatchesEntries' /\ NoSharedBuffer' /\ WithinCapacity'
  BY <1>1 DEF LruMatchesEntries, NoSharedBuffer, WithinCapacity, Resident
<1>3. \A q \in Pieces : (Verified(q)' <=> Verified(q)) /\ (Resident(q)' <=> Resident(q))
  BY <1>1 DEF Verified, Resident
<1>4. CASE OpenTorrent(t)
  <2>1. TypeOK'
    BY <1>4 DEF OpenTorrent, TypeOK, cacheVars
  <2>2. HadIsVerified' /\ HashedIsVerified' /\ CompleteIsHad'
    BY <1>3, <1>4 DEF OpenTorrent, HadIsVerified, HashedIsVerified, CompleteIsHad
  <2>3. WriterOK' /\ DeleterOK'
    BY <1>4, <1>3, LockHolder DEF OpenTorrent, WriterOK, DeleterOK, Acquiring, cacheVars, TypeOK
  <2> QED
    BY <1>2, <2>1, <2>2, <2>3
<1>5. CASE CloseTorrent(t)
  <2>1. TypeOK'
    BY <1>5 DEF CloseTorrent, TypeOK, cacheVars
  <2>2. HadIsVerified' /\ HashedIsVerified' /\ CompleteIsHad'
    BY <1>3, <1>5 DEF CloseTorrent, HadIsVerified, HashedIsVerified, CompleteIsHad
  <2>3. WriterOK' /\ DeleterOK'
    BY <1>5, <1>3, LockHolder DEF CloseTorrent, WriterOK, DeleterOK, Acquiring, cacheVars, TypeOK
  <2> QED
    BY <1>2, <2>1, <2>2, <2>3
<1>6. CASE DeleteTorrent(t)
  <2>1. TypeOK'
    BY <1>6 DEF DeleteTorrent, TypeOK, libraryVars, LockStates
  <2>2. HadIsVerified' /\ HashedIsVerified' /\ CompleteIsHad'
    BY <1>3, <1>6 DEF DeleteTorrent, HadIsVerified, HashedIsVerified, CompleteIsHad, libraryVars
  <2>3. WriterOK' /\ DeleterOK'
    BY <1>6 DEF DeleteTorrent, WriterOK, DeleterOK, Acquiring, Deleting
  <2> QED
    BY <1>2, <2>1, <2>2, <2>3
<1>7. CASE DeleteDone
  <2>0. mu' \in LockStates
    BY <1>7 DEF DeleteDone, LockStates
  <2>. UNCHANGED <<completion, have, dirty, hashing>>
    BY <1>7 DEF DeleteDone, libraryVars
  <2>1. TypeOK'
    BY <1>1, <1>7, <2>0 DEF DeleteDone, TypeOK
  <2>2. HadIsVerified' /\ HashedIsVerified' /\ CompleteIsHad'
    BY <1>3, <1>7 DEF DeleteDone, HadIsVerified, HashedIsVerified, CompleteIsHad, libraryVars
  <2>3. WriterOK' /\ DeleterOK'
    BY <1>7 DEF DeleteDone, WriterOK, DeleterOK, Acquiring, Free
  <2> QED
    BY <1>2, <2>1, <2>2, <2>3
<1> QED
  BY <1>4, <1>5, <1>6, <1>7

\* The steps of the library between writes: hashing, marking and reading a piece.
LEMMA LibraryPreserves ==
  ASSUME IInv, NEW p \in Pieces,
         HashPiece(p) \/ MarkComplete(p) \/ MarkNotComplete(p) \/ Read(p) \/ ReadMissing(p)
  PROVE  IInv'
<1> USE DEF IInv
<1>1. UNCHANGED <<entries, recycled, resident, active, bufferCap, content, mu, storage>>
  BY DEF HashPiece, MarkComplete, MarkNotComplete, Read, ReadMissing, cacheVars
<1>2. NoSharedBuffer' /\ WithinCapacity' /\ DeleterOK'
  BY <1>1 DEF NoSharedBuffer, WithinCapacity, DeleterOK, Resident
<1>3. \A q \in Pieces : (Verified(q)' <=> Verified(q)) /\ (Resident(q)' <=> Resident(q))
  BY <1>1 DEF Verified, Resident
<1>4. lru' \in Seq(Pieces) /\ LruMatchesEntries'
  <2>1. CASE Resident(p) /\ lru' = MoveToFront(p)
    BY <2>1, <1>1, TouchKeepsLru
  <2>2. CASE lru' = lru
    BY <2>2, <1>1 DEF TypeOK, LruMatchesEntries, Resident
  <2> QED
    BY <2>1, <2>2 DEF HashPiece, MarkComplete, MarkNotComplete, Read, ReadMissing, cacheVars
<1>5. CASE HashPiece(p)
  <2>1. TypeOK'
    BY <1>1, <1>4, <1>5 DEF HashPiece, TypeOK
  <2>2. CompleteIsHad' /\ HadIsVerified'
    BY <1>3, <1>5 DEF HashPiece, CompleteIsHad, HadIsVerified
  <2>3. HashedIsVerified'
    BY <1>3, <1>5 DEF HashPiece, HashedIsVerified, TypeOK
  <2>4. WriterOK'
    BY <1>5, LockHolder DEF HashPiece, WriterOK, Acquiring, TypeOK
  <2> QED
    BY <1>2, <1>4, <2>1, <2>2, <2>3, <2>4
<1>6. CASE MarkComplete(p)
  <2>1. TypeOK'
    BY <1>1, <1>4, <1>6 DEF MarkComplete, TypeOK
  <2>2. CompleteIsHad'
    BY <1>6 DEF MarkComplete, CompleteIsHad, TypeOK
  <2>3. HadIsVerified' /\ HashedIsVerified'
    BY <1>3, <1>6 DEF MarkComplete, HadIsVerified, HashedIsVerified, TypeOK
  <2>4. WriterOK'
    BY <1>1, <1>3, <1>6 DEF MarkComplete, WriterOK, Acquiring, TypeOK
  <2> QED
    BY <1>2, <1>4, <2>1, <2>2, <2>3, <2>4
<1>7. CASE MarkNotComplete(p)
  <2>1. TypeOK'
    BY <1>1, <1>4, <1>7 DEF MarkNotComplete, TypeOK
  <2>2. CompleteIsHad'
    BY <1>7 DEF MarkNotComplete, CompleteIsHad, TypeOK
  <2>3. HadIsVerified' /\ HashedIsVerified'
    BY <1>3, <1>7 DEF MarkNotComplete, HadIsVerified, HashedIsVerified, TypeOK
  <2>4. WriterOK'
    BY <1>1, <1>3, <1>7 DEF MarkNotComplete, WriterOK, Acquiring, TypeOK
  <2> QED
    BY <1>2, <1>4, <2>1, <2>2, <2>3, <2>4
<1>8. CASE Read(p)
  <2>1. UNCHANGED <<completion, have, dirty, hashing>>
    BY <1>8 DEF Read, libraryVars
  <2>2. TypeOK'
    BY <1>1, <1>4, <2>1 DEF TypeOK
  <2>3. CompleteIsHad' /\ HadIsVerified' /\ HashedIsVerified'
    BY <1>3, <2>1 DEF CompleteIsHad, HadIsVerified, HashedIsVerified
  <2>4. WriterOK'
    BY <1>1, <1>8, LockHolder DEF Read, WriterOK, Acquiring, TypeOK
  <2> QED
    BY <1>2, <1>4, <2>2, <2>3, <2>4
<1>9. CASE ReadMissing(p)
  <2>1. TypeOK'
    BY <1>1, <1>4, <1>9 DEF ReadMissing, TypeOK
  <2>2. CompleteIsHad' /\ HadIsVerified' /\ HashedIsVerified'
    BY <1>3, <1>9 DEF ReadMissing, CompleteIsHad, HadIsVerified, HashedIsVerified, TypeOK
  <2>3. WriterOK'
    BY <1>1, <1>9, LockHolder DEF ReadMissing, WriterOK, Acquiring, TypeOK
  <2> QED
    BY <1>2, <1>4, <2>1, <2>2, <2>3
<1> QED
  BY <1>5, <1>6, <1>7, <1>8, <1>9

-------------------------------------------------------------------------------

\* The cache of SetMemorySize, empty, satisfies the inductive invariant.
LEMMA InitEstablishes == Init => IInv
<1> SUFFICES ASSUME Init PROVE IInv
  OBVIOUS
<1>1. Zeroed \in [1 .. Capacity -> Pieces \cup {None}]
  BY DEF Zeroed
<1>2. TypeOK
  BY <1>1 DEF Init, TypeOK, LockStates
<1>3. LruMatchesEntries
  BY DEF Init, LruMatchesEntries, Resident
<1> QED
  BY <1>2, <1>3, ConstantsAssumption DEF Init, IInv, NoSharedBuffer, WithinCapacity,
     WriterOK, DeleterOK, HadIsVerified, HashedIsVerified, CompleteIsHad,
     Resident, Acquiring, Free

\* Every step preserves the inductive invariant, one case per action.
LEMMA NextPreserves == IInv /\ [Next]_vars => IInv'
<1> SUFFICES ASSUME IInv, [Next]_vars PROVE IInv'
  OBVIOUS
<1>1. CASE UNCHANGED vars
  BY <1>1 DEF vars, IInv, TypeOK, LruMatchesEntries, NoSharedBuffer, WithinCapacity,
     WriterOK, DeleterOK, HadIsVerified, HashedIsVerified, CompleteIsHad,
     Resident, Verified, Acquiring
<1>2. ASSUME NEW p \in Pieces, NEW b \in Blocks(p), WriteHit(p, b) \/ WriteMiss(p, b)
      PROVE  IInv'
  BY <1>2, WriteHitPreserves, WriteMissPreserves
<1>3. ASSUME NEW p \in Pieces,
             HashPiece(p) \/ MarkComplete(p) \/ MarkNotComplete(p) \/ Read(p) \/ ReadMissing(p)
      PROVE  IInv'
  BY <1>3, LibraryPreserves
<1>4. CASE Acquire
  BY <1>4, AcquireReusePreserves, AcquireAllocatePreserves, AcquireEvictPreserves,
     AcquireDropPreserves DEF Acquire
<1>5. CASE DeleteEntry
  BY <1>5, DeleteEntryPreserves
<1>6. ASSUME NEW t \in Torrents, OpenTorrent(t) \/ CloseTorrent(t) \/ DeleteTorrent(t)
      PROVE  IInv'
  BY <1>6, LifecyclePreserves
<1>7. CASE DeleteDone
  <2>1. mu.torrent \in Torrents
    BY <1>7 DEF DeleteDone, IInv, DeleterOK
  <2> QED
    BY <1>7, <2>1, LifecyclePreserves
<1> QED
  BY <1>1, <1>2, <1>3, <1>4, <1>5, <1>6, <1>7 DEF Next, Delete

\* The inductive invariant holds throughout.
LEMMA Invariance == Spec => []IInv
BY InitEstablishes, NextPreserves, PTL DEF Spec

\* Every variable keeps its type: in particular no eviction or deletion
\* reads the capacity of a buffer that is not there.
THEOREM TypeCorrect == Spec => []TypeOK
BY Invariance, PTL DEF IInv

\* The recency list and the entry map never diverge.
THEOREM RecencyCorrect == Spec => []LruMatchesEntries
BY Invariance, PTL DEF IInv

\* No buffer has two owners, whatever the piece lengths of the torrents.
THEOREM BufferExclusive == Spec => []NoSharedBuffer
BY Invariance, PTL DEF IInv

\* The cache never retains more than its budget.
THEOREM CapacityRespected == Spec => []WithinCapacity
BY Invariance, PTL DEF IInv

\* What is marked complete or served as complete, and still in the cache, is
\* right: with CompleteIsHad, the belief of the library covers the mark.
THEOREM ServedBytesRight == Spec => []ServedIsVerified
<1>1. IInv => ServedIsVerified
  BY DEF IInv, CompleteIsHad, HadIsVerified, ServedIsVerified
<1> QED
  BY <1>1, Invariance, PTL
-------------------------------------------------------------------------------
(* Complete marks without data. *)

\* A torrent that is closed, or whose entries are being deleted, has no piece that
\* is marked complete or whose hash is still to be recorded.
ClosedOK ==
  /\ mu.op = "delete" => storage[mu.torrent] = "closing"
  /\ \A p \in Pieces : storage[TorrentOf[p]] # "open" => completion[p] # "true" /\ hashing[p] = "idle"

\* The steps of acquire and of deleteTorrent's loop open no torrent and mark nothing.
LEMMA LockedKeepsClosed ==
  ASSUME IInv, ClosedOK, Acquire \/ DeleteEntry
  PROVE  ClosedOK'
<1>1. UNCHANGED <<storage, hashing>> /\ (mu' = mu \/ mu' = Free)
  BY DEF Acquire, AcquireReuse, AcquireAllocate, AcquireEvict, AcquireDrop, DeleteEntry, Insert,
         libraryVars
<1>2. completion' = completion \/ completion' = [completion EXCEPT ![lru[Len(lru)]] = "false"]
  BY DEF Acquire, AcquireReuse, AcquireAllocate, AcquireEvict, EvictOldest, AcquireDrop, DeleteEntry,
         Insert
<1>3. \A p \in Pieces : completion'[p] = "true" => completion[p] = "true"
  BY <1>2 DEF IInv, TypeOK
<1> QED
  BY <1>1, <1>3 DEF ClosedOK, Free

LEMMA LifecycleKeepsClosed ==
  ASSUME IInv, ClosedOK, NEW t \in Torrents, OpenTorrent(t) \/ CloseTorrent(t) \/ DeleteTorrent(t)
  PROVE  ClosedOK'
<1>1. CASE OpenTorrent(t)
  <2>1. mu.op = "delete" => mu.torrent # t
    BY <1>1 DEF OpenTorrent, ClosedOK
  <2> QED
    BY <1>1, <2>1 DEF OpenTorrent, ClosedOK, cacheVars, IInv, TypeOK, DeleterOK
<1>2. CASE CloseTorrent(t)
  <2>1. mu.op = "delete" => mu.torrent # t
    BY <1>2 DEF CloseTorrent, ClosedOK
  <2> QED
    BY <1>2, <2>1, ConstantsAssumption DEF CloseTorrent, ClosedOK, cacheVars, IInv, TypeOK, DeleterOK
<1>3. CASE DeleteTorrent(t)
  BY <1>3 DEF DeleteTorrent, ClosedOK, Deleting, libraryVars
<1> QED
  BY <1>1, <1>2, <1>3

LEMMA DeleteDoneKeepsClosed ==
  ASSUME IInv, ClosedOK, DeleteDone
  PROVE  ClosedOK'
<1>1. mu' = Free /\ storage' = [storage EXCEPT ![mu.torrent] = "closed"] /\ UNCHANGED <<completion, hashing>>
  BY DEF DeleteDone, libraryVars
<1>2. mu.torrent \in Torrents /\ storage[mu.torrent] = "closing"
  BY DEF DeleteDone, IInv, DeleterOK, ClosedOK
<1>3. \A p \in Pieces : storage'[TorrentOf[p]] # "open" => storage[TorrentOf[p]] # "open"
  BY <1>1, <1>2, ConstantsAssumption DEF IInv, TypeOK
<1> QED
  BY <1>1, <1>3 DEF ClosedOK, Free

\* A hash starts, and so ends, only while the torrent is open.
LEMMA LibraryKeepsClosed ==
  ASSUME IInv, ClosedOK, NEW p \in Pieces,
         \/ HashPiece(p) \/ MarkComplete(p) \/ MarkNotComplete(p) \/ Read(p) \/ ReadMissing(p)
         \/ \E b \in Blocks(p) : WriteHit(p, b) \/ WriteMiss(p, b)
  PROVE  ClosedOK'
<1>1. UNCHANGED storage /\ (mu' = mu \/ mu'.op = "write")
  <2>1. CASE \/ HashPiece(p) \/ MarkComplete(p) \/ MarkNotComplete(p) \/ Read(p) \/ ReadMissing(p)
             \/ \E b \in Blocks(p) : WriteHit(p, b)
    BY <2>1 DEF HashPiece, MarkComplete, MarkNotComplete, Read, ReadMissing, WriteHit, cacheVars
  <2>2. ASSUME NEW b \in Blocks(p), WriteMiss(p, b)
        PROVE  UNCHANGED storage /\ mu'.op = "write"
    BY <2>2 DEF WriteMiss, Writing
  <2> QED
    BY <2>1, <2>2
<1>2. \A q \in Pieces : q # p => completion'[q] = completion[q] /\ hashing'[q] = hashing[q]
  BY DEF HashPiece, MarkComplete, MarkNotComplete, Read, ReadMissing, WriteHit, WriteMiss, libraryVars,
         IInv, TypeOK
<1>3. storage[TorrentOf[p]] # "open" => completion'[p] # "true" /\ hashing'[p] = "idle"
  <2>1. CASE \/ HashPiece(p) \/ Read(p) \/ ReadMissing(p)
             \/ \E b \in Blocks(p) : WriteHit(p, b) \/ WriteMiss(p, b)
    <3>1. storage[TorrentOf[p]] = "open"
      BY <2>1 DEF HashPiece, Read, ReadMissing, WriteHit, WriteMiss, Wanted
    <3> QED
      BY <3>1
  <2>2. CASE MarkComplete(p) \/ MarkNotComplete(p)
    BY <2>2 DEF MarkComplete, MarkNotComplete, ClosedOK
  <2> QED
    BY <2>1, <2>2
<1>4. mu'.op = "delete" => storage'[mu'.torrent] = "closing"
  BY <1>1 DEF ClosedOK
<1>5. ASSUME NEW q \in Pieces, storage'[TorrentOf[q]] # "open"
      PROVE  completion'[q] # "true" /\ hashing'[q] = "idle"
  <2>1. CASE q = p
    BY <1>1, <1>3, <1>5, <2>1
  <2>2. CASE q # p
    BY <1>1, <1>2, <1>5, <2>2 DEF ClosedOK
  <2> QED
    BY <2>1, <2>2
<1> QED
  BY <1>4, <1>5 DEF ClosedOK

LEMMA NextKeepsClosed == IInv /\ ClosedOK /\ [Next]_vars => ClosedOK'
<1> SUFFICES ASSUME IInv, ClosedOK, [Next]_vars PROVE ClosedOK'
  OBVIOUS
<1>1. CASE UNCHANGED vars
  BY <1>1 DEF vars, ClosedOK
<1>2. ASSUME NEW p \in Pieces,
             \/ HashPiece(p) \/ MarkComplete(p) \/ MarkNotComplete(p) \/ Read(p) \/ ReadMissing(p)
             \/ \E b \in Blocks(p) : WriteHit(p, b) \/ WriteMiss(p, b)
      PROVE  ClosedOK'
  BY <1>2, LibraryKeepsClosed
<1>3. CASE Acquire \/ DeleteEntry
  BY <1>3, LockedKeepsClosed
<1>4. CASE DeleteDone
  BY <1>4, DeleteDoneKeepsClosed
<1>5. ASSUME NEW t \in Torrents, OpenTorrent(t) \/ CloseTorrent(t) \/ DeleteTorrent(t)
      PROVE  ClosedOK'
  BY <1>5, LifecycleKeepsClosed
<1> QED
  BY <1>1, <1>2, <1>3, <1>4, <1>5 DEF Next, Delete

LEMMA ClosedInvariance == Spec => []ClosedOK
<1>1. Init => ClosedOK
  BY ConstantsAssumption DEF Init, ClosedOK, Free
<1> QED
  BY <1>1, NextKeepsClosed, Invariance, PTL DEF Spec

\* Only MarkComplete marks a piece, and it takes no buffer away.
LEMMA MarkedByMarkComplete ==
  ASSUME IInv, [Next]_vars, NEW p \in Pieces, completion[p] # "true", completion'[p] = "true"
  PROVE  hashing[p] = "good" /\ UNCHANGED entries
<1>1. CASE UNCHANGED vars
  BY <1>1 DEF vars
<1>2. ASSUME NEW q \in Pieces,
             \/ HashPiece(q) \/ MarkNotComplete(q) \/ Read(q) \/ ReadMissing(q)
             \/ \E b \in Blocks(q) : WriteHit(q, b) \/ WriteMiss(q, b)
      PROVE  FALSE
  BY <1>2 DEF HashPiece, MarkNotComplete, Read, ReadMissing, WriteHit, WriteMiss, IInv, TypeOK
<1>3. ASSUME NEW q \in Pieces, MarkComplete(q)
      PROVE  hashing[p] = "good" /\ UNCHANGED entries
  BY <1>3 DEF MarkComplete, cacheVars, IInv, TypeOK
<1>4. CASE Acquire \/ Delete
  BY <1>4 DEF Acquire, AcquireReuse, AcquireAllocate, AcquireEvict, EvictOldest, AcquireDrop, Insert,
              Delete, DeleteEntry, DeleteDone, IInv, TypeOK
<1>5. ASSUME NEW t \in Torrents, OpenTorrent(t) \/ CloseTorrent(t) \/ DeleteTorrent(t)
      PROVE  FALSE
  BY <1>5 DEF OpenTorrent, CloseTorrent, DeleteTorrent, IInv, TypeOK
<1> QED
  BY <1>1, <1>2, <1>3, <1>4, <1>5 DEF Next

\* An entry leaves the map with its mark, or with a torrent that has no marks.
LEMMA GoneIsUnmarked ==
  ASSUME IInv, ClosedOK, [Next]_vars, NEW p \in Pieces, Resident(p), ~Resident(p)'
  PROVE  completion'[p] # "true"
<1>1. CASE UNCHANGED vars
  BY <1>1 DEF vars, Resident
<1>2. ASSUME NEW q \in Pieces,
             \/ HashPiece(q) \/ MarkComplete(q) \/ MarkNotComplete(q) \/ Read(q) \/ ReadMissing(q)
             \/ \E b \in Blocks(q) : WriteHit(q, b) \/ WriteMiss(q, b)
      PROVE  FALSE
  BY <1>2 DEF HashPiece, MarkComplete, MarkNotComplete, Read, ReadMissing, WriteHit, WriteMiss, cacheVars,
              Resident
<1>3. CASE AcquireReuse \/ AcquireAllocate
  <2>1. PICK u \in Buffers : entries' = [entries EXCEPT ![mu.piece] = u]
    BY <1>3 DEF AcquireReuse, AcquireAllocate, Insert, BestFit, Fitting, IInv, TypeOK
  <2>2. u # None
    BY ConstantsAssumption
  <2> QED
    BY <2>1, <2>2 DEF Resident, IInv, TypeOK
<1>4. CASE AcquireEvict
  <2> DEFINE v == lru[Len(lru)]
  <2>1. entries' = [entries EXCEPT ![v] = None] /\ completion' = [completion EXCEPT ![v] = "false"]
    BY <1>4 DEF AcquireEvict, EvictOldest
  <2> HIDE DEF v
  <2> QED
    BY <2>1 DEF Resident, IInv, TypeOK
<1>5. CASE AcquireDrop \/ DeleteDone
  BY <1>5 DEF AcquireDrop, DeleteDone, Resident
<1>6. CASE DeleteEntry
  <2>1. PICK i \in OfDeleted : entries' = [entries EXCEPT ![lru[i]] = None]
    BY <1>6 DEF DeleteEntry
  <2>2. p = lru[i]
    BY <2>1 DEF Resident, IInv, TypeOK
  <2>3. TorrentOf[p] = mu.torrent /\ mu.op = "delete" /\ UNCHANGED completion
    BY <1>6, <2>2 DEF OfDeleted, DeleteEntry
  <2>4. storage[TorrentOf[p]] # "open"
    BY <2>3 DEF ClosedOK
  <2> QED
    BY <2>3, <2>4 DEF ClosedOK
<1>7. ASSUME NEW t \in Torrents, OpenTorrent(t) \/ CloseTorrent(t) \/ DeleteTorrent(t)
      PROVE  FALSE
  BY <1>7 DEF OpenTorrent, CloseTorrent, DeleteTorrent, cacheVars, Resident
<1> QED
  BY <1>1, <1>2, <1>3, <1>4, <1>5, <1>6, <1>7 DEF Next, Acquire, Delete

\* A complete mark without data is always the late mark of a piece that an eviction
\* took between its hash and MarkComplete (memory.go, and evictOldest's callback).
THEOREM NoMarkLeftBehind == Spec => OnlyLateMarkLosesPiece
<1>1. ASSUME IInv, ClosedOK, [Next]_vars, NEW p \in Pieces,
             ~CompleteWithoutData(p), CompleteWithoutData(p)'
      PROVE  hashing[p] = "good" /\ ~Resident(p)
  <2>1. completion'[p] = "true" /\ ~Resident(p)'
    BY <1>1 DEF CompleteWithoutData
  <2>2. ~Resident(p)
    BY <1>1, <2>1, GoneIsUnmarked
  <2>3. completion[p] # "true"
    BY <1>1, <2>2 DEF CompleteWithoutData
  <2> QED
    BY <1>1, <2>1, <2>2, <2>3, MarkedByMarkComplete
<1>2. IInv /\ ClosedOK /\ [Next]_vars =>
        [\A p \in Pieces : ~CompleteWithoutData(p) /\ CompleteWithoutData(p)'
            => hashing[p] = "good" /\ ~Resident(p)]_vars
  BY <1>1
<1> QED
  BY <1>2, Invariance, ClosedInvariance, PTL DEF Spec, OnlyLateMarkLosesPiece
-------------------------------------------------------------------------------
(* The byte counters. *)

\* One buffer has as many blocks as its capacity.
LEMMA BlocksOfOne ==
  ASSUME NEW u, NEW n \in Nat
  PROVE  IsFiniteSet({u} \X (1 .. n)) /\ Cardinality({u} \X (1 .. n)) = n
<1> DEFINE f == [i \in 1 .. n |-> <<u, i>>]
<1>1. IsFiniteSet(1 .. n) /\ Cardinality(1 .. n) = n
  BY FS_Interval
<1>2. f \in Bijection(1 .. n, {u} \X (1 .. n))
  <2>1. f \in [1 .. n -> {u} \X (1 .. n)] /\ \A i \in 1 .. n : f[i] = <<u, i>>
    OBVIOUS
  <2> HIDE DEF f
  <2>2. IsInjective(f)
    <3>1. \A i, j \in 1 .. n : <<u, i>> = <<u, j>> => i = j
      OBVIOUS
    <3> QED
      BY <2>1, <3>1 DEF IsInjective
  <2>3. \A t \in {u} \X (1 .. n) : \E i \in 1 .. n : f[i] = t
    BY <2>1
  <2> QED
    BY <2>1, <2>2, <2>3 DEF Bijection, Injection, Surjection
<1>3. ExistsBijection(1 .. n, {u} \X (1 .. n))
  BY <1>2 DEF ExistsBijection
<1> QED
  BY <1>1, <1>3, FS_Bijection

\* A counter of the blocks of a set of buffers that is right: the blocks are
\* finitely many and it is their number.
Counts(n, cap, B) == IsFiniteSet(BlocksOf(cap, B)) /\ n = Cardinality(BlocksOf(cap, B))

\* A buffer that joins a set, whatever becomes of the buffers outside.
LEMMA CountJoins ==
  ASSUME NEW n \in Int, NEW B, NEW u, u \notin B, NEW cap, NEW capN,
         capN[u] \in Nat, \A v \in B : capN[v] = cap[v],
         Counts(n, cap, B)
  PROVE  Counts(n + capN[u], capN, B \cup {u})
<1> DEFINE old == BlocksOf(cap, B)
           one == {u} \X (1 .. capN[u])
<1>1. BlocksOf(capN, B \cup {u}) = old \cup one
  BY DEF BlocksOf
<1>2. old \cap one = {}
  BY DEF BlocksOf
<1>3. IsFiniteSet(old) /\ Cardinality(old) = n
  BY DEF Counts
<1>4. IsFiniteSet(one) /\ Cardinality(one) = capN[u]
  BY BlocksOfOne
<1> HIDE DEF old, one
<1>5. IsFiniteSet(old \cup one)
      /\ Cardinality(old \cup one) = Cardinality(old) + Cardinality(one) - Cardinality(old \cap one)
  BY <1>3, <1>4, FS_Union
<1>6. Cardinality(old \cap one) = 0
  <2>1. Cardinality({}) = 0
    BY FS_EmptySet
  <2> QED
    BY <1>2, <2>1
<1>7. Cardinality(old \cup one) = n + capN[u]
  <2> DEFINE a == Cardinality(old)
             b == Cardinality(one)
             c == Cardinality(old \cap one)
             d == Cardinality(old \cup one)
  <2>1. a = n /\ b = capN[u] /\ c = 0 /\ d = a + b - c
    BY <1>3, <1>4, <1>5, <1>6
  <2> HIDE DEF a, b, c, d
  <2>2. d = n + capN[u]
    BY <2>1
  <2> QED
    BY <2>2 DEF d
<1> QED
  BY <1>1, <1>5, <1>7 DEF Counts

\* A buffer that leaves a set, whatever becomes of it.
LEMMA CountLeaves ==
  ASSUME NEW n \in Int, NEW B, NEW u \in B, NEW cap, NEW capN,
         cap[u] \in Nat, \A v \in B \ {u} : capN[v] = cap[v],
         Counts(n, cap, B)
  PROVE  Counts(n - cap[u], capN, B \ {u})
<1> DEFINE left == BlocksOf(capN, B \ {u})
<1>1. left \in SUBSET BlocksOf(cap, B)
  BY DEF BlocksOf
<1>2. IsFiniteSet(left)
  BY <1>1, FS_Subset DEF Counts
<1>3. Cardinality(left) \in Int
  BY <1>2, FS_CardinalityType
<1>4. Counts(Cardinality(left), capN, B \ {u})
  BY <1>2 DEF Counts
<1> HIDE DEF left
<1>5. Counts(Cardinality(left) + cap[u], cap, (B \ {u}) \cup {u})
  BY <1>3, <1>4, CountJoins
<1>6. (B \ {u}) \cup {u} = B
  OBVIOUS
<1>7. n = Cardinality(left) + cap[u]
  BY <1>5, <1>6 DEF Counts
<1> QED
  BY <1>3, <1>4, <1>7

\* The accounting, with the finiteness that makes the counts add up.
CountedOK ==
  /\ Counts(active, bufferCap, InUse)
  /\ Counts(resident - active, bufferCap, recycled)

LEMMA CountedMeansExact == TypeOK /\ CountedOK => AccountingExact
<1> SUFFICES ASSUME TypeOK, CountedOK PROVE AccountingExact
  OBVIOUS
<1>1. active \in Int /\ resident \in Int
  BY DEF TypeOK
<1>2. resident - active = Cardinality(BlocksOf(bufferCap, recycled))
  BY DEF CountedOK, Counts
<1>3. Cardinality(BlocksOf(bufferCap, recycled)) \in Int
  BY FS_CardinalityType DEF CountedOK, Counts
<1> QED
  BY <1>1, <1>2, <1>3 DEF AccountingExact, CountedOK, Counts

\* The buffers in use after an entry is added or removed.
LEMMA InUseGrows ==
  ASSUME TypeOK, NEW p \in Pieces, ~Resident(p), NEW u \in Buffers,
         entries' = [entries EXCEPT ![p] = u]
  PROVE  InUse' = InUse \cup {u}
BY ConstantsAssumption DEF InUse, Resident, TypeOK

LEMMA InUseShrinks ==
  ASSUME TypeOK, NoSharedBuffer, NEW p \in Pieces, Resident(p),
         entries' = [entries EXCEPT ![p] = None]
  PROVE  InUse' = InUse \ {entries[p]}
BY DEF InUse, Resident, TypeOK, NoSharedBuffer

\* The entry that acquire adds counts its buffer.
LEMMA InsertCounts ==
  ASSUME IInv, CountedOK, Acquiring, NEW u \in Buffers, \A q \in Pieces : entries[q] # u,
         NEW bytes, Insert(u, bytes), bufferCap'[u] \in Nat,
         \A v \in InUse : bufferCap'[v] = bufferCap[v]
  PROVE  Counts(active', bufferCap', InUse')
<1>1. mu.piece \in Pieces /\ ~Resident(mu.piece)
  BY DEF IInv, WriterOK
<1>2. entries' = [entries EXCEPT ![mu.piece] = u] /\ active' = active + bufferCap'[u]
  BY DEF Insert
<1>3. InUse' = InUse \cup {u}
  BY <1>1, <1>2, InUseGrows DEF IInv
<1>4. u \notin InUse
  BY DEF InUse
<1>5. active \in Int /\ Counts(active, bufferCap, InUse)
  BY DEF IInv, TypeOK, CountedOK
<1>6. Counts(active + bufferCap'[u], bufferCap', InUse \cup {u})
  BY <1>4, <1>5, CountJoins
<1> QED
  BY <1>2, <1>3, <1>6

LEMMA ReuseCounts ==
  ASSUME IInv, CountedOK, AcquireReuse
  PROVE  CountedOK'
<1>1. PICK u \in BestFit : /\ recycled' = recycled \ {u}
                           /\ UNCHANGED <<resident, bufferCap>>
                           /\ Insert(u, content[u])
  BY DEF AcquireReuse
<1>2. u \in recycled /\ u \in Buffers /\ bufferCap[u] \in Nat /\ active \in Int /\ resident \in Int
  BY <1>1 DEF BestFit, Fitting, IInv, TypeOK
<1>3. \A q \in Pieces : entries[q] # u
  BY <1>2, ConstantsAssumption DEF IInv, NoSharedBuffer, Resident
<1>4. Counts(active', bufferCap', InUse')
  BY <1>1, <1>2, <1>3, InsertCounts DEF AcquireReuse
<1>5. active' = active + bufferCap[u]
  BY <1>1 DEF Insert
<1>6. resident - active \in Int /\ Counts(resident - active, bufferCap, recycled)
  BY <1>2 DEF CountedOK
<1>7. Counts(resident - active - bufferCap[u], bufferCap', recycled \ {u})
  BY <1>1, <1>2, <1>6, CountLeaves
<1>8. resident' - active' = resident - active - bufferCap[u]
  BY <1>1, <1>2, <1>5
<1> QED
  BY <1>1, <1>4, <1>7, <1>8 DEF CountedOK

LEMMA AllocateCounts ==
  ASSUME IInv, CountedOK, AcquireAllocate
  PROVE  CountedOK'
<1>1. PICK u \in Buffers \ Live :
         /\ bufferCap' = [bufferCap EXCEPT ![u] = Needed]
         /\ resident' = resident + Needed
         /\ UNCHANGED recycled
         /\ Insert(u, Zeroed)
  BY DEF AcquireAllocate
<1>2. Needed \in Nat /\ active \in Int /\ resident \in Int
  BY ConstantsAssumption DEF AcquireAllocate, IInv, WriterOK, Needed, TypeOK
<1>3. u \notin recycled /\ \A q \in Pieces : entries[q] # u
  BY <1>1 DEF Live
<1>4. bufferCap'[u] = Needed /\ \A v \in Buffers : v # u => bufferCap'[v] = bufferCap[v]
  BY <1>1 DEF IInv, TypeOK
<1>5. \A v \in InUse \cup recycled : bufferCap'[v] = bufferCap[v]
  BY <1>3, <1>4 DEF InUse, Resident, IInv, TypeOK
<1>6. Counts(active', bufferCap', InUse')
  BY <1>1, <1>2, <1>3, <1>4, <1>5, InsertCounts DEF AcquireAllocate
<1>7. active' = active + Needed
  BY <1>1, <1>4 DEF Insert
<1>8. BlocksOf(bufferCap', recycled) = BlocksOf(bufferCap, recycled)
  BY <1>5 DEF BlocksOf
<1>9. resident' - active' = resident - active
  BY <1>1, <1>2, <1>7
<1> QED
  BY <1>1, <1>6, <1>8, <1>9 DEF CountedOK, Counts

LEMMA EvictCounts ==
  ASSUME IInv, CountedOK, AcquireEvict
  PROVE  CountedOK'
<1> DEFINE v == lru[Len(lru)]
<1>1. /\ lru # <<>>
      /\ entries' = [entries EXCEPT ![v] = None]
      /\ active' = active - bufferCap[entries[v]]
      /\ recycled' = recycled \cup {entries[v]}
      /\ UNCHANGED <<resident, bufferCap>>
  BY DEF AcquireEvict, EvictOldest
<1>2. Len(lru) \in 1 .. Len(lru)
  BY <1>1 DEF IInv, TypeOK
<1>3. v \in Pieces /\ Resident(v) /\ entries[v] \in Buffers
  BY <1>2, LruResident DEF IInv
<1> HIDE DEF v
<1>4. InUse' = InUse \ {entries[v]} /\ entries[v] \in InUse /\ entries[v] \notin recycled
  BY <1>1, <1>3, InUseShrinks DEF IInv, InUse, NoSharedBuffer
<1>5. bufferCap[entries[v]] \in Nat /\ active \in Int /\ resident \in Int
  BY <1>3 DEF IInv, TypeOK
<1>6. Counts(active, bufferCap, InUse) /\ Counts(resident - active, bufferCap, recycled)
  BY DEF CountedOK
<1>7. Counts(active', bufferCap', InUse')
  BY <1>1, <1>4, <1>5, <1>6, CountLeaves
<1>8. resident - active \in Int /\ bufferCap'[entries[v]] = bufferCap[entries[v]]
  BY <1>1, <1>5
<1>9. Counts(resident - active + bufferCap'[entries[v]], bufferCap', recycled')
  BY <1>1, <1>4, <1>5, <1>6, <1>8, CountJoins
<1>10. resident' - active' = resident - active + bufferCap'[entries[v]]
  BY <1>1, <1>5
<1> QED
  BY <1>7, <1>9, <1>10 DEF CountedOK

LEMMA DropCounts ==
  ASSUME IInv, CountedOK, AcquireDrop
  PROVE  CountedOK'
<1>1. PICK u \in recycled :
        /\ recycled' = recycled \ {u}
        /\ resident' = resident - bufferCap[u]
        /\ bufferCap' = [bufferCap EXCEPT ![u] = 0]
        /\ UNCHANGED <<entries, active>>
  BY DEF AcquireDrop, Discard
<1>2. u \in Buffers /\ bufferCap[u] \in Nat /\ active \in Int /\ resident \in Int
  BY <1>1 DEF IInv, TypeOK
<1>3. \A w \in Buffers : w # u => bufferCap'[w] = bufferCap[w]
  BY <1>1 DEF IInv, TypeOK
<1>4. \A w \in InUse \cup (recycled \ {u}) : bufferCap'[w] = bufferCap[w]
  BY <1>1, <1>3 DEF InUse, Resident, IInv, TypeOK, NoSharedBuffer
<1>5. InUse' = InUse
  BY <1>1 DEF InUse, Resident
<1>6. BlocksOf(bufferCap', InUse) = BlocksOf(bufferCap, InUse)
  BY <1>4 DEF BlocksOf
<1>7. resident - active \in Int /\ Counts(resident - active, bufferCap, recycled)
  BY <1>2 DEF CountedOK
<1>8. Counts(resident - active - bufferCap[u], bufferCap', recycled')
  BY <1>1, <1>2, <1>4, <1>7, CountLeaves
<1>9. resident' - active' = resident - active - bufferCap[u]
  BY <1>1, <1>2
<1> QED
  BY <1>1, <1>5, <1>6, <1>8, <1>9 DEF CountedOK, Counts

LEMMA DeleteEntryCounts ==
  ASSUME IInv, CountedOK, DeleteEntry
  PROVE  CountedOK'
<1>1. PICK i \in OfDeleted :
        /\ entries' = [entries EXCEPT ![lru[i]] = None]
        /\ active' = active - bufferCap[entries[lru[i]]]
        /\ resident' = resident - bufferCap[entries[lru[i]]]
        /\ bufferCap' = [bufferCap EXCEPT ![entries[lru[i]]] = 0]
        /\ UNCHANGED recycled
  BY DEF DeleteEntry, Discard
<1> DEFINE v == lru[i]
           u == entries[v]
<1>2. v \in Pieces /\ Resident(v) /\ u \in Buffers
  BY <1>1, LruResident DEF IInv, OfDeleted
<1>3. /\ entries' = [entries EXCEPT ![v] = None]
      /\ active' = active - bufferCap[u]
      /\ resident' = resident - bufferCap[u]
      /\ bufferCap' = [bufferCap EXCEPT ![u] = 0]
      /\ UNCHANGED recycled
  BY <1>1
<1> HIDE DEF v
<1>4. InUse' = InUse \ {u} /\ u \in InUse /\ u \notin recycled
  BY <1>2, <1>3, InUseShrinks DEF IInv, InUse, NoSharedBuffer
<1> HIDE DEF u
<1>5. bufferCap[u] \in Nat /\ active \in Int /\ resident \in Int
  BY <1>2 DEF IInv, TypeOK
<1>6. \A w \in Buffers : w # u => bufferCap'[w] = bufferCap[w]
  BY <1>3 DEF IInv, TypeOK
<1>7. \A w \in recycled \cup (InUse \ {u}) : bufferCap'[w] = bufferCap[w]
  BY <1>4, <1>6 DEF InUse, Resident, IInv, TypeOK
<1>8. Counts(active, bufferCap, InUse) /\ Counts(resident - active, bufferCap, recycled)
  BY DEF CountedOK
<1>9. Counts(active', bufferCap', InUse')
  BY <1>3, <1>4, <1>5, <1>7, <1>8, CountLeaves
<1>10. BlocksOf(bufferCap', recycled) = BlocksOf(bufferCap, recycled)
  BY <1>7 DEF BlocksOf
<1>11. resident' - active' = resident - active
  BY <1>3, <1>5
<1> QED
  BY <1>3, <1>8, <1>9, <1>10, <1>11 DEF CountedOK, Counts

\* No other action moves a buffer.
LEMMA NextCounts == IInv /\ CountedOK /\ [Next]_vars => CountedOK'
<1> SUFFICES ASSUME IInv, CountedOK, [Next]_vars PROVE CountedOK'
  OBVIOUS
<1>1. ASSUME UNCHANGED <<entries, recycled, resident, active, bufferCap>>
      PROVE  CountedOK'
  BY <1>1 DEF CountedOK, Counts, BlocksOf, InUse, Resident
<1>2. CASE UNCHANGED vars
  BY <1>1, <1>2 DEF vars
<1>3. ASSUME NEW p \in Pieces,
             \/ HashPiece(p) \/ MarkComplete(p) \/ MarkNotComplete(p) \/ Read(p) \/ ReadMissing(p)
             \/ \E b \in Blocks(p) : WriteHit(p, b) \/ WriteMiss(p, b)
      PROVE  CountedOK'
  BY <1>1, <1>3 DEF HashPiece, MarkComplete, MarkNotComplete, Read, ReadMissing, WriteHit, WriteMiss,
                    cacheVars
<1>4. CASE Acquire
  BY <1>4, ReuseCounts, AllocateCounts, EvictCounts, DropCounts DEF Acquire
<1>5. CASE DeleteEntry
  BY <1>5, DeleteEntryCounts
<1>6. CASE DeleteDone
  BY <1>1, <1>6 DEF DeleteDone
<1>7. ASSUME NEW t \in Torrents, OpenTorrent(t) \/ CloseTorrent(t) \/ DeleteTorrent(t)
      PROVE  CountedOK'
  BY <1>1, <1>7 DEF OpenTorrent, CloseTorrent, DeleteTorrent, cacheVars
<1> QED
  BY <1>2, <1>3, <1>4, <1>5, <1>6, <1>7 DEF Next, Delete

\* The counters of storage.go, updated at five places, never drift from the
\* buffers the cache holds on to: with CapacityRespected, the memory really
\* retained is within the budget.
THEOREM CountersExact == Spec => []AccountingExact
<1>1. Init => CountedOK
  <2> SUFFICES ASSUME Init PROVE CountedOK
    OBVIOUS
  <2>1. InUse = {} /\ recycled = {} /\ active = 0 /\ resident - active = 0
    BY DEF Init, InUse, Resident
  <2>2. BlocksOf(bufferCap, {}) = {}
    BY DEF BlocksOf
  <2> QED
    BY <2>1, <2>2, FS_EmptySet DEF CountedOK, Counts
<1>2. IInv => TypeOK
  BY DEF IInv
<1> QED
  BY <1>1, <1>2, NextCounts, CountedMeansExact, Invariance, PTL DEF Spec
-------------------------------------------------------------------------------
(* Buffers that are kept. *)

Smallest(p) == \A q \in Pieces \ {p} : SizeOf[p] < SizeOf[q]

\* The lengths of the buffers: each was made for some piece, a resident piece fits into
\* its own, and for a piece shorter than all others no second one is ever made.
SizedOK ==
  /\ \A u \in Live : \E q \in Pieces : bufferCap[u] = SizeOf[q]
  /\ \A q \in Pieces : Resident(q) => SizeOf[q] <= bufferCap[entries[q]]
  /\ \A p \in Pieces : Smallest(p) =>
       \A u, v \in Live : bufferCap[u] = SizeOf[p] /\ bufferCap[v] = SizeOf[p] => u = v

\* Buffers that only change owners or go away.
LEMMA FewerStaySized ==
  ASSUME SizedOK, Live' \subseteq Live, \A u \in Live' : bufferCap'[u] = bufferCap[u],
         \A q \in Pieces : Resident(q)' =>
            /\ entries'[q] \in Live'
            /\ (entries'[q] = entries[q] /\ Resident(q)) \/ SizeOf[q] <= bufferCap[entries'[q]]
  PROVE  SizedOK'
<1>1. \A u \in Live' : \E q \in Pieces : bufferCap'[u] = SizeOf[q]
  BY DEF SizedOK
<1>2. \A q \in Pieces : Resident(q)' => SizeOf[q] <= bufferCap'[entries'[q]]
  BY DEF SizedOK
<1>3. \A p \in Pieces : Smallest(p) =>
        \A u, v \in Live' : bufferCap'[u] = SizeOf[p] /\ bufferCap'[v] = SizeOf[p] => u = v
  BY DEF SizedOK
<1> QED
  BY <1>1, <1>2, <1>3 DEF SizedOK, Smallest

\* The buffer of a resident piece is live.
LEMMA ResidentIsLive ==
  ASSUME TypeOK, NEW q \in Pieces, Resident(q)
  PROVE  entries[q] \in Live
BY DEF TypeOK, Resident, Live

LEMMA ReuseKeepsSized ==
  ASSUME IInv, SizedOK, AcquireReuse
  PROVE  SizedOK'
<1>1. PICK u \in BestFit : /\ recycled' = recycled \ {u}
                           /\ UNCHANGED <<resident, bufferCap>>
                           /\ Insert(u, content[u])
  BY DEF AcquireReuse
<1>2. u \in recycled /\ u \in Buffers /\ bufferCap[u] >= SizeOf[mu.piece] /\ bufferCap[u] \in Nat
  BY <1>1 DEF BestFit, Fitting, Needed, IInv, TypeOK
<1>3. mu.piece \in Pieces /\ entries' = [entries EXCEPT ![mu.piece] = u] /\ SizeOf[mu.piece] \in Nat
  BY <1>1, ConstantsAssumption DEF Insert, AcquireReuse, IInv, WriterOK
<1>4. \A q \in Pieces : entries'[q] = IF q = mu.piece THEN u ELSE entries[q]
  BY <1>3 DEF IInv, TypeOK
<1>5. Live' \subseteq Live
  BY <1>1, <1>2, <1>4 DEF Live
<1>6. \A q \in Pieces : Resident(q)' =>
         /\ entries'[q] \in Live'
         /\ (entries'[q] = entries[q] /\ Resident(q)) \/ SizeOf[q] <= bufferCap[entries'[q]]
  BY <1>2, <1>3, <1>4 DEF Live, Resident, IInv, TypeOK
<1> QED
  BY <1>1, <1>5, <1>6, FewerStaySized

\* A buffer is made only when no recycled one is long enough, so that the first
\* one made for the shortest piece stays the only one.
LEMMA AllocateKeepsSized ==
  ASSUME IInv, SizedOK, AcquireAllocate
  PROVE  SizedOK'
<1> DEFINE w == mu.piece
<1>1. PICK u \in Buffers \ Live :
         /\ bufferCap' = [bufferCap EXCEPT ![u] = SizeOf[w]]
         /\ UNCHANGED recycled
         /\ Insert(u, Zeroed)
  BY DEF AcquireAllocate, Needed
<1>2. w \in Pieces /\ ~Resident(w) /\ entries' = [entries EXCEPT ![w] = u]
  BY <1>1 DEF Insert, AcquireAllocate, IInv, WriterOK
<1>3. \A v \in recycled : ~(bufferCap[v] >= SizeOf[w])
  BY DEF AcquireAllocate, Fitting, Needed
<1> HIDE DEF w
<1>4. \A q \in Pieces : entries'[q] = IF q = w THEN u ELSE entries[q]
  BY <1>2 DEF IInv, TypeOK
<1>5. Live' \subseteq Live \cup {u}
  BY <1>1, <1>2, <1>4 DEF Live
<1>6. bufferCap'[u] = SizeOf[w] /\ \A v \in Live : bufferCap'[v] = bufferCap[v]
  BY <1>1 DEF IInv, TypeOK, Live
<1>7. \A v \in Live' : \E q \in Pieces : bufferCap'[v] = SizeOf[q]
  BY <1>2, <1>5, <1>6 DEF SizedOK
<1>8. ASSUME NEW q \in Pieces, Resident(q)'
      PROVE  SizeOf[q] <= bufferCap'[entries'[q]]
  <2>1. CASE q = w
    BY <1>4, <1>6, <2>1, ConstantsAssumption
  <2>2. CASE q # w
    <3>1. Resident(q) /\ entries'[q] = entries[q]
      BY <1>4, <1>8, <2>2 DEF Resident
    <3> QED
      BY <1>6, <3>1, ResidentIsLive DEF SizedOK, IInv
  <2> QED
    BY <2>1, <2>2
<1>9. ASSUME NEW v \in Live, Smallest(w) PROVE bufferCap[v] # SizeOf[w]
  <2>1. CASE v \in recycled
    BY <1>2, <1>3, <2>1, ConstantsAssumption DEF IInv, TypeOK
  <2>2. CASE v \notin recycled
    <3>1. PICK q \in Pieces : entries[q] = v
      BY <2>2 DEF Live
    <3>2. Resident(q) /\ q # w
      BY <1>2, <3>1, ConstantsAssumption DEF Resident, Live
    <3>3. SizeOf[w] < SizeOf[q] /\ SizeOf[q] <= bufferCap[v]
      BY <1>9, <3>1, <3>2 DEF Smallest, SizedOK
    <3>4. SizeOf[w] \in Nat /\ SizeOf[q] \in Nat /\ bufferCap[v] \in Nat
      BY <1>2, ConstantsAssumption DEF IInv, TypeOK, Live
    <3> QED
      BY <3>3, <3>4
  <2> QED
    BY <2>1, <2>2
<1>10. ASSUME NEW p \in Pieces, Smallest(p), NEW x \in Live', NEW y \in Live',
              bufferCap'[x] = SizeOf[p], bufferCap'[y] = SizeOf[p]
       PROVE  x = y
  <2>1. CASE x \in Live /\ y \in Live
    BY <1>6, <1>10, <2>1 DEF SizedOK
  <2>2. CASE x = u \/ y = u
    <3>1. p = w
      <4>1. SizeOf[w] = SizeOf[p]
        BY <1>6, <1>10, <2>2
      <4>2. SizeOf[p] \in Nat
        BY ConstantsAssumption
      <4> QED
        BY <1>2, <1>10, <4>1, <4>2 DEF Smallest
    <3>2. \A v \in Live : bufferCap'[v] # SizeOf[p]
      BY <1>6, <1>9, <1>10, <3>1
    <3> QED
      BY <1>5, <1>10, <3>2
  <2> QED
    BY <1>5, <2>1, <2>2
<1> QED
  BY <1>7, <1>8, <1>10 DEF SizedOK, Smallest

LEMMA EvictKeepsSized ==
  ASSUME IInv, SizedOK, AcquireEvict
  PROVE  SizedOK'
<1> DEFINE v == lru[Len(lru)]
<1>1. /\ lru # <<>>
      /\ entries' = [entries EXCEPT ![v] = None]
      /\ recycled' = recycled \cup {entries[v]}
      /\ UNCHANGED bufferCap
  BY DEF AcquireEvict, EvictOldest
<1>2. Len(lru) \in 1 .. Len(lru)
  BY <1>1 DEF IInv, TypeOK
<1>3. v \in Pieces /\ Resident(v) /\ entries[v] \in Buffers
  BY <1>2, LruResident DEF IInv
<1> HIDE DEF v
<1>4. \A q \in Pieces : entries'[q] = IF q = v THEN None ELSE entries[q]
  BY <1>1, <1>3 DEF IInv, TypeOK
<1>5. Live' \subseteq Live
  BY <1>1, <1>3, <1>4, ConstantsAssumption DEF Live
<1>6. \A q \in Pieces : Resident(q)' =>
         entries'[q] \in Live' /\ entries'[q] = entries[q] /\ Resident(q)
  BY <1>4 DEF Live, Resident, IInv, TypeOK
<1> QED
  BY <1>1, <1>5, <1>6, FewerStaySized

LEMMA DropKeepsSized ==
  ASSUME IInv, SizedOK, AcquireDrop
  PROVE  SizedOK'
<1>1. PICK u \in recycled :
        /\ recycled' = recycled \ {u}
        /\ bufferCap' = [bufferCap EXCEPT ![u] = 0]
        /\ UNCHANGED entries
  BY DEF AcquireDrop, Discard
<1>2. Live' \subseteq Live /\ u \notin Live'
  BY <1>1, ConstantsAssumption DEF Live, IInv, NoSharedBuffer, Resident, TypeOK
<1>3. \A w \in Live' : bufferCap'[w] = bufferCap[w]
  BY <1>1, <1>2 DEF IInv, TypeOK, Live
<1>4. \A q \in Pieces : Resident(q)' =>
         entries'[q] \in Live' /\ entries'[q] = entries[q] /\ Resident(q)
  BY <1>1 DEF Live, Resident, IInv, TypeOK
<1> QED
  BY <1>2, <1>3, <1>4, FewerStaySized

LEMMA DeleteEntryKeepsSized ==
  ASSUME IInv, SizedOK, DeleteEntry
  PROVE  SizedOK'
<1>1. PICK i \in OfDeleted :
        /\ entries' = [entries EXCEPT ![lru[i]] = None]
        /\ bufferCap' = [bufferCap EXCEPT ![entries[lru[i]]] = 0]
        /\ UNCHANGED recycled
  BY DEF DeleteEntry, Discard
<1> DEFINE v == lru[i]
<1>2. v \in Pieces /\ Resident(v) /\ entries[v] \in Buffers
  BY <1>1, LruResident DEF IInv, OfDeleted
<1>3. entries' = [entries EXCEPT ![v] = None] /\ bufferCap' = [bufferCap EXCEPT ![entries[v]] = 0]
  BY <1>1
<1> HIDE DEF v
<1>4. \A q \in Pieces : entries'[q] = IF q = v THEN None ELSE entries[q]
  BY <1>2, <1>3 DEF IInv, TypeOK
<1>5. Live' \subseteq Live /\ entries[v] \notin Live'
  BY <1>1, <1>2, <1>4, ConstantsAssumption DEF Live, IInv, NoSharedBuffer, Resident
<1>6. \A w \in Live' : bufferCap'[w] = bufferCap[w]
  BY <1>3, <1>5 DEF IInv, TypeOK, Live
<1>7. \A q \in Pieces : Resident(q)' =>
         entries'[q] \in Live' /\ entries'[q] = entries[q] /\ Resident(q)
  BY <1>4 DEF Live, Resident, IInv, TypeOK
<1> QED
  BY <1>5, <1>6, <1>7, FewerStaySized

LEMMA NextKeepsSized == IInv /\ SizedOK /\ [Next]_vars => SizedOK'
<1> SUFFICES ASSUME IInv, SizedOK, [Next]_vars PROVE SizedOK'
  OBVIOUS
<1>1. ASSUME UNCHANGED <<entries, recycled, bufferCap>>
      PROVE  SizedOK'
  BY <1>1 DEF SizedOK, Live, Resident, Smallest
<1>2. CASE UNCHANGED vars
  BY <1>1, <1>2 DEF vars
<1>3. ASSUME NEW p \in Pieces,
             \/ HashPiece(p) \/ MarkComplete(p) \/ MarkNotComplete(p) \/ Read(p) \/ ReadMissing(p)
             \/ \E b \in Blocks(p) : WriteHit(p, b) \/ WriteMiss(p, b)
      PROVE  SizedOK'
  BY <1>1, <1>3 DEF HashPiece, MarkComplete, MarkNotComplete, Read, ReadMissing, WriteHit, WriteMiss,
                    cacheVars
<1>4. CASE Acquire
  BY <1>4, ReuseKeepsSized, AllocateKeepsSized, EvictKeepsSized, DropKeepsSized DEF Acquire
<1>5. CASE DeleteEntry
  BY <1>5, DeleteEntryKeepsSized
<1>6. CASE DeleteDone
  BY <1>1, <1>6 DEF DeleteDone
<1>7. ASSUME NEW t \in Torrents, OpenTorrent(t) \/ CloseTorrent(t) \/ DeleteTorrent(t)
      PROVE  SizedOK'
  BY <1>1, <1>7 DEF OpenTorrent, CloseTorrent, DeleteTorrent, cacheVars
<1> QED
  BY <1>2, <1>3, <1>4, <1>5, <1>6, <1>7 DEF Next, Delete

\* Outside of a deletion only the last resort of acquire gives a buffer up.
LEMMA OnlyDropShrinks ==
  ASSUME IInv, [Next]_vars, mu.op # "delete", resident' < resident
  PROVE  AcquireDrop
<1>1. resident \in Int
  BY DEF IInv, TypeOK
<1>2. ~UNCHANGED resident
  BY <1>1
<1>3. ~AcquireAllocate
  <2>1. Acquiring => Needed \in Nat
    BY ConstantsAssumption DEF Needed, IInv, WriterOK
  <2> QED
    BY <1>1, <2>1 DEF AcquireAllocate
<1>4. ASSUME NEW p \in Pieces,
             \/ HashPiece(p) \/ MarkComplete(p) \/ MarkNotComplete(p) \/ Read(p) \/ ReadMissing(p)
             \/ \E b \in Blocks(p) : WriteHit(p, b) \/ WriteMiss(p, b)
      PROVE  FALSE
  BY <1>2, <1>4 DEF HashPiece, MarkComplete, MarkNotComplete, Read, ReadMissing, WriteHit, WriteMiss,
                    cacheVars
<1>5. ASSUME NEW t \in Torrents, OpenTorrent(t) \/ CloseTorrent(t) \/ DeleteTorrent(t)
      PROVE  FALSE
  BY <1>2, <1>5 DEF OpenTorrent, CloseTorrent, DeleteTorrent, cacheVars
<1>6. ~AcquireReuse /\ ~AcquireEvict /\ ~Delete /\ ~UNCHANGED vars
  BY <1>2 DEF AcquireReuse, AcquireEvict, EvictOldest, Delete, DeleteEntry, DeleteDone, vars
<1> QED
  BY <1>3, <1>4, <1>5, <1>6 DEF Next, Acquire

\* With nothing resident and nothing left but buffers too short for the piece,
\* some buffer was made for a shorter piece of another torrent: one made for the
\* torrent's own short piece is alone, and the piece fits beside it.
LEMMA DropIsForOther ==
  ASSUME IInv, CountedOK, SizedOK, AcquireDrop
  PROVE  \E q \in Pieces : TorrentOf[q] # TorrentOf[mu.piece] /\ SizeOf[q] < SizeOf[mu.piece]
<1> DEFINE w == mu.piece
<1>1. PICK u : u \in recycled
  BY DEF AcquireDrop
<1>2. w \in Pieces /\ ~Room /\ lru = <<>>
      /\ \A v \in recycled : ~(bufferCap[v] >= SizeOf[w])
  BY DEF AcquireDrop, Fitting, Needed, IInv, WriterOK
<1>3. resident + SizeOf[w] > Capacity
  <2>1. resident \in Int /\ SizeOf[w] \in Int /\ Capacity \in Int
    BY <1>2, ConstantsAssumption DEF IInv, TypeOK
  <2> QED
    BY <1>2, <2>1 DEF Room, Needed
<1> HIDE DEF w
<1>4. SUFFICES ASSUME \A q \in Pieces : TorrentOf[q] # TorrentOf[w] => ~(SizeOf[q] < SizeOf[w])
               PROVE  FALSE
  BY DEF w
<1>5. active = 0 /\ resident - active = Cardinality(BlocksOf(bufferCap, recycled))
  <2>1. InUse = {}
    BY <1>2 DEF InUse, IInv, LruMatchesEntries
  <2>2. BlocksOf(bufferCap, {}) = {}
    BY DEF BlocksOf
  <2> QED
    BY <2>1, <2>2, FS_EmptySet DEF CountedOK, Counts
<1>6. ASSUME NEW v \in recycled
      PROVE  \E q \in Pieces : /\ bufferCap[v] = SizeOf[q] /\ SizeOf[q] < SizeOf[w]
                               /\ TorrentOf[q] = TorrentOf[w]
  <2>1. PICK q \in Pieces : bufferCap[v] = SizeOf[q]
    BY DEF SizedOK, Live, IInv, TypeOK
  <2>2. SizeOf[q] < SizeOf[w]
    BY <1>2, <2>1, ConstantsAssumption
  <2> QED
    BY <1>4, <2>1, <2>2
<1>7. PICK q \in Pieces : /\ bufferCap[u] = SizeOf[q] /\ SizeOf[q] < SizeOf[w]
                          /\ TorrentOf[q] = TorrentOf[w]
  BY <1>1, <1>6
<1>8. /\ SizeOf[w] + SizeOf[q] <= Capacity
      /\ \A r \in Pieces \ {q} : TorrentOf[r] = TorrentOf[w] => SizeOf[r] = SizeOf[w]
  BY <1>2, <1>7, TorrentAssumption DEF PiecesOf
<1>9. Smallest(q)
  <2> SUFFICES ASSUME NEW r \in Pieces \ {q} PROVE SizeOf[q] < SizeOf[r]
    BY DEF Smallest
  <2>1. SizeOf[r] \in Nat /\ SizeOf[q] \in Nat /\ SizeOf[w] \in Nat
    BY <1>2, ConstantsAssumption
  <2>2. CASE TorrentOf[r] = TorrentOf[w]
    BY <1>7, <1>8, <2>2
  <2>3. CASE TorrentOf[r] # TorrentOf[w]
    BY <1>4, <1>7, <2>1, <2>3
  <2> QED
    BY <2>2, <2>3
<1>10. ASSUME NEW v \in recycled PROVE v = u
  <2>1. PICK s \in Pieces : /\ bufferCap[v] = SizeOf[s] /\ SizeOf[s] < SizeOf[w]
                            /\ TorrentOf[s] = TorrentOf[w]
    BY <1>6
  <2>2. s = q
    BY <1>2, <1>8, <2>1, ConstantsAssumption
  <2> QED
    BY <1>1, <1>7, <1>9, <2>1, <2>2 DEF SizedOK, Live, IInv, TypeOK
<1>11. recycled = {u}
  BY <1>1, <1>10
<1>12. BlocksOf(bufferCap, {u}) = {u} \X (1 .. SizeOf[q])
  BY <1>7 DEF BlocksOf
<1>13. SizeOf[q] \in Nat /\ SizeOf[w] \in Nat /\ Capacity \in Nat /\ resident \in Int
  BY <1>2, ConstantsAssumption DEF IInv, TypeOK
<1>14. resident - active = SizeOf[q]
  BY <1>5, <1>11, <1>12, <1>13, BlocksOfOne
<1>15. resident = SizeOf[q]
  BY <1>5, <1>13, <1>14
<1> QED
  BY <1>3, <1>8, <1>13, <1>15

\* While one torrent plays, or several whose pieces are equally long, its last piece
\* included, the cache that has warmed up allocates nothing more: the comment on pieceCache.
THEOREM WarmCacheKeepsBuffers == Spec => PlaybackKeepsBuffers
<1>1. Init => CountedOK /\ SizedOK
  <2> SUFFICES ASSUME Init PROVE CountedOK /\ SizedOK
    OBVIOUS
  <2>1. InUse = {} /\ recycled = {} /\ active = 0 /\ resident - active = 0
    BY DEF Init, InUse, Resident
  <2>2. BlocksOf(bufferCap, {}) = {}
    BY DEF BlocksOf
  <2>3. Live = {} /\ \A p \in Pieces : ~Resident(p)
    BY <2>1, ConstantsAssumption DEF Live, Resident, Init
  <2> QED
    BY <2>1, <2>2, <2>3, FS_EmptySet DEF CountedOK, Counts, SizedOK
<1>2. IInv /\ CountedOK /\ SizedOK /\ [Next]_vars =>
        [mu.op # "delete" /\ resident' < resident =>
           /\ mu.op = "write"
           /\ \E q \in Pieces : /\ TorrentOf[q] # TorrentOf[mu.piece]
                               /\ SizeOf[q] < SizeOf[mu.piece]]_vars
  <2> SUFFICES ASSUME IInv, CountedOK, SizedOK, [Next]_vars, mu.op # "delete", resident' < resident
               PROVE  /\ mu.op = "write"
                      /\ \E q \in Pieces : /\ TorrentOf[q] # TorrentOf[mu.piece]
                                           /\ SizeOf[q] < SizeOf[mu.piece]
    OBVIOUS
  <2>1. AcquireDrop
    BY OnlyDropShrinks
  <2> QED
    BY <2>1, DropIsForOther DEF AcquireDrop, Acquiring
<1> QED
  BY <1>1, <1>2, NextCounts, NextKeepsSized, Invariance, PTL DEF Spec, PlaybackKeepsBuffers
===============================================================================
