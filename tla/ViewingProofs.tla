----------------------------- MODULE ViewingProofs -----------------------------
(***************************************************************************)
(* Proofs about Viewing, for every list of torrents, any number of videos  *)
(* in each, any resume points, and any number of choices and searches.     *)
(***************************************************************************)
EXTENDS Viewing, SequenceTheorems, WellFoundedInduction, TLAPS

\* A torrent whose files MultiVideo shows has several.
FilesKnown == videodata # None => videodata \in Torrents /\ VideosOf[videodata] > 1

\* The scene that gets the focus back is known before a page or the menu is shown.
CallerKnown ==
  /\ \/ caller \in Callers
     \/ focus \notin {"PlayerPage", "PlayerMenu"} /\ avplay = "idle" /\ ~hideTimer
  /\ focus = "ResumeMenu" => resumedata.caller \in Callers

Typed == TypeOK /\ FilesKnown

-------------------------------------------------------------------------------
(* Types. *)

\* The positions, and the videos and keys of resume points of a torrent.
LEMMA Constants ==
  /\ Duration \in Nat \ {0} /\ 0 \in Times /\ Duration \in Times /\ Times \subseteq Nat
  /\ MaxVideos \in Nat
  /\ \A t \in Torrents : VideosOf[t] \in 0 .. MaxVideos
  /\ \A t \in Torrents, v \in 0 .. MaxVideos : <<t, v>> \in Keys
  /\ \A t \in Torrents : VideosOf[t] <= 1 => <<t, 0>> \in Videos
  /\ \A t \in Torrents : VideosOf[t] > 1 => \A v \in 1 .. VideosOf[t] : <<t, v>> \in Videos
<1>1. Duration \in Nat \ {0} /\ MaxVideos \in Nat /\ VideosOf \in [Torrents -> 0 .. MaxVideos]
  BY PlaybackAssumption
<1>2. 0 \in Times /\ Duration \in Times /\ Times \subseteq Nat
  BY <1>1 DEF Times
<1>3. \A t \in Torrents : VideosOf[t] \in 0 .. MaxVideos
  BY <1>1
<1>4. \A t \in Torrents, v \in 0 .. MaxVideos : <<t, v>> \in Keys
  BY DEF Keys
<1>5. ASSUME NEW t \in Torrents, VideosOf[t] <= 1 PROVE <<t, 0>> \in Videos
  <2>1. ~(VideosOf[t] > 1)
    BY <1>1, <1>3, <1>5
  <2>2. <<t, 0>> \in {t} \X (IF VideosOf[t] > 1 THEN 1 .. VideosOf[t] ELSE {0})
    BY <2>1
  <2> QED
    BY <2>2 DEF Videos
<1>6. ASSUME NEW t \in Torrents, VideosOf[t] > 1, NEW v \in 1 .. VideosOf[t] PROVE <<t, v>> \in Videos
  <2>1. <<t, v>> \in {t} \X (IF VideosOf[t] > 1 THEN 1 .. VideosOf[t] ELSE {0})
    BY <1>6
  <2> QED
    BY <2>1 DEF Videos
<1> QED
  BY <1>1, <1>2, <1>3, <1>4, <1>5, <1>6

LEMMA TimesFacts == Duration \in Nat /\ 0 \in Times /\ Duration \in Times /\ \A t \in Times : t \in Nat
BY PlaybackAssumption DEF Times

LEMMA KeyParts ==
  ASSUME NEW k \in Keys
  PROVE  k[1] \in Torrents /\ k[2] \in 0 .. MaxVideos /\ k = <<k[1], k[2]>>
BY DEF Keys

-------------------------------------------------------------------------------
(* Resume points. *)

LEMMA MinOf ==
  ASSUME NEW I \in SUBSET Nat, I # {}
  PROVE  Min(I) \in I /\ \A j \in I : Min(I) <= j
<1> DEFINE R == OpToRel(<, Nat)
<1>1. IsWellFoundedOn(R, Nat)
  BY NatLessThanWellFounded
<1>2. \A x, y \in Nat : x < y => <<x, y>> \in R
  BY DEF OpToRel
<1> HIDE DEF R
<1>3. \E x \in I : \A y \in I : ~(<<y, x>> \in R)
  BY <1>1, WFMin
<1>4. \E x \in I : \A y \in I : x <= y
  <2>1. PICK x \in I : \A y \in I : ~(<<y, x>> \in R)
    BY <1>3
  <2>2. ASSUME NEW y \in I PROVE x <= y
    <3>1. x \in Nat /\ y \in Nat
      OBVIOUS
    <3>2. ~(y < x)
      BY <1>2, <2>1, <3>1
    <3> QED
      BY <3>1, <3>2
  <2> QED
    BY <2>2
<1> QED
  BY <1>4 DEF Min

LEMMA MinIs ==
  ASSUME NEW I \in SUBSET Nat, NEW m \in I, \A j \in I : m <= j
  PROVE  Min(I) = m
<1>1. Min(I) \in I /\ Min(I) <= m
  BY MinOf
<1>2. m <= Min(I) /\ Min(I) \in Nat /\ m \in Nat
  BY <1>1
<1> QED
  BY <1>1, <1>2

\* What GetResumeTime looks at.
Used(points, key) == {i \in PointsAt(points, key) : points[i].time # 0}

LEMMA UsedIn ==
  ASSUME NEW s \in Seq(Entries), NEW key
  PROVE  Used(s, key) \subseteq 1 .. Len(s) /\ Used(s, key) \in SUBSET Nat
<1>1. DOMAIN s = 1 .. Len(s) /\ Len(s) \in Nat
  BY LenProperties
<1>2. Used(s, key) \subseteq DOMAIN s
  BY DEF Used, PointsAt, PointsOf
<1> QED
  BY <1>1, <1>2

LEMMA EntryTyped ==
  ASSUME NEW s \in Seq(Entries), NEW i \in DOMAIN s
  PROVE  /\ s[i] \in Entries /\ i \in 1 .. Len(s)
         /\ s[i].hash \in Torrents /\ s[i].index \in 0 .. MaxVideos /\ s[i].time \in Times
<1>1. i \in 1 .. Len(s)
  BY LenProperties
<1>2. s[i] \in Entries
  BY <1>1, ElementOfSeq
<1> QED
  BY <1>1, <1>2 DEF Entries

LEMMA TitlesAgree ==
  /\ \A t : SameTitle(t, t)
  /\ \A t, u : SameTitle(t, u) => SameTitle(u, t)
  /\ \A t, u, v : SameTitle(t, u) /\ SameTitle(u, v) => SameTitle(t, v)
BY DEF SameTitle

\* The point that is found: with several files that of the key, and otherwise its
\* index is taken over.
LEMMA FoundPoint ==
  ASSUME saved \in Seq(Entries), NEW key \in Keys, NEW list, Found(list, key) # {},
         NEW p, p = saved[Min(Found(list, key))]
  PROVE  /\ p \in Entries /\ p.time # 0 /\ <<key[1], p.index>> \in Keys
         /\ Point(saved, <<key[1], p.index>>) = p.time
         /\ list # 1 => p.index = key[2]
<1> DEFINE m == Min(Found(list, key))
           k == <<key[1], p.index>>
<1>1. Found(list, key) \subseteq PointsOf(saved, key[1]) /\ Found(list, key) \subseteq DOMAIN saved
  BY DEF Found, PointsAt, PointsOf
<1>2. Found(list, key) \in SUBSET Nat
  BY <1>1, LenProperties
<1>3. m \in Found(list, key) /\ \A j \in Found(list, key) : m <= j
  BY <1>2, MinOf
<1>4. p \in Entries /\ p.index \in 0 .. MaxVideos /\ p.time # 0
  <2>1. m \in DOMAIN saved
    BY <1>1, <1>3
  <2> QED
    BY <1>3, <2>1, EntryTyped DEF Found
<1>5. k \in Keys
  BY <1>4, KeyParts DEF Keys
<1>6. list # 1 => p.index = key[2]
  BY <1>3 DEF Found, PointsAt
<1>7. m \in Used(saved, k)
  BY <1>1, <1>3, <1>4 DEF Used, PointsAt
<1>8. Used(saved, k) \subseteq Found(list, key)
  <2>1. CASE list = 1
    BY <2>1 DEF Used, PointsAt, Found
  <2>2. CASE list # 1
    BY <1>6, <2>2 DEF Used, PointsAt, Found
  <2> QED
    BY <2>1, <2>2
<1>9. Min(Used(saved, k)) = m
  <2> HIDE DEF m, k
  <2>1. Used(saved, k) \in SUBSET Nat /\ \A j \in Used(saved, k) : m <= j
    BY <1>2, <1>3, <1>8
  <2> QED
    BY <1>7, <2>1, MinIs
<1>10. Point(saved, k) = p.time
  BY <1>7, <1>9 DEF Point, Used
<1> QED
  BY <1>4, <1>5, <1>6, <1>10

LEMMA NothingFound ==
  ASSUME NEW key, NEW list, Found(list, key) = {}
  PROVE  Point(saved, key) = 0
<1>1. Used(saved, key) \subseteq Found(list, key)
  BY DEF Used, Found, PointsAt
<1> QED
  BY <1>1 DEF Point, Used

\* A point that is stored already is overwritten, and so is no other.
LEMMA OverwritesPoint ==
  ASSUME saved \in Seq(Entries), resumeKey \in Keys, NEW t \in Times,
         PointsAt(saved, resumeKey) # {}
  PROVE  /\ Saved(t) \in Seq(Entries)
         /\ Point(Saved(t), resumeKey) = t
         /\ \A key \in Keys :
              ~(SameTitle(key[1], resumeKey[1]) /\ key[2] = resumeKey[2])
                => Point(Saved(t), key) = Point(saved, key)
<1> DEFINE same == PointsAt(saved, resumeKey)
           new == [i \in DOMAIN saved |-> IF i \in same THEN [saved[i] EXCEPT !.time = t] ELSE saved[i]]
<1>1. Saved(t) = new /\ DOMAIN new = DOMAIN saved
  BY DEF Saved
<1>2. \A i \in DOMAIN saved :
        /\ new[i] \in Entries /\ new[i].hash = saved[i].hash /\ new[i].index = saved[i].index
        /\ new[i].time = IF i \in same THEN t ELSE saved[i].time
  BY EntryTyped DEF Entries
<1>3. new \in Seq(Entries)
  <2>1. DOMAIN saved = 1 .. Len(saved) /\ Len(saved) \in Nat
    BY LenProperties
  <2>2. new \in [1 .. Len(saved) -> Entries]
    BY <1>2, <2>1
  <2> QED
    BY <2>1, <2>2, SeqDef
<1> HIDE DEF new
<1>4. \A key : PointsAt(new, key) = PointsAt(saved, key)
  BY <1>1, <1>2 DEF PointsAt, PointsOf
<1>5. same \subseteq DOMAIN saved
  BY DEF PointsAt, PointsOf
<1>6. Point(new, resumeKey) = t
  <2>1. Used(new, resumeKey) = {i \in same : t # 0}
    BY <1>2, <1>4, <1>5 DEF Used
  <2>2. CASE t = 0
    <3>1. Used(new, resumeKey) = {}
      BY <2>1, <2>2
    <3> QED
      BY <2>2, <3>1 DEF Point, Used
  <2>3. CASE t # 0
    <3>1. Used(new, resumeKey) = same /\ same # {}
      BY <2>1, <2>3
    <3>2. Min(Used(new, resumeKey)) \in same
      BY <1>3, <3>1, UsedIn, MinOf
    <3>3. new[Min(Used(new, resumeKey))].time = t
      BY <1>2, <1>5, <3>2
    <3> QED
      BY <3>1, <3>3 DEF Point, Used
  <2> QED
    BY <2>2, <2>3
<1>7. ASSUME NEW key \in Keys, ~(SameTitle(key[1], resumeKey[1]) /\ key[2] = resumeKey[2])
      PROVE  Point(new, key) = Point(saved, key)
  <2>1. ASSUME NEW i \in PointsAt(saved, key) PROVE i \notin same
    <3>1. i \in same => SameTitle(key[1], resumeKey[1]) /\ key[2] = resumeKey[2]
      BY <2>1, TitlesAgree DEF PointsAt, PointsOf
    <3> QED
      BY <1>7, <3>1
  <2>2. \A i \in PointsAt(saved, key) : new[i].time = saved[i].time
    <3>1. PointsAt(saved, key) \subseteq DOMAIN saved
      BY DEF PointsAt, PointsOf
    <3> QED
      BY <1>2, <2>1, <3>1
  <2>3. Used(new, key) = Used(saved, key)
    BY <1>4, <2>2 DEF Used
  <2>4. Used(saved, key) # {} => Min(Used(saved, key)) \in PointsAt(saved, key)
    <3>1. Used(saved, key) \subseteq PointsAt(saved, key)
      BY DEF Used
    <3> QED
      BY <3>1, UsedIn, MinOf
  <2> QED
    BY <2>2, <2>3, <2>4 DEF Point, Used
<1> QED
  BY <1>1, <1>3, <1>6, <1>7

\* A new point goes to the end, after all, or all but the oldest, of the others.
LEMMA AppendsPoint ==
  ASSUME saved \in Seq(Entries), resumeKey \in Keys, NEW t \in Times, t # 0,
         PointsAt(saved, resumeKey) = {}, NEW room \in Seq(Entries),
         NEW d \in {0, 1}, Len(room) = Len(saved) - d, \A i \in 1 .. Len(room) : room[i] = saved[i + d],
         NEW e, e = [hash |-> resumeKey[1], index |-> resumeKey[2], time |-> t]
  PROVE  /\ Append(room, e) \in Seq(Entries)
         /\ Point(Append(room, e), resumeKey) = t
         /\ \A key \in Keys :
              \/ SameTitle(key[1], resumeKey[1]) /\ key[2] = resumeKey[2]
              \/ d = 1 /\ 1 \in PointsAt(saved, key)
              \/ Point(Append(room, e), key) = Point(saved, key)
<1> DEFINE new == Append(room, e)
           n == Len(room)
<1>1. n \in Nat /\ Len(saved) = n + d /\ DOMAIN saved = 1 .. n + d
  BY LenProperties
<1>2. e \in Entries /\ e.hash = resumeKey[1] /\ e.index = resumeKey[2] /\ e.time = t
  BY KeyParts DEF Entries
<1>3. /\ new \in Seq(Entries) /\ Len(new) = n + 1 /\ new[n + 1] = e
      /\ \A i \in 1 .. n : new[i] = saved[i + d]
  BY <1>2, AppendProperties
<1>4. DOMAIN new = 1 .. n + 1
  BY <1>3, LenProperties
<1> HIDE DEF new, n
<1>5. Point(new, resumeKey) = t
  <2>1. \A i \in 1 .. n : i \notin Used(new, resumeKey)
    <3> SUFFICES ASSUME NEW i \in 1 .. n, i \in Used(new, resumeKey) PROVE FALSE
      OBVIOUS
    <3>1. i + d \in DOMAIN saved /\ new[i] = saved[i + d]
      <4>1. i + d \in 1 .. n + d
        BY <1>1
      <4> QED
        BY <1>1, <1>3, <4>1
    <3>2. i + d \in PointsAt(saved, resumeKey)
      BY <3>1 DEF Used, PointsAt, PointsOf
    <3> QED
      BY <3>2
  <2>2. n + 1 \in Used(new, resumeKey)
    <3>1. n + 1 \in DOMAIN new
      BY <1>1, <1>4
    <3> QED
      BY <1>2, <1>3, <3>1, TitlesAgree DEF Used, PointsAt, PointsOf
  <2>3. Used(new, resumeKey) = {n + 1}
    <3>1. \A i \in Used(new, resumeKey) : i \in 1 .. n + 1
      BY <1>3, UsedIn
    <3> QED
      BY <1>1, <2>1, <2>2, <3>1
  <2>4. Min(Used(new, resumeKey)) = n + 1
    BY <1>1, <2>3, MinIs
  <2> QED
    BY <1>2, <1>3, <2>2, <2>4 DEF Point, Used
<1>6. ASSUME NEW key \in Keys, ~(SameTitle(key[1], resumeKey[1]) /\ key[2] = resumeKey[2]),
             ~(d = 1 /\ 1 \in PointsAt(saved, key))
      PROVE  Point(new, key) = Point(saved, key)
  <2>1. \A i : i \in Used(new, key) <=> i \in 1 .. n /\ i + d \in Used(saved, key)
    <3>1. ASSUME NEW i \in Used(new, key) PROVE i \in 1 .. n /\ i + d \in Used(saved, key)
      <4>1. i # n + 1
        BY <1>2, <1>3, <1>6, <3>1, TitlesAgree DEF Used, PointsAt, PointsOf
      <4>2. i \in 1 .. n
        BY <1>1, <1>3, <4>1, UsedIn
      <4>3. i + d \in DOMAIN saved /\ new[i] = saved[i + d]
        BY <1>1, <1>3, <4>2
      <4> QED
        BY <3>1, <4>2, <4>3 DEF Used, PointsAt, PointsOf
    <3>2. ASSUME NEW i \in 1 .. n, i + d \in Used(saved, key) PROVE i \in Used(new, key)
      <4>1. i \in DOMAIN new /\ new[i] = saved[i + d]
        BY <1>1, <1>3, <1>4
      <4> QED
        BY <3>2, <4>1 DEF Used, PointsAt, PointsOf
    <3> QED
      BY <3>1, <3>2
  <2>2. \A j \in Used(saved, key) : j - d \in Used(new, key) /\ j \in Nat
    <3> SUFFICES ASSUME NEW j \in Used(saved, key) PROVE j - d \in Used(new, key) /\ j \in Nat
      OBVIOUS
    <3>1. j \in 1 .. n + d
      BY <1>1, UsedIn
    <3>2. ~(d = 1 /\ j = 1)
      BY <1>6 DEF Used
    <3>3. j - d \in 1 .. n /\ (j - d) + d = j
      BY <1>1, <3>1, <3>2
    <3> QED
      BY <2>1, <3>1, <3>3
  <2>3. CASE Used(saved, key) = {}
    <3>1. Used(new, key) = {}
      BY <2>1, <2>3
    <3> QED
      BY <2>3, <3>1 DEF Point, Used
  <2>4. CASE Used(saved, key) # {}
    <3> DEFINE m == Min(Used(saved, key))
    <3>1. m \in Used(saved, key) /\ \A j \in Used(saved, key) : m <= j
      BY <2>4, UsedIn, MinOf
    <3>2. m \in Nat /\ m - d \in Used(new, key) /\ m - d \in 1 .. n
      BY <2>1, <2>2, <3>1
    <3> HIDE DEF m
    <3>3. \A j \in Used(new, key) : m - d <= j
      <4> SUFFICES ASSUME NEW j \in Used(new, key) PROVE m - d <= j
        OBVIOUS
      <4>1. j \in 1 .. n /\ m <= j + d
        BY <2>1, <3>1
      <4> QED
        BY <1>1, <3>2, <4>1
    <3>4. Min(Used(new, key)) = m - d
      BY <1>3, <3>2, <3>3, UsedIn, MinIs
    <3>5. new[m - d] = saved[m]
      <4>1. (m - d) + d = m
        BY <3>2
      <4> QED
        BY <1>3, <3>2, <4>1
    <3> QED
      BY <2>4, <3>2, <3>4, <3>5 DEF Point, Used, m
  <2> QED
    BY <2>3, <2>4
<1> QED
  BY <1>3, <1>5, <1>6 DEF new

\* SaveResumeToLocal: the position is found again, and no other title or file loses
\* its own, unless it is the oldest of too many.
LEMMA SavesPoint ==
  ASSUME saved \in Seq(Entries), resumeKey \in Keys, NEW t \in Times
  PROVE  /\ Saved(t) \in Seq(Entries)
         /\ Point(Saved(t), resumeKey) = t
         /\ \A key \in Keys :
              \/ SameTitle(key[1], resumeKey[1]) /\ key[2] = resumeKey[2]
              \/ Len(saved) >= MaxSaved /\ 1 \in PointsAt(saved, key)
              \/ Point(Saved(t), key) = Point(saved, key)
<1>1. CASE PointsAt(saved, resumeKey) # {}
  BY <1>1, OverwritesPoint
<1>2. CASE PointsAt(saved, resumeKey) = {} /\ t = 0
  <2>1. Saved(t) = saved
    BY <1>2 DEF Saved
  <2>2. Used(saved, resumeKey) = {}
    BY <1>2 DEF Used
  <2>3. Point(saved, resumeKey) = 0
    BY <2>2 DEF Point, Used
  <2> QED
    BY <1>2, <2>1, <2>3
<1>3. CASE PointsAt(saved, resumeKey) = {} /\ t # 0
  <2> DEFINE room == IF Len(saved) < MaxSaved THEN saved ELSE Tail(saved)
             e == [hash |-> resumeKey[1], index |-> resumeKey[2], time |-> t]
  <2>1. Saved(t) = Append(room, e)
    BY <1>3 DEF Saved
  <2>2. Len(saved) \in Nat /\ MaxSaved \in Nat \ {0}
    BY LenProperties, PlaybackAssumption
  <2>3. CASE Len(saved) < MaxSaved
    <3>1. room = saved
      BY <2>3
    <3> QED
      BY <1>3, <2>1, <2>2, <3>1, AppendsPoint
  <2>4. CASE ~(Len(saved) < MaxSaved)
    <3>1. saved # << >>
      BY <2>2, <2>4
    <3>2. /\ room \in Seq(Entries) /\ Len(room) = Len(saved) - 1
          /\ \A i \in 1 .. Len(room) : room[i] = saved[i + 1]
      BY <2>4, <3>1, HeadTailProperties
    <3> HIDE DEF room
    <3>3. Len(saved) >= MaxSaved
      BY <2>2, <2>4
    <3>4. /\ Append(room, e) \in Seq(Entries)
          /\ Point(Append(room, e), resumeKey) = t
          /\ \A key \in Keys :
               \/ SameTitle(key[1], resumeKey[1]) /\ key[2] = resumeKey[2]
               \/ 1 \in PointsAt(saved, key)
               \/ Point(Append(room, e), key) = Point(saved, key)
      BY <1>3, <3>2, AppendsPoint
    <3> QED
      BY <2>1, <3>3, <3>4
  <2> QED
    BY <2>3, <2>4
<1> QED
  BY <1>1, <1>2, <1>3

LEMMA SharedPoint ==
  ASSUME NEW s, NEW k, NEW key, SameTitle(key[1], k[1]), key[2] = k[2]
  PROVE  Point(s, key) = Point(s, k)
<1>1. PointsOf(s, key[1]) = PointsOf(s, k[1])
  BY TitlesAgree DEF PointsOf
<1> QED
  BY <1>1 DEF Point, PointsAt

\* The position that was found is saved again.
LEMMA SavesAgain ==
  ASSUME saved \in Seq(Entries), resumeKey \in Keys, NEW t \in Times, t = Point(saved, resumeKey),
         NEW key \in Keys
  PROVE  Point(Saved(t), key) = Point(saved, key)
<1>1. CASE SameTitle(key[1], resumeKey[1]) /\ key[2] = resumeKey[2]
  <2>1. Point(Saved(t), resumeKey) = t
    BY SavesPoint
  <2> QED
    BY <1>1, <2>1, SharedPoint
<1>2. CASE ~(SameTitle(key[1], resumeKey[1]) /\ key[2] = resumeKey[2])
  <2>1. CASE PointsAt(saved, resumeKey) # {}
    BY <1>2, <2>1, OverwritesPoint
  <2>2. CASE PointsAt(saved, resumeKey) = {}
    <3>1. t = 0
      BY <2>2 DEF Point
    <3> QED
      BY <2>2, <3>1 DEF Saved
  <2> QED
    BY <2>1, <2>2
<1> QED
  BY <1>1, <1>2

-------------------------------------------------------------------------------

\* A new page: handleShow.
LEMMA ShowTyped ==
  ASSUME PlaybackTypeOK, resumeKey' \in Keys, NEW v \in Videos \cup {None}, NEW c \in Callers \cup {None},
         NEW r \in Times, Show(v, c, r)
  PROVE  PlaybackTypeOK'
<1>1. /\ browser' \in BOOLEAN /\ exited' \in BOOLEAN /\ saved' \in Seq(Entries) /\ deletions' \in Nat
      /\ hideTimer' \in BOOLEAN /\ resumetime' \in Times
  BY DEF PlaybackTypeOK, Show
<1>2. /\ focus' \in Scenes /\ resume' \in Times
      /\ shown' \in BOOLEAN /\ caller' \in Callers \cup {None} /\ video' \in Videos \cup {None}
      /\ downloadprogress' \in BOOLEAN /\ isSuccess' \in BOOLEAN /\ tryCount' \in 0 .. 3
      /\ savedresumetime' \in Times /\ totalTime' \in {0, Duration}
  <2>1. /\ focus' = "PlayerPage" /\ resume' = r /\ shown' = TRUE /\ caller' = c /\ video' = v
        /\ downloadprogress' = TRUE /\ isSuccess' = FALSE /\ tryCount' = 0 /\ savedresumetime' = r
        /\ totalTime' \in {0, Duration}
    BY DEF Show
  <2>2. focus' \in Scenes
    BY <2>1 DEF Scenes
  <2>3. shown' \in BOOLEAN /\ downloadprogress' \in BOOLEAN /\ isSuccess' \in BOOLEAN
    BY <2>1
  <2>4. tryCount' \in 0 .. 3
    BY <2>1
  <2> QED
    BY <2>1, <2>2, <2>3, <2>4
<1>3. /\ state' \in {"none", "playing", "paused"} /\ isBuffering' \in BOOLEAN
      /\ avplay' \in {"idle", "playing", "paused"} /\ position' \in Times
      /\ buffering' \in BOOLEAN /\ target' \in Times \cup {None}
  BY Constants DEF Show, PlayVideo
<1> QED
  BY <1>1, <1>2, <1>3 DEF PlaybackTypeOK

\* What PlayMovieUrl does: nothing, ask where to start, or show the page.
LEMMA PlayMovieUrlCases ==
  ASSUME saved \in Seq(Entries), NEW url, NEW list, NEW key \in Keys, PlayMovieUrl(url, list, key),
         NEW from, from = IF list = 1 THEN "HostsMenu" ELSE "MultiVideo"
  PROVE  \/ /\ resumeKey' = key
            /\ UnchangedPlayer /\ UNCHANGED <<focus, resume, deletions, resumedata>>
         \/ /\ focus' = "ResumeMenu" /\ resumedata' = [video |-> url, caller |-> from]
            /\ UnchangedPlayer /\ UNCHANGED deletions
            /\ resumeKey' \in Keys /\ resumeKey'[1] = key[1] /\ (list # 1 => resumeKey' = key)
            /\ resume' # 0 /\ resume' \in Times /\ resume' = Point(saved, resumeKey')
         \/ Show(url, from, 0) /\ resumeKey' = key /\ UNCHANGED resumedata /\ Point(saved, key) = 0
<1>1. CASE url = None \/ ~waiting
  BY <1>1 DEF PlayMovieUrl
<1>2. CASE ~(url = None \/ ~waiting) /\ Found(list, key) = {}
  BY <1>2, NothingFound DEF PlayMovieUrl
<1>3. CASE ~(url = None \/ ~waiting) /\ Found(list, key) # {}
  <2> DEFINE p == saved[Min(Found(list, key))]
  <2>1. /\ focus' = "ResumeMenu" /\ resume' = p.time /\ resumeKey' = <<key[1], p.index>>
        /\ resumedata' = [video |-> url, caller |-> from]
        /\ UnchangedPlayer /\ UNCHANGED deletions
    BY <1>3 DEF PlayMovieUrl
  <2>2. /\ p \in Entries /\ p.time # 0 /\ <<key[1], p.index>> \in Keys
        /\ Point(saved, <<key[1], p.index>>) = p.time
        /\ list # 1 => p.index = key[2]
    BY <1>3, FoundPoint
  <2> HIDE DEF p
  <2>3. p.time \in Times /\ <<key[1], p.index>>[1] = key[1] /\ (list # 1 => <<key[1], p.index>> = key)
    BY <2>2, KeyParts DEF Entries
  <2> QED
    BY <2>1, <2>2, <2>3
<1> QED
  BY <1>1, <1>2, <1>3

LEMMA PlayMovieUrlTyped ==
  ASSUME PlaybackTypeOK, resumedata \in [video : Videos \cup {None}, caller : Callers \cup {None}],
         NEW url \in Videos \cup {None}, NEW list, NEW key \in Keys, PlayMovieUrl(url, list, key)
  PROVE  /\ PlaybackTypeOK'
         /\ resumedata' \in [video : Videos \cup {None}, caller : Callers \cup {None}]
<1> DEFINE from == IF list = 1 THEN "HostsMenu" ELSE "MultiVideo"
<1>1. from \in Callers /\ saved \in Seq(Entries)
  BY DEF Callers, PlaybackTypeOK
<1>2. CASE resumeKey' = key /\ UnchangedPlayer /\ UNCHANGED <<focus, resume, deletions, resumedata>>
  BY <1>2 DEF PlaybackTypeOK, UnchangedPlayer, pageVars, playerVars, avplayVars
<1>3. CASE /\ focus' = "ResumeMenu" /\ resume' \in Times /\ resumeKey' \in Keys
           /\ resumedata' = [video |-> url, caller |-> from]
           /\ UnchangedPlayer /\ UNCHANGED deletions
  BY <1>1, <1>3 DEF PlaybackTypeOK, UnchangedPlayer, pageVars, playerVars, avplayVars, Scenes
<1>4. CASE Show(url, from, 0) /\ resumeKey' = key /\ UNCHANGED resumedata
  BY <1>1, <1>4, ShowTyped, Constants
<1> QED
  BY <1>1, <1>2, <1>3, <1>4, PlayMovieUrlCases

LEMMA PrepareTyped ==
  ASSUME TypeOK, NEW url \in Videos \cup {None}, NEW list, NEW key \in Keys, Prepare(url, list, key)
  PROVE  /\ PlaybackTypeOK'
         /\ resumedata' \in [video : Videos \cup {None}, caller : Callers \cup {None}]
         /\ chains' \in [Chains -> [stage : {"none", "search", "download"}, video : Videos \cup {None}]]
         /\ subtitledata' = None
<1>1. PlaybackTypeOK /\ resumedata \in [video : Videos \cup {None}, caller : Callers \cup {None}]
  BY DEF TypeOK
<1>2. ASSUME NEW c \in Chains, chains' = [chains EXCEPT ![c] = [stage |-> "search", video |-> url]]
      PROVE  chains' \in [Chains -> [stage : {"none", "search", "download"}, video : Videos \cup {None}]]
  BY <1>2 DEF TypeOK
<1>3. CASE workload.subtitles
  BY <1>1, <1>2, <1>3 DEF Prepare, PlaybackTypeOK, UnchangedPlayer, pageVars, playerVars, avplayVars
<1>4. CASE ~workload.subtitles
  <2>1. PlayMovieUrl(url, list, key) /\ UNCHANGED chains /\ subtitledata' = None
    BY <1>4 DEF Prepare
  <2> QED
    BY <1>1, <2>1, PlayMovieUrlTyped DEF TypeOK
<1> QED
  BY <1>3, <1>4

\* Scenes that leave the player alone.
LEMMA ListTyped ==
  ASSUME Typed, workload \in Workloads, UNCHANGED workload,
         ShowList \/ LeaveList \/ DismissFailure \/ ResumeMenuHides \/ LeaveFiles
  PROVE  Typed'
<1>1. CASE ShowList
  <2>1. PlaybackTypeOK'
    BY <1>1 DEF Typed, TypeOK, PlaybackTypeOK, ShowList, FocusList, UnchangedPlayer, pageVars,
                playerVars,
                avplayVars, Scenes, Callers
  <2> QED
    BY <1>1, <2>1 DEF Typed, TypeOK, FilesKnown, ShowList, FocusList, subtitleVars
<1>2. CASE LeaveList
  BY <1>2 DEF Typed, TypeOK, FilesKnown, PlaybackTypeOK, LeaveList, UnchangedPlayer, pageVars,
              playerVars,
              avplayVars, scenesVars, listVars, menuVars, subtitleVars, Scenes
<1>3. CASE DismissFailure
  <2>1. PlaybackTypeOK'
    BY <1>3 DEF Typed, TypeOK, PlaybackTypeOK, DismissFailure, UnchangedPlayer, pageVars,
                playerVars,
                avplayVars, Scenes, Callers
  <2> QED
    BY <1>3, <2>1 DEF Typed, TypeOK, FilesKnown, DismissFailure, menuVars, subtitleVars
<1>4. CASE ResumeMenuHides
  <2>0. focus' \in Scenes /\ deletions' \in Nat
    BY <1>4 DEF Typed, TypeOK, PlaybackTypeOK, ResumeMenuHides, FocusList, Scenes, Callers
  <2>1. PlaybackTypeOK'
    BY <1>4, <2>0 DEF Typed, TypeOK, PlaybackTypeOK, ResumeMenuHides, UnchangedPlayer, pageVars,
                      playerVars,
                avplayVars
  <2>2. waiting' \in BOOLEAN /\ haveMultiVideo' \in BOOLEAN
    BY <1>4 DEF Typed, TypeOK, ResumeMenuHides, FocusList
  <2> QED
    BY <1>4, <2>1, <2>2 DEF Typed, TypeOK, FilesKnown, ResumeMenuHides, subtitleVars
<1>5. CASE LeaveFiles
  <2>1. PlaybackTypeOK'
    BY <1>5 DEF Typed, TypeOK, PlaybackTypeOK, LeaveFiles, FocusList, UnchangedPlayer, pageVars,
                playerVars,
                avplayVars, Scenes, Callers
  <2> QED
    BY <1>5, <2>1 DEF Typed, TypeOK, FilesKnown, LeaveFiles, FocusList, subtitleVars
<1> QED
  BY <1>1, <1>2, <1>3, <1>4, <1>5

LEMMA ChooseTyped ==
  ASSUME Typed, UNCHANGED workload, NEW t \in Torrents, Choose(t)
  PROVE  Typed'
<1>1. <<t, 0>> \in Keys /\ 0 \in Times
  BY Constants
<1>2. choices' \in 0 .. MaxChoices
  <2>1. workload.choices \in 0 .. MaxChoices /\ choices \in 0 .. MaxChoices /\ MaxChoices \in Nat
    BY ViewingAssumption DEF Typed, TypeOK
  <2> QED
    BY <2>1 DEF Choose
<1>3. PlaybackTypeOK'
  BY <1>1 DEF Typed, TypeOK, PlaybackTypeOK, Choose, UnchangedPlayer, pageVars, playerVars,
              avplayVars
<1> QED
  BY <1>2, <1>3 DEF Typed, TypeOK, FilesKnown, Choose, subtitleVars

LEMMA ServerTyped ==
  ASSUME Typed, UNCHANGED workload, ServerStep \/ AddFails \/ AddTimesOut \/ ExitScene
  PROVE  Typed'
<1>1. CASE AddHandled
  <2>1. resumeKey[1] \in Torrents
    BY KeyParts DEF Typed, TypeOK, PlaybackTypeOK
  <2>2. PlaybackTypeOK'
    BY <1>1 DEF Typed, TypeOK, PlaybackTypeOK, AddHandled, UnchangedPlayer, pageVars, playerVars,
                avplayVars
  <2> QED
    BY <1>1, <2>1, <2>2 DEF Typed, TypeOK, FilesKnown, AddHandled, menuVars, subtitleVars
<1>2. CASE DeleteAllHandled
  <2>1. PlaybackTypeOK'
    BY <1>2 DEF Typed, TypeOK, PlaybackTypeOK, DeleteAllHandled, UnchangedPlayer, pageVars,
                playerVars, avplayVars
  <2> QED
    BY <1>2, <2>1 DEF Typed, TypeOK, FilesKnown, DeleteAllHandled, menuVars, subtitleVars
<1>3. ASSUME NEW n \in Nat, CannotPlay(n) PROVE Typed'
  <2>1. PlaybackTypeOK'
    BY <1>3 DEF Typed, TypeOK, PlaybackTypeOK, CannotPlay, UnchangedPlayer, pageVars, playerVars,
                avplayVars
  <2> QED
    BY <1>3, <2>1 DEF Typed, TypeOK, FilesKnown, CannotPlay, menuVars, subtitleVars
<1>4. CASE ExitScene
  BY <1>4 DEF Typed, TypeOK, FilesKnown, PlaybackTypeOK, ExitScene, pageVars, playerVars,
              avplayVars, scenesVars, listVars, menuVars, subtitleVars
<1> QED
  BY <1>1, <1>2, <1>3, <1>4 DEF ServerStep, AddFails, AddTimesOut

LEMMA AddAnsweredTyped ==
  ASSUME Typed, UNCHANGED workload, AddAnswered
  PROVE  Typed'
<1> DEFINE t == resumeKey[1]
<1>1. t \in Torrents /\ VideosOf[t] \in Nat
  BY KeyParts, Constants DEF Typed, TypeOK, PlaybackTypeOK
<1>2. LongestVideo(t) \in Videos \cup {None}
  <2>1. CASE VideosOf[t] = 0
    BY <1>1, <2>1 DEF LongestVideo, Typed, TypeOK
  <2>2. CASE VideosOf[t] = 1
    BY <1>1, <2>2, Constants DEF LongestVideo
  <2>3. CASE VideosOf[t] # 0 /\ VideosOf[t] # 1
    <3>1. VideosOf[t] > 1 /\ 1 \in 1 .. VideosOf[t]
      BY <1>1, <2>3
    <3>2. <<t, 1>> \in Videos
      BY <1>1, <3>1, Constants
    <3> QED
      BY <2>3, <3>2 DEF LongestVideo
  <2> QED
    BY <2>1, <2>2, <2>3
<1>3. /\ adding' = "none" /\ playurl' \in Videos \cup {None} /\ videolist' \in Nat
      /\ UNCHANGED <<waiting, torrents, choices, hasty, startedOver>>
      /\ haveMultiVideo' \in BOOLEAN
  BY <1>1, <1>2 DEF AddAnswered, Typed, TypeOK
<1>4. CASE VideosOf[t] > 1
  <2>1. /\ focus' = "MultiVideo" /\ videodata' = t /\ UnchangedPlayer
        /\ UNCHANGED <<resumeKey, resume, deletions, notorrent, resumedata, subtitleVars>>
    BY <1>4 DEF AddAnswered
  <2>2. PlaybackTypeOK'
    BY <1>3, <2>1 DEF Typed, TypeOK, PlaybackTypeOK, UnchangedPlayer, pageVars, playerVars,
                      avplayVars, Scenes, Callers
  <2> QED
    BY <1>1, <1>3, <1>4, <2>1, <2>2 DEF Typed, TypeOK, FilesKnown, subtitleVars
<1>5. CASE ~(VideosOf[t] > 1)
  <2>1. notorrent' = FALSE /\ Prepare(playurl', videolist', resumeKey) /\ UNCHANGED videodata
    BY <1>5 DEF AddAnswered
  <2>2. resumeKey \in Keys
    BY DEF Typed, TypeOK, PlaybackTypeOK
  <2>3. /\ PlaybackTypeOK'
        /\ resumedata' \in [video : Videos \cup {None}, caller : Callers \cup {None}]
        /\ chains' \in [Chains -> [stage : {"none", "search", "download"}, video : Videos \cup {None}]]
        /\ subtitledata' = None
    BY <1>3, <2>1, <2>2, PrepareTyped DEF Typed
  <2> QED
    BY <1>3, <2>1, <2>3 DEF Typed, TypeOK, FilesKnown
<1> QED
  BY <1>4, <1>5

LEMMA ChooseFileTyped ==
  ASSUME Typed, UNCHANGED workload, NEW v \in 1 .. MaxVideos, ChooseFile(v)
  PROVE  Typed'
<1> DEFINE url == <<videodata, v>>
           key == <<resumeKey[1], v>>
<1>1. url \in Videos /\ key \in Keys
  <2>1. videodata \in Torrents /\ VideosOf[videodata] > 1 /\ v \in 1 .. VideosOf[videodata]
    BY DEF ChooseFile, Typed, FilesKnown
  <2>2. resumeKey[1] \in Torrents /\ v \in 0 .. MaxVideos
    BY KeyParts, Constants DEF Typed, TypeOK, PlaybackTypeOK
  <2> QED
    BY <2>1, <2>2, Constants
<1>2. /\ playurl' = url /\ haveMultiVideo' = workload.subtitles /\ startedOver' = FALSE
      /\ Prepare(url, videolist, key)
      /\ UNCHANGED <<waiting, notorrent, videolist, adding, torrents, choices, videodata>>
  BY DEF ChooseFile
<1>3. hasty' \in BOOLEAN
  BY DEF ChooseFile
<1>4. workload.subtitles \in BOOLEAN
  BY ViewingAssumption DEF Typed, TypeOK
<1> HIDE DEF url, key
<1>5. /\ PlaybackTypeOK'
      /\ resumedata' \in [video : Videos \cup {None}, caller : Callers \cup {None}]
      /\ chains' \in [Chains -> [stage : {"none", "search", "download"}, video : Videos \cup {None}]]
      /\ subtitledata' = None
  BY <1>1, <1>2, PrepareTyped DEF Typed
<1> QED
  BY <1>1, <1>2, <1>3, <1>4, <1>5 DEF Typed, TypeOK, FilesKnown

LEMMA ResumeChosenTyped ==
  ASSUME Typed, UNCHANGED workload, NEW r \in Times, ResumeChosen(r)
  PROVE  Typed'
<1>1. /\ Show(resumedata.video, resumedata.caller, r) /\ startedOver' \in BOOLEAN
      /\ UNCHANGED <<resumeKey, listVars, haveMultiVideo, videodata, resumedata, hasty, subtitleVars>>
  BY DEF ResumeChosen
<1>2. resumedata.video \in Videos \cup {None} /\ resumedata.caller \in Callers \cup {None} /\ resumeKey' \in Keys
  BY <1>1 DEF Typed, TypeOK, PlaybackTypeOK
<1>3. PlaybackTypeOK'
  BY <1>1, <1>2, ShowTyped DEF Typed, TypeOK
<1> QED
  BY <1>1, <1>3 DEF Typed, TypeOK, FilesKnown, listVars, subtitleVars

LEMMA ChainTyped ==
  ASSUME Typed, UNCHANGED workload, NEW c \in Chains, ChainStep(c)
  PROVE  Typed'
<1>1. CASE SearchFinds(c)
  <2>1. PlaybackTypeOK'
    BY <1>1 DEF Typed, TypeOK, PlaybackTypeOK, SearchFinds, UnchangedPlayer, pageVars, playerVars,
                avplayVars
  <2>2. chains' \in [Chains -> [stage : {"none", "search", "download"}, video : Videos \cup {None}]]
    BY <1>1 DEF Typed, TypeOK, SearchFinds
  <2> QED
    BY <1>1, <2>1, <2>2 DEF Typed, TypeOK, FilesKnown, SearchFinds, listVars, menuVars
<1>2. CASE EndChain(c) /\ subtitledata' \in {subtitledata, chains[c].video, None}
  <2>1. /\ chains' = [chains EXCEPT ![c] = Idle]
        /\ PlayMovieUrl(playurl, videolist, resumeKey)
        /\ haveMultiVideo' = FALSE
        /\ UNCHANGED <<listVars, videodata, hasty, startedOver>>
    BY <1>2 DEF EndChain
  <2>2. PlaybackTypeOK' /\ resumedata' \in [video : Videos \cup {None}, caller : Callers \cup {None}]
    <3>1. resumeKey \in Keys /\ playurl \in Videos \cup {None} /\ PlaybackTypeOK
          /\ resumedata \in [video : Videos \cup {None}, caller : Callers \cup {None}]
      BY <2>1 DEF Typed, TypeOK, PlaybackTypeOK
    <3> QED
      BY <2>1, <3>1, PlayMovieUrlTyped
  <2>3. /\ chains' \in [Chains -> [stage : {"none", "search", "download"}, video : Videos \cup {None}]]
        /\ subtitledata' \in Videos \cup {None}
    BY <1>2, <2>1 DEF Typed, TypeOK, Idle
  <2> QED
    BY <2>1, <2>2, <2>3 DEF Typed, TypeOK, FilesKnown, listVars
<1> QED
  BY <1>1, <1>2 DEF ChainStep, SearchFails, DownloadEnds

-------------------------------------------------------------------------------
(* Types on the player page. *)

LEMMA MinOfTwo ==
  ASSUME NEW a \in Nat, NEW b \in Nat
  PROVE  Min({a, b}) \in {a, b} /\ Min({a, b}) <= b
<1>1. \E x \in {a, b} : \A y \in {a, b} : x <= y
  <2>1. CASE a <= b
    BY <2>1
  <2>2. CASE ~(a <= b)
    BY <2>2
  <2> QED
    BY <2>1, <2>2
<1> QED
  BY <1>1 DEF Min

LEMMA StopTimeTyped ==
  ASSUME PlaybackTypeOK
  PROVE  StopTime \in Times
BY TimesFacts DEF PlaybackTypeOK, StopTime

\* What stopVideo leaves of the player.
LEMMA StopVideoTyped ==
  ASSUME PlaybackTypeOK, StopVideo, focus' \in Scenes, shown' \in BOOLEAN, exited' \in BOOLEAN,
         hideTimer' \in BOOLEAN, UNCHANGED <<browser, resumeKey, caller, video>>
  PROVE  PlaybackTypeOK'
<1>1. StopTime \in Times /\ 0 \in Times
  BY StopTimeTyped, TimesFacts
<1>2. /\ resume' \in Times /\ saved' \in Seq(Entries) /\ deletions' \in Nat
      /\ savedresumetime' \in Times /\ resumetime' \in Times /\ totalTime' \in {0, Duration}
  <2>1. Saved(StopTime) \in Seq(Entries)
    BY <1>1, SavesPoint DEF PlaybackTypeOK
  <2> QED
    BY <1>1, <2>1 DEF PlaybackTypeOK, StopVideo
<1>3. /\ downloadprogress' \in BOOLEAN
      /\ state' \in {"none", "playing", "paused"} /\ isSuccess' \in BOOLEAN /\ isBuffering' \in BOOLEAN
      /\ tryCount' \in 0 .. 3
      /\ avplay' \in {"idle", "playing", "paused"} /\ position' \in Times
      /\ buffering' \in BOOLEAN /\ target' \in Times \cup {None}
  <2>1. /\ downloadprogress' = FALSE /\ state' = "none" /\ isSuccess' = FALSE /\ isBuffering' = FALSE
        /\ tryCount' = 0 /\ avplay' = "idle" /\ position' = 0 /\ buffering' = FALSE /\ target' = None
    BY DEF StopVideo
  <2>2. tryCount' \in 0 .. 3
    BY <2>1
  <2> QED
    BY <1>1, <2>1, <2>2
<1>4. browser' \in BOOLEAN /\ resumeKey' \in Keys /\ caller' \in Callers \cup {None} /\ video' \in Videos \cup {None}
  BY DEF PlaybackTypeOK
<1> QED
  BY <1>2, <1>3, <1>4 DEF PlaybackTypeOK

LEMMA FailedTyped ==
  ASSUME PlaybackTypeOK, Failed
  PROVE  PlaybackTypeOK'
<1>1. /\ StopVideo /\ focus' \in Scenes /\ hideTimer' \in BOOLEAN
      /\ UNCHANGED <<browser, exited, resumeKey, shown, caller, video>>
  BY DEF PlaybackTypeOK, Failed, Scenes
<1>2. shown' \in BOOLEAN /\ exited' \in BOOLEAN
  BY <1>1 DEF PlaybackTypeOK
<1> QED
  BY <1>1, <1>2, StopVideoTyped

LEMMA JumpToTyped ==
  ASSUME PlaybackTypeOK, NEW t \in Times, JumpTo(t)
  PROVE  /\ buffering' \in BOOLEAN /\ isBuffering' \in BOOLEAN
         /\ target' \in Times \cup {None} /\ avplay' = "paused"
BY DEF PlaybackTypeOK, JumpTo

LEMMA CallbacksTyped ==
  ASSUME PlaybackTypeOK, CallerKnown, Callbacks
  PROVE  PlaybackTypeOK'
<1>1. CASE BufferingStarts
  BY <1>1 DEF PlaybackTypeOK, BufferingStarts, sharedVars, pageVars
<1>2. CASE BufferingCompletes
  <2>1. /\ buffering' \in BOOLEAN /\ target' \in Times \cup {None} /\ position' \in Times
        /\ avplay' \in {"idle", "playing", "paused"}
        /\ isBuffering' \in BOOLEAN /\ tryCount' \in 0 .. 3
    <3>1. /\ buffering' = FALSE /\ target' = None /\ isBuffering' = FALSE /\ tryCount' = 0
          /\ position' = IF target = None THEN position ELSE target
          /\ avplay' = IF ~browser \/ state = "playing" THEN "playing" ELSE avplay
      BY <1>2 DEF BufferingCompletes
    <3>2. position' \in Times
      BY <3>1 DEF PlaybackTypeOK
    <3>3. tryCount' \in 0 .. 3
      BY <3>1
    <3>4. avplay' \in {"idle", "playing", "paused"}
      BY <3>1 DEF PlaybackTypeOK
    <3> QED
      BY <3>1, <3>2, <3>3, <3>4
  <2>2. isSuccess' \in BOOLEAN /\ savedresumetime' \in Times /\ downloadprogress' \in BOOLEAN
    BY <1>2, TimesFacts DEF PlaybackTypeOK, BufferingCompletes, VideoShown
  <2>3. UNCHANGED <<sharedVars, shown, caller, video, hideTimer, state, resumetime, totalTime>>
    BY <1>2 DEF BufferingCompletes
  <2> QED
    BY <2>1, <2>2, <2>3 DEF PlaybackTypeOK, sharedVars
<1>3. CASE PlaybackTick
  <2>1. /\ position' \in Times /\ resumetime' = position' /\ totalTime' = Duration
        /\ UNCHANGED <<browser, focus, exited, resumeKey, saved, deletions, pageVars, state, isSuccess,
                       tryCount, savedresumetime>>
    BY <1>3 DEF PlaybackTick
  <2>2. /\ resume' \in Times /\ isBuffering' \in BOOLEAN /\ avplay' \in {"idle", "playing", "paused"}
        /\ buffering' \in BOOLEAN /\ target' \in Times \cup {None}
    <3>1. CASE JumpTo(Min({position' + resume, Duration})) /\ resume' = 0
      <4>1. position' + resume \in Nat /\ Duration \in Nat
        <5>1. position' \in Nat /\ resume \in Nat
          BY <2>1, TimesFacts DEF PlaybackTypeOK
        <5>2. Duration \in Nat
          BY TimesFacts
        <5>3. \A a, b \in Nat : a + b \in Nat
          OBVIOUS
        <5> QED
          BY <5>1, <5>2, <5>3
      <4>2. Min({position' + resume, Duration}) \in Times
        <5>1. Min({position' + resume, Duration}) \in Nat /\ Min({position' + resume, Duration}) <= Duration
          <6> DEFINE a == position' + resume
                     b == Duration
          <6>1. a \in Nat /\ b \in Nat
            BY <4>1
          <6> HIDE DEF a, b
          <6>2. Min({a, b}) \in {a, b} /\ Min({a, b}) <= b
            BY <6>1, MinOfTwo
          <6>3. Min({a, b}) \in Nat
            BY <6>1, <6>2
          <6> QED
            BY <6>2, <6>3 DEF a, b
        <5> QED
          BY <4>1, <5>1 DEF Times
      <4> QED
        BY <3>1, <4>2, JumpToTyped, TimesFacts
    <3>2. CASE UNCHANGED <<resume, isBuffering, avplay, buffering, target>>
      BY <3>2 DEF PlaybackTypeOK
    <3> QED
      BY <1>3, <3>1, <3>2 DEF PlaybackTick
  <2> QED
    BY <2>1, <2>2 DEF PlaybackTypeOK, pageVars
<1>4. CASE Completed
  <2>1. StopVideo /\ shown' = FALSE /\ focus' = caller /\ UNCHANGED <<browser, exited, resumeKey, caller, video, hideTimer>>
    BY <1>4 DEF Completed, HidePage
  <2>2. focus' \in Scenes /\ exited' \in BOOLEAN /\ hideTimer' \in BOOLEAN
    BY <1>4, <2>1 DEF Completed, PlaybackTypeOK, Scenes, CallerKnown
  <2> QED
    BY <2>1, <2>2, StopVideoTyped
<1>5. CASE Fails
  BY <1>5, FailedTyped DEF Fails
<1>6. CASE NotFound
  <2>1. CASE Failed
    BY <2>1, FailedTyped
  <2>2. CASE /\ tryCount < 3 /\ PlayVideo /\ tryCount' = tryCount + 1
             /\ totalTime' \in (IF totalTime = 0 THEN {0, Duration} ELSE {totalTime})
             /\ UNCHANGED <<sharedVars, pageVars, isSuccess, savedresumetime, resumetime>>
    <3>1. tryCount' \in 0 .. 3
      BY <2>2 DEF PlaybackTypeOK
    <3>2. /\ state' \in {"none", "playing", "paused"} /\ isBuffering' \in BOOLEAN
          /\ avplay' \in {"idle", "playing", "paused"} /\ position' \in Times
          /\ buffering' \in BOOLEAN /\ target' \in Times \cup {None}
      BY <2>2, TimesFacts DEF PlayVideo
    <3>3. totalTime' \in {0, Duration}
      BY <2>2 DEF PlaybackTypeOK
    <3> QED
      BY <2>2, <3>1, <3>2, <3>3 DEF PlaybackTypeOK, sharedVars, pageVars
  <2> QED
    BY <1>6, <2>1, <2>2 DEF NotFound
<1> QED
  BY <1>1, <1>2, <1>3, <1>4, <1>5, <1>6 DEF Callbacks

LEMMA KeysTyped ==
  ASSUME PlaybackTypeOK, CallerKnown,
         \/ HideTimer \/ Pause \/ Resume \/ StopKey \/ ExitKey \/ HubExit \/ OpenMenu \/ CloseMenu
         \/ \E t \in Times : Seek(t)
  PROVE  PlaybackTypeOK'
<1>1. CASE HideTimer
  <2>1. focus' \in Scenes
    BY <1>1 DEF HideTimer, HidePage, Scenes, CallerKnown
  <2>2. shown' \in BOOLEAN /\ hideTimer' \in BOOLEAN /\ downloadprogress' \in BOOLEAN
        /\ UNCHANGED <<browser, exited, resumeKey, resume, saved, deletions, caller, video, playerVars, avplayVars>>
    BY <1>1 DEF HideTimer, HidePage
  <2> QED
    BY <2>1, <2>2 DEF PlaybackTypeOK, playerVars, avplayVars
<1>2. CASE Pause \/ Resume
  BY <1>2 DEF PlaybackTypeOK, Pause, Resume, sharedVars, pageVars
<1>3. CASE StopKey \/ ExitKey
  <2>1. StopVideo /\ shown' = FALSE /\ focus' = caller /\ UNCHANGED <<browser, resumeKey, caller, video, hideTimer>>
    BY <1>3 DEF StopKey, ExitKey, HidePage
  <2>2. focus' \in Scenes /\ exited' \in BOOLEAN /\ hideTimer' \in BOOLEAN
    BY <1>3, <2>1 DEF StopKey, ExitKey, PlaybackTypeOK, Scenes, CallerKnown
  <2> QED
    BY <2>1, <2>2, StopVideoTyped
<1>4. CASE HubExit
  <2>1. saved' \in Seq(Entries)
    BY <1>4, SavesPoint DEF PlaybackTypeOK, HubExit
  <2> QED
    BY <1>4, <2>1 DEF PlaybackTypeOK, HubExit, pageVars, playerVars, avplayVars
<1>5. CASE OpenMenu \/ CloseMenu
  BY <1>5 DEF PlaybackTypeOK, OpenMenu, CloseMenu, pageVars, playerVars, avplayVars, Scenes
<1>6. ASSUME NEW t \in Times, Seek(t) PROVE PlaybackTypeOK'
  <2>1. /\ buffering' \in BOOLEAN /\ isBuffering' \in BOOLEAN
        /\ target' \in Times \cup {None} /\ avplay' = "paused"
    BY <1>6, JumpToTyped DEF Seek
  <2> QED
    BY <1>6, <2>1 DEF PlaybackTypeOK, Seek, sharedVars, pageVars
<1> QED
  BY <1>1, <1>2, <1>3, <1>4, <1>5, <1>6

-------------------------------------------------------------------------------
(* The invariants that give types. *)

LEMMA PlaybackKeepsCaller ==
  ASSUME PlaybackTypeOK, CallerKnown, PlaybackNext, UNCHANGED resumedata
  PROVE  CallerKnown'
<1>1. caller' = caller
  BY DEF PlaybackNext, Callbacks, BufferingStarts, BufferingCompletes, PlaybackTick, Completed,
         Fails, NotFound,
         Failed, HideTimer, HidePage, Pause, Resume, StopKey, ExitKey, HubExit, OpenMenu, CloseMenu, Seek,
         sharedVars, pageVars, playerVars, avplayVars
<1>2. focus' = "ResumeMenu" => focus = "ResumeMenu" \/ focus' = caller
  BY DEF PlaybackNext, Callbacks, BufferingStarts, BufferingCompletes, PlaybackTick, Completed,
         Fails, NotFound,
         Failed, HideTimer, HidePage, Pause, Resume, StopKey, ExitKey, HubExit, OpenMenu, CloseMenu, Seek,
         sharedVars, pageVars, playerVars, avplayVars
<1>3. CASE caller \in Callers
  <2>1. caller # "ResumeMenu"
    BY <1>3 DEF Callers
  <2> QED
    BY <1>1, <1>2, <1>3, <2>1 DEF CallerKnown
<1>4. CASE focus \notin {"PlayerPage", "PlayerMenu"} /\ avplay = "idle" /\ ~hideTimer
  <2>1. HubExit
    BY <1>4 DEF PlaybackNext, Callbacks, BufferingStarts, BufferingCompletes, PlaybackTick,
                Completed, Fails, NotFound,
                HideTimer, Pause, Resume, StopKey, ExitKey, OpenMenu, CloseMenu, Seek
  <2> QED
    BY <1>4, <2>1 DEF HubExit, CallerKnown, pageVars, avplayVars
<1> QED
  BY <1>3, <1>4 DEF CallerKnown

LEMMA PlayerTyped ==
  ASSUME Typed, CallerKnown, UNCHANGED workload, PlayerStep
  PROVE  Typed' /\ CallerKnown'
<1>1. /\ PlaybackNext
      /\ UNCHANGED <<notorrent, videolist, playurl, adding, torrents, choices, videodata, resumedata,
                     hasty, startedOver, subtitleVars>>
  BY DEF PlayerStep
<1>2. waiting' \in BOOLEAN /\ haveMultiVideo' \in BOOLEAN
  BY DEF PlayerStep, Typed, TypeOK
<1>3. PlaybackTypeOK'
  BY <1>1, CallbacksTyped, KeysTyped DEF PlaybackNext, Typed, TypeOK
<1>4. CallerKnown'
  BY <1>1, PlaybackKeepsCaller DEF Typed, TypeOK
<1> QED
  BY <1>1, <1>2, <1>3, <1>4 DEF Typed, TypeOK, FilesKnown, subtitleVars

\* PlayMovieUrl and Show name the scene to return to.
LEMMA PlayKeepsCaller ==
  ASSUME CallerKnown, NEW url, NEW list, NEW key, PlayMovieUrl(url, list, key)
  PROVE  CallerKnown'
<1> DEFINE from == IF list = 1 THEN "HostsMenu" ELSE "MultiVideo"
<1>1. from \in Callers
  BY DEF Callers
<1>2. CASE UnchangedPlayer /\ UNCHANGED <<focus, resume, deletions, resumedata>>
  BY <1>2 DEF CallerKnown, UnchangedPlayer, pageVars, avplayVars
<1>3. CASE focus' = "ResumeMenu" /\ resumedata' = [video |-> url, caller |-> from] /\ UnchangedPlayer
  BY <1>1, <1>3 DEF CallerKnown, UnchangedPlayer, pageVars, avplayVars
<1>4. CASE Show(url, from, 0)
  BY <1>1, <1>4 DEF CallerKnown, Show
<1> QED
  BY <1>2, <1>3, <1>4 DEF PlayMovieUrl

LEMMA ScenesKeepCaller ==
  ASSUME Typed, CallerKnown, ViewerStep \/ ServerStep \/ AddEnds \/ \E c \in Chains : ChainStep(c)
  PROVE  CallerKnown'
<1>1. ASSUME UnchangedPlayer, UNCHANGED resumedata, focus' \in {focus, "HostsMenu", "InfoPage", "MultiVideo"}
      PROVE  CallerKnown'
  BY <1>1 DEF CallerKnown, UnchangedPlayer, pageVars, avplayVars
<1>2. CASE ShowList \/ LeaveList \/ DismissFailure \/ (\E t \in Torrents : Choose(t)) \/ ResumeMenuHides \/ LeaveFiles
  BY <1>1, <1>2 DEF ShowList, LeaveList, DismissFailure, Choose, ResumeMenuHides, LeaveFiles,
                    FocusList, scenesVars,
                    menuVars
<1>3. CASE ExitScene
  BY <1>3 DEF ExitScene, CallerKnown, pageVars, avplayVars, scenesVars, menuVars
<1>4. ASSUME NEW r, ResumeChosen(r) PROVE CallerKnown'
  <2>1. Show(resumedata.video, resumedata.caller, r) /\ resumedata.caller \in Callers
    BY <1>4 DEF ResumeChosen, CallerKnown
  <2> QED
    BY <2>1 DEF Show, CallerKnown
<1>5. ASSUME NEW url, NEW list, NEW key, Prepare(url, list, key) PROVE CallerKnown'
  BY <1>1, <1>5, PlayKeepsCaller DEF Prepare
<1>6. CASE ServerStep \/ AddFails \/ AddTimesOut
  BY <1>1, <1>6 DEF ServerStep, AddHandled, DeleteAllHandled, AddFails, AddTimesOut, CannotPlay,
                    menuVars
<1>7. CASE AddAnswered
  BY <1>1, <1>5, <1>7 DEF AddAnswered
<1>8. ASSUME NEW v, ChooseFile(v) PROVE CallerKnown'
  BY <1>5, <1>8 DEF ChooseFile
<1>9. ASSUME NEW c \in Chains, ChainStep(c) PROVE CallerKnown'
  BY <1>1, <1>9, PlayKeepsCaller DEF ChainStep, SearchFinds, SearchFails, DownloadEnds, EndChain,
                                     menuVars
<1> QED
  BY <1>2, <1>3, <1>4, <1>6, <1>7, <1>8, <1>9 DEF ViewerStep, AddEnds, Continue, StartOver

TypeInv == Typed /\ CallerKnown

LEMMA TypesKept == TypeInv /\ [Next]_vars => TypeInv'
<1> SUFFICES ASSUME Typed, CallerKnown, [Next]_vars PROVE Typed' /\ CallerKnown'
  BY DEF TypeInv
<1>1. CASE UNCHANGED vars
  BY <1>1 DEF Typed, TypeOK, PlaybackTypeOK, FilesKnown, CallerKnown, vars, playbackVars,
              sharedVars, pageVars,
              playerVars, avplayVars, scenesVars, listVars, menuVars, subtitleVars
<1>2. ASSUME UNCHANGED workload, PlayerStep PROVE Typed' /\ CallerKnown'
  BY <1>2, PlayerTyped
<1>3. ASSUME UNCHANGED workload, ViewerStep \/ ServerStep \/ AddEnds \/ \E c \in Chains : ChainStep(c)
      PROVE  Typed'
  <2>1. workload \in Workloads
    BY DEF Typed, TypeOK
  <2>2. CASE ShowList \/ LeaveList \/ DismissFailure \/ ResumeMenuHides \/ LeaveFiles
    BY <1>3, <2>1, <2>2, ListTyped
  <2>3. ASSUME NEW t \in Torrents, Choose(t) PROVE Typed'
    BY <1>3, <2>3, ChooseTyped
  <2>4. CASE Continue \/ StartOver
    <3>1. resume \in Times /\ 0 \in Times
      BY TimesFacts DEF Typed, TypeOK, PlaybackTypeOK
    <3> QED
      BY <1>3, <2>4, <3>1, ResumeChosenTyped DEF Continue, StartOver
  <2>5. ASSUME NEW v \in 1 .. MaxVideos, ChooseFile(v) PROVE Typed'
    BY <1>3, <2>5, ChooseFileTyped
  <2>6. CASE ServerStep \/ AddFails \/ AddTimesOut \/ ExitScene
    BY <1>3, <2>6, ServerTyped
  <2>7. CASE AddAnswered
    BY <1>3, <2>7, AddAnsweredTyped
  <2>8. ASSUME NEW c \in Chains, ChainStep(c) PROVE Typed'
    BY <1>3, <2>8, ChainTyped
  <2> QED
    BY <1>3, <2>2, <2>3, <2>4, <2>5, <2>6, <2>7, <2>8 DEF ViewerStep, AddEnds
<1> QED
  BY <1>1, <1>2, <1>3, ScenesKeepCaller DEF Next

LEMMA InitTyped == Init => TypeInv
<1> SUFFICES ASSUME Init PROVE TypeInv
  OBVIOUS
<1>1. (CHOOSE t \in Torrents : TRUE) \in Torrents
  BY PlaybackAssumption
<1>2. resumeKey \in Keys
  BY <1>1, Constants DEF Init
<1>3. workload \in Workloads /\ browser \in BOOLEAN /\ saved \in Seq(Entries)
  BY ViewingAssumption DEF Init
<1>4. PlaybackTypeOK
  <2>1. tryCount \in 0 .. 3
    BY DEF Init, PlaybackInit
  <2>2. focus \in Scenes
    BY DEF Init, Scenes
  <2> QED
    BY <1>2, <1>3, <2>1, <2>2, TimesFacts DEF Init, PlaybackInit, PlaybackTypeOK
<1>5. chains \in [Chains -> [stage : {"none", "search", "download"}, video : Videos \cup {None}]]
  BY DEF Init, Idle
<1>6. choices \in 0 .. MaxChoices
  BY ViewingAssumption DEF Init
<1>7. TypeOK
  BY <1>3, <1>4, <1>5, <1>6 DEF Init, TypeOK, NoVideo
<1> QED
  BY <1>7 DEF Init, PlaybackInit, TypeInv, Typed, FilesKnown, CallerKnown

LEMMA TypeInvariance == Spec => []TypeInv
BY InitTyped, TypesKept, PTL DEF Spec

\* Every variable of the scenes and of the player page keeps its type: no position
\* lies outside the video, and no scene is given the focus that does not exist.
THEOREM TypeCorrect == Spec => []TypeOK
<1>1. TypeInv => TypeOK
  BY DEF TypeInv, Typed
<1> QED
  BY <1>1, TypeInvariance, PTL

-------------------------------------------------------------------------------
(* The invariant, as long as the viewer chooses no file while another is     *)
(* prepared.                                                                 *)

Busy(c) == chains[c].stage # "none"
OnPage == focus \in {"PlayerPage", "PlayerMenu"}

\* The scene that waits for a video, which no key can leave.
Preparing ==
  \/ focus = "HostsMenu" /\ waiting
  \/ focus = "MultiVideo" /\ haveMultiVideo

\* The page is shown while it has the focus; AVPlay runs, and an error waits for its
\* timer, only there.
PageOK ==
  /\ shown <=> OnPage
  /\ state # "none" => OnPage
  /\ avplay = "idle" <=> state = "none"
  /\ isSuccess => state # "none"
  /\ hideTimer => OnPage /\ state = "none"

\* One search at a time, for the video that is to be played, and only while a
\* scene waits for it.
ChainsOK ==
  /\ \A c, d \in Chains : Busy(c) /\ Busy(d) => c = d
  /\ \A c \in Chains : Busy(c) => chains[c].video = playurl /\ adding = "none" /\ Preparing

AddingOK == adding # "none" => focus = "HostsMenu" /\ waiting /\ resumeKey[2] = 0

\* The subtitle belongs to the video that is prepared, asked about or shown.
SubtitleOK ==
  /\ OnPage => subtitledata \in {None, video}
  /\ focus = "ResumeMenu" => subtitledata \in {None, resumedata.video}
  /\ \A c \in Chains : Busy(c) => subtitledata \in {None, playurl}

\* What the server downloads is used, or a request to delete it is on its way.
InUse ==
  \/ focus = "HostsMenu" /\ waiting
  \/ focus \in {"MultiVideo", "ResumeMenu"}
  \/ OnPage /\ (caller = "MultiVideo" \/ state # "none")
ReleaseOK == torrents # {} => deletions > 0 \/ InUse

\* Until the video has started, its page and the menu that asks hold the saved position.
ResumeOK ==
  /\ resumetime # 0 => OnPage /\ isSuccess
  /\ OnPage => isSuccess \/ startedOver \/ savedresumetime = Point(saved, resumeKey)
  /\ focus = "ResumeMenu" => resume # 0 /\ resume = Point(saved, resumeKey)

\* The resume point is that of the torrent, and of the file if there are several,
\* unless the torrent has no long video.
Fits(v, key, list) == v[1] = key[1] /\ (list # 1 => v = key)
FromFiles ==
  \/ focus = "MultiVideo"
  \/ focus = "ResumeMenu" /\ resumedata.caller = "MultiVideo"
  \/ OnPage /\ caller = "MultiVideo"
KeyOK ==
  /\ videolist \notin {0, 1} => videodata = resumeKey[1]
  /\ FromFiles => videolist # 1
  /\ videolist # 0 /\ OnPage => Fits(video, resumeKey, videolist)
  /\ videolist # 0 /\ focus = "ResumeMenu" => Fits(resumedata.video, resumeKey, videolist)
  /\ \A c \in Chains : videolist # 0 /\ Busy(c) => playurl = resumeKey

Inv == PageOK /\ ChainsOK /\ AddingOK /\ SubtitleOK /\ ReleaseOK /\ ResumeOK /\ KeyOK

\* A step of the viewer in the lists, the menus, or leaving them.
LEMMA ListKeeps ==
  ASSUME TypeInv, Inv, ShowList \/ LeaveList \/ DismissFailure \/ LeaveFiles
  PROVE  Inv'
<1> USE DEF Inv, PageOK, ChainsOK, AddingOK, SubtitleOK, ReleaseOK, ResumeOK, KeyOK, Busy, OnPage,
            Preparing, InUse, FromFiles
<1>1. CASE ShowList
  BY <1>1 DEF ShowList, FocusList, UnchangedPlayer, pageVars, playerVars, avplayVars, subtitleVars
<1>2. CASE LeaveList
  BY <1>2 DEF LeaveList, UnchangedPlayer, pageVars, playerVars, avplayVars, scenesVars, listVars,
              menuVars, subtitleVars
<1>3. CASE DismissFailure
  BY <1>3 DEF DismissFailure, UnchangedPlayer, pageVars, playerVars, avplayVars, menuVars,
              subtitleVars
<1>4. CASE LeaveFiles
  BY <1>4 DEF LeaveFiles, FocusList, UnchangedPlayer, pageVars, playerVars, avplayVars,
              subtitleVars, TypeInv, Typed, TypeOK, PlaybackTypeOK
<1> QED
  BY <1>1, <1>2, <1>3, <1>4

LEMMA ChooseKeeps ==
  ASSUME TypeInv, Inv, NEW t \in Torrents, Choose(t)
  PROVE  Inv'
<1> USE DEF Inv, PageOK, ChainsOK, AddingOK, SubtitleOK, ReleaseOK, ResumeOK, KeyOK, Busy, OnPage,
            Preparing, InUse, FromFiles
<1> QED
  BY DEF TypeInv, Typed, TypeOK, PlaybackTypeOK, Choose, UnchangedPlayer, pageVars, playerVars,
         avplayVars, subtitleVars

LEMMA ServerKeeps ==
  ASSUME TypeInv, Inv, ServerStep \/ AddFails \/ AddTimesOut
  PROVE  Inv'
<1> USE DEF Inv, PageOK, ChainsOK, AddingOK, SubtitleOK, ReleaseOK, ResumeOK, KeyOK, Busy, OnPage,
            Preparing, InUse, FromFiles
<1>1. CASE AddHandled
  BY <1>1 DEF AddHandled, UnchangedPlayer, pageVars, playerVars, avplayVars, menuVars, subtitleVars
<1>2. CASE DeleteAllHandled
  BY <1>2 DEF DeleteAllHandled, UnchangedPlayer, pageVars, playerVars, avplayVars, menuVars,
              subtitleVars
<1>3. ASSUME NEW n \in {1, 2}, CannotPlay(n), adding # "none" PROVE Inv'
  BY <1>3 DEF TypeInv, Typed, TypeOK, PlaybackTypeOK, CannotPlay, UnchangedPlayer, pageVars,
              playerVars, avplayVars, menuVars, subtitleVars
<1> QED
  BY <1>1, <1>2, <1>3 DEF ServerStep, AddFails, AddTimesOut

\* A page that is shown from a scene without one.
LEMMA ShowKeeps ==
  ASSUME TypeInv, Inv, ~OnPage, NEW v, NEW c, NEW r, Show(v, c, r),
         \A d \in Chains : chains'[d].stage = "none",
         adding' = "none", subtitledata' \in {None, v}, torrents' = torrents,
         resumeKey' \in Keys,
         startedOver' \/ r = Point(saved, resumeKey'),
         videolist' \notin {0, 1} => videodata' = resumeKey'[1],
         c = "MultiVideo" => videolist' # 1,
         videolist' # 0 => Fits(v, resumeKey', videolist')
  PROVE  Inv'
<1>1. /\ focus' = "PlayerPage" /\ resume' = r /\ shown' = TRUE /\ caller' = c /\ video' = v
      /\ isSuccess' = FALSE /\ savedresumetime' = r /\ state' = "playing" /\ avplay' = "playing"
      /\ UNCHANGED <<browser, exited, saved, deletions, hideTimer, resumetime>>
  BY DEF Show, PlayVideo
<1>2. resumetime = 0 /\ ~hideTimer
  BY DEF Inv, ResumeOK, PageOK
<1>3. PageOK'
  BY <1>1, <1>2 DEF PageOK, OnPage
<1>4. ChainsOK' /\ AddingOK'
  BY DEF ChainsOK, AddingOK, Busy
<1>5. SubtitleOK'
  BY <1>1 DEF SubtitleOK, OnPage, Busy
<1>6. ReleaseOK'
  BY <1>1 DEF ReleaseOK, InUse, OnPage
<1>7. ResumeOK'
  BY <1>1, <1>2 DEF ResumeOK, OnPage
<1>8. KeyOK'
  BY <1>1 DEF KeyOK, OnPage, FromFiles, Busy
<1> QED
  BY <1>3, <1>4, <1>5, <1>6, <1>7, <1>8 DEF Inv

\* The menu that asks where to start.
LEMMA AskKeeps ==
  ASSUME TypeInv, Inv, ~OnPage, NEW v, NEW c, UnchangedPlayer,
         focus' = "ResumeMenu", resumedata' = [video |-> v, caller |-> c],
         resume' = Point(saved, resumeKey'), resume' # 0,
         \A d \in Chains : chains'[d].stage = "none",
         adding' = "none", subtitledata' \in {None, v}, torrents' = torrents,
         videolist' \notin {0, 1} => videodata' = resumeKey'[1],
         c = "MultiVideo" => videolist' # 1,
         videolist' # 0 => Fits(v, resumeKey', videolist')
  PROVE  Inv'
<1>1. UNCHANGED <<browser, exited, saved, pageVars, playerVars, avplayVars>>
  BY DEF UnchangedPlayer
<1>2. resumetime = 0 /\ ~hideTimer /\ ~shown /\ state = "none" /\ avplay = "idle" /\ ~isSuccess
  BY DEF Inv, ResumeOK, PageOK
<1>3. PageOK'
  BY <1>1, <1>2 DEF PageOK, OnPage, pageVars, playerVars, avplayVars
<1>4. ChainsOK' /\ AddingOK'
  BY DEF ChainsOK, AddingOK, Busy
<1>5. SubtitleOK'
  BY DEF SubtitleOK, OnPage, Busy
<1>6. ReleaseOK'
  BY DEF ReleaseOK, InUse
<1>7. ResumeOK'
  BY <1>1, <1>2 DEF ResumeOK, OnPage, playerVars
<1>8. KeyOK'
  BY DEF KeyOK, OnPage, FromFiles, Busy
<1> QED
  BY <1>3, <1>4, <1>5, <1>6, <1>7, <1>8 DEF Inv

\* What PlayMovieUrl leads to.
LEMMA PlayKeeps ==
  ASSUME TypeInv, Inv, ~OnPage, NEW url, NEW list, NEW key, PlayMovieUrl(url, list, key),
         key \in Keys, list = videolist',
         \A d \in Chains : chains'[d].stage = "none",
         adding' = "none", subtitledata' \in {None, url}, torrents' = torrents, waiting' = waiting,
         videolist' \notin {0, 1} => videodata' = key[1],
         videolist' # 0 => url = key,
         focus = "MultiVideo" => videolist' # 1,
         focus # "ResumeMenu"
  PROVE  Inv'
<1> DEFINE from == IF list = 1 THEN "HostsMenu" ELSE "MultiVideo"
<1>1. (from = "MultiVideo" => videolist' # 1) /\ saved \in Seq(Entries)
  BY DEF TypeInv, Typed, TypeOK, PlaybackTypeOK
<1>2. CASE /\ resumeKey' = key
           /\ UnchangedPlayer /\ UNCHANGED <<focus, resume, deletions, resumedata>>
  <2>1. PageOK'
    BY <1>2 DEF Inv, PageOK, OnPage, UnchangedPlayer, pageVars, playerVars, avplayVars
  <2>2. ChainsOK' /\ AddingOK'
    BY DEF ChainsOK, AddingOK, Busy
  <2>3. SubtitleOK'
    BY <1>2 DEF SubtitleOK, OnPage, Busy
  <2>4. ReleaseOK'
    BY <1>2 DEF Inv, ReleaseOK, InUse, OnPage
  <2>5. ResumeOK'
    BY <1>2 DEF Inv, ResumeOK, OnPage, UnchangedPlayer, playerVars
  <2>6. KeyOK'
    BY <1>2 DEF KeyOK, OnPage, FromFiles, Busy
  <2> QED
    BY <2>1, <2>2, <2>3, <2>4, <2>5, <2>6 DEF Inv
<1>3. CASE /\ focus' = "ResumeMenu" /\ resumedata' = [video |-> url, caller |-> from]
           /\ UnchangedPlayer
           /\ resumeKey' \in Keys /\ resumeKey'[1] = key[1] /\ (list # 1 => resumeKey' = key)
           /\ resume' # 0 /\ resume' = Point(saved, resumeKey')
  <2>1. videolist' # 0 => Fits(url, resumeKey', videolist')
    BY <1>3 DEF Fits
  <2>2. videolist' \notin {0, 1} => videodata' = resumeKey'[1]
    BY <1>3
  <2> HIDE DEF from
  <2> QED
    BY <1>1, <1>3, <2>1, <2>2, AskKeeps
<1>4. CASE Show(url, from, 0) /\ resumeKey' = key /\ Point(saved, key) = 0
  <2>1. (videolist' # 0 => Fits(url, resumeKey', videolist')) /\ 0 = Point(saved, resumeKey')
    BY <1>4 DEF Fits
  <2> HIDE DEF from
  <2> QED
    BY <1>1, <1>4, <2>1, ShowKeeps
<1> QED
  BY <1>1, <1>2, <1>3, <1>4, PlayMovieUrlCases

\* A video is prepared: its subtitle is looked for, or it is played.
LEMMA PrepareKeeps ==
  ASSUME TypeInv, Inv, ~OnPage, focus # "ResumeMenu",
         NEW url, NEW list, NEW key, Prepare(url, list, key),
         key \in Keys, list = videolist', url = playurl',
         \A d \in Chains : ~Busy(d),
         adding' = "none", torrents' = torrents, waiting' = waiting,
         workload.subtitles => \/ focus = "HostsMenu" /\ waiting
                               \/ focus = "MultiVideo" /\ haveMultiVideo',
         videolist' \notin {0, 1} => videodata' = key[1],
         videolist' # 0 => url = key,
         focus = "MultiVideo" => videolist' # 1
  PROVE  Inv'
<1>1. subtitledata' = None
  BY DEF Prepare
<1>2. CASE ~workload.subtitles
  <2>1. PlayMovieUrl(url, list, key) /\ UNCHANGED chains
    BY <1>2 DEF Prepare
  <2>2. \A d \in Chains : chains'[d].stage = "none"
    BY <2>1 DEF Busy
  <2> QED
    BY <1>1, <2>1, <2>2, PlayKeeps
<1>3. CASE workload.subtitles
  <2>1. resumeKey' = key /\ UnchangedPlayer /\ UNCHANGED <<focus, resume, deletions, resumedata>>
    BY <1>3 DEF Prepare
  <2>2. PICK c \in Chains : chains' = [chains EXCEPT ![c] = [stage |-> "search", video |-> url]]
    BY <1>3 DEF Prepare
  <2>3. chains'[c] = [stage |-> "search", video |-> url]
    BY <2>2 DEF TypeInv, Typed, TypeOK
  <2>4. \A d \in Chains : Busy(d)' => d = c
    BY <2>2 DEF TypeInv, Typed, TypeOK, Busy
  <2>5. PageOK'
    BY <2>1 DEF Inv, PageOK, OnPage, UnchangedPlayer, pageVars, playerVars, avplayVars
  <2>6. ChainsOK' /\ AddingOK'
    BY <1>3, <2>1, <2>3, <2>4 DEF ChainsOK, AddingOK, Preparing
  <2>7. SubtitleOK'
    BY <1>1 DEF SubtitleOK
  <2>8. ReleaseOK'
    BY <2>1 DEF Inv, ReleaseOK, InUse, OnPage
  <2>9. ResumeOK'
    BY <2>1 DEF Inv, ResumeOK, OnPage, UnchangedPlayer, playerVars
  <2>10. KeyOK'
    BY <2>1 DEF KeyOK, OnPage, FromFiles
  <2> QED
    BY <2>5, <2>6, <2>7, <2>8, <2>9, <2>10 DEF Inv
<1> QED
  BY <1>2, <1>3

LEMMA AddAnsweredKeeps ==
  ASSUME TypeInv, Inv, AddAnswered
  PROVE  Inv'
<1> DEFINE t == resumeKey[1]
<1>1. /\ adding' = "none" /\ playurl' = LongestVideo(t) /\ videolist' = VideosOf[t]
      /\ UNCHANGED <<waiting, torrents, choices, hasty, startedOver>>
  BY DEF AddAnswered
<1>2. focus = "HostsMenu" /\ waiting /\ resumeKey[2] = 0 /\ ~OnPage /\ \A d \in Chains : ~Busy(d)
  BY DEF AddAnswered, Inv, AddingOK, ChainsOK, OnPage
<1>3. t \in Torrents /\ VideosOf[t] \in Nat /\ resumeKey \in Keys /\ resumeKey = <<t, 0>>
  <2>1. resumeKey \in Keys
    BY DEF TypeInv, Typed, TypeOK, PlaybackTypeOK
  <2> QED
    BY <1>2, <2>1, KeyParts, Constants
<1>4. CASE VideosOf[t] > 1
  <2>1. /\ focus' = "MultiVideo" /\ videodata' = t /\ UnchangedPlayer
        /\ UNCHANGED <<resumeKey, resume, deletions, notorrent, resumedata, subtitleVars>>
    BY <1>4 DEF AddAnswered
  <2>2. VideosOf[t] \notin {0, 1}
    BY <1>3, <1>4
  <2> HIDE DEF t
  <2>3. PageOK' /\ ResumeOK'
    BY <1>2, <2>1 DEF Inv, PageOK, ResumeOK, OnPage, UnchangedPlayer, pageVars, playerVars,
                      avplayVars
  <2>4. ChainsOK' /\ AddingOK' /\ SubtitleOK'
    BY <1>1, <1>2, <2>1 DEF ChainsOK, AddingOK, SubtitleOK, OnPage, Busy, subtitleVars
  <2>5. ReleaseOK'
    BY <2>1 DEF ReleaseOK, InUse
  <2>6. KeyOK'
    BY <1>1, <1>2, <1>3, <2>1, <2>2 DEF KeyOK, FromFiles, OnPage, Busy, subtitleVars
  <2> QED
    BY <2>3, <2>4, <2>5, <2>6 DEF Inv
<1>5. CASE ~(VideosOf[t] > 1)
  <2>1. Prepare(playurl', videolist', resumeKey)
    BY <1>5 DEF AddAnswered
  <2>2. videolist' \in {0, 1}
    BY <1>1, <1>3, <1>5
  <2>3. videolist' # 0 => playurl' = resumeKey
    BY <1>1, <1>3, <2>2 DEF LongestVideo
  <2>4. torrents' = torrents /\ waiting' = waiting /\ adding' = "none"
    BY <1>1
  <2> QED
    BY <1>2, <1>3, <2>1, <2>2, <2>3, <2>4, PrepareKeeps
<1> QED
  BY <1>4, <1>5

\* A file is chosen: nothing else is being prepared, or the viewer was hasty.
LEMMA ChooseFileKeeps ==
  ASSUME TypeInv, Inv, NEW v \in 1 .. MaxVideos, ChooseFile(v)
  PROVE  hasty' \/ Inv'
<1> DEFINE url == <<videodata, v>>
           key == <<resumeKey[1], v>>
<1>1. CASE haveMultiVideo
  BY <1>1, Zenon DEF ChooseFile
<1>2. CASE ~haveMultiVideo
  <2>1. /\ focus = "MultiVideo" /\ videodata # None
        /\ playurl' = url /\ haveMultiVideo' = workload.subtitles
        /\ Prepare(url, videolist, key)
        /\ UNCHANGED <<waiting, notorrent, videolist, adding, torrents, choices, videodata>>
    BY DEF ChooseFile
  <2>2. adding = "none" /\ ~OnPage /\ \A d \in Chains : ~Busy(d)
    BY <1>2, <2>1 DEF Inv, AddingOK, ChainsOK, OnPage, Preparing
  <2>3. videolist # 1 /\ (videolist # 0 => videodata = resumeKey[1])
    BY <2>1 DEF Inv, KeyOK, FromFiles
  <2>4. key \in Keys /\ key[1] = resumeKey[1]
    BY KeyParts, Constants DEF TypeInv, Typed, TypeOK, PlaybackTypeOK
  <2>5. videolist' # 0 => url = key
    BY <2>1, <2>3
  <2>6. videolist' \notin {0, 1} => videodata' = key[1]
    BY <2>1, <2>3, <2>4
  <2> HIDE DEF url, key
  <2> QED
    BY <2>1, <2>2, <2>3, <2>4, <2>5, <2>6, PrepareKeeps
<1> QED
  BY <1>1, <1>2

\* The menu that asks where to start.
LEMMA ResumeMenuKeeps ==
  ASSUME TypeInv, Inv, Continue \/ StartOver \/ ResumeMenuHides
  PROVE  Inv'
<1>1. focus = "ResumeMenu" /\ ~OnPage /\ adding = "none" /\ \A d \in Chains : ~Busy(d)
  BY DEF Continue, StartOver, ResumeChosen, ResumeMenuHides, Inv, AddingOK, ChainsOK, OnPage,
         Preparing
<1>2. ASSUME NEW r, r = resume \/ r = 0, ResumeChosen(r) PROVE Inv'
  <2>1. /\ Show(resumedata.video, resumedata.caller, r) /\ startedOver' = (r = 0)
        /\ UNCHANGED <<resumeKey, listVars, haveMultiVideo, videodata, resumedata, hasty, subtitleVars>>
    BY <1>2 DEF ResumeChosen
  <2>2. startedOver' \/ r = Point(saved, resumeKey')
    BY <1>1, <1>2, <2>1 DEF Inv, ResumeOK
  <2>3. \A d \in Chains : chains'[d].stage = "none"
    BY <1>1, <2>1 DEF Busy, subtitleVars
  <2>4. adding' = "none" /\ torrents' = torrents /\ resumeKey' \in Keys /\ videolist' = videolist
        /\ videodata' = videodata /\ resumeKey' = resumeKey
    BY <1>1, <2>1 DEF listVars, TypeInv, Typed, TypeOK, PlaybackTypeOK
  <2>5. subtitledata' \in {None, resumedata.video}
    BY <1>1, <2>1 DEF Inv, SubtitleOK, subtitleVars
  <2>6. /\ videolist \notin {0, 1} => videodata = resumeKey[1]
        /\ resumedata.caller = "MultiVideo" => videolist # 1
        /\ videolist # 0 => Fits(resumedata.video, resumeKey, videolist)
    BY <1>1 DEF Inv, KeyOK, FromFiles
  <2> QED
    BY <1>1, <2>1, <2>2, <2>3, <2>4, <2>5, <2>6, ShowKeeps
<1>3. CASE ResumeMenuHides
  <2>1. /\ UnchangedPlayer
        /\ UNCHANGED <<resumeKey, resume, notorrent, videolist, playurl, adding, torrents, choices,
                       videodata, resumedata, hasty, startedOver, subtitleVars>>
        /\ focus' \in {"HostsMenu", "MultiVideo"}
        /\ focus' = "HostsMenu" => deletions' = deletions + 1
        /\ focus' = "MultiVideo" => resumedata.caller # "HostsMenu"
    BY <1>3 DEF ResumeMenuHides, FocusList
  <2>2. resumedata.caller \in Callers /\ deletions \in Nat
    BY <1>1 DEF TypeInv, CallerKnown, Typed, TypeOK, PlaybackTypeOK
  <2>3. PageOK' /\ ResumeOK'
    BY <1>1, <2>1 DEF Inv, PageOK, ResumeOK, OnPage, UnchangedPlayer, pageVars, playerVars,
                      avplayVars
  <2>4. ChainsOK' /\ AddingOK' /\ SubtitleOK'
    BY <1>1, <2>1 DEF ChainsOK, AddingOK, SubtitleOK, OnPage, Busy, subtitleVars
  <2>5. ReleaseOK'
    BY <2>1, <2>2 DEF ReleaseOK, InUse
  <2>6. KeyOK'
    BY <1>1, <2>1, <2>2 DEF Inv, KeyOK, FromFiles, OnPage, Busy, subtitleVars, Callers
  <2> QED
    BY <2>3, <2>4, <2>5, <2>6 DEF Inv
<1> QED
  BY <1>2, <1>3 DEF Continue, StartOver

\* A search or a download of a subtitle: the scene that waits plays the video.
LEMMA ChainKeeps ==
  ASSUME TypeInv, Inv, NEW c \in Chains, ChainStep(c)
  PROVE  Inv'
<1>1. Busy(c)
  BY DEF ChainStep, SearchFinds, SearchFails, DownloadEnds, Busy
<1>2. /\ chains[c].video = playurl /\ adding = "none" /\ Preparing
      /\ \A d \in Chains : Busy(d) => d = c
      /\ ~OnPage /\ focus # "ResumeMenu"
  BY <1>1 DEF Inv, ChainsOK, Preparing, OnPage
<1>3. CASE SearchFinds(c)
  <2>1. /\ UnchangedPlayer
        /\ UNCHANGED <<focus, resumeKey, resume, deletions, listVars, menuVars, subtitledata>>
        /\ chains' = [chains EXCEPT ![c].stage = "download"]
    BY <1>3 DEF SearchFinds
  <2>2. \A d \in Chains : Busy(d)' => d = c
    BY <1>2, <2>1 DEF TypeInv, Typed, TypeOK, Busy
  <2>3. chains'[c].video = playurl
    BY <1>2, <2>1 DEF TypeInv, Typed, TypeOK
  <2>4. PageOK' /\ ResumeOK'
    BY <2>1 DEF Inv, PageOK, ResumeOK, OnPage, UnchangedPlayer, pageVars, playerVars, avplayVars,
                menuVars
  <2>5. ChainsOK' /\ AddingOK'
    BY <1>2, <2>1, <2>2, <2>3 DEF Inv, ChainsOK, AddingOK, Preparing, listVars, menuVars
  <2>6. SubtitleOK'
    BY <1>1, <1>2, <2>1, <2>2 DEF Inv, SubtitleOK, OnPage, listVars, menuVars
  <2>7. ReleaseOK'
    BY <2>1 DEF Inv, ReleaseOK, InUse, OnPage, UnchangedPlayer, pageVars, playerVars, listVars
  <2>8. KeyOK'
    BY <1>1, <1>2, <2>1, <2>2 DEF Inv, KeyOK, FromFiles, OnPage, UnchangedPlayer, pageVars,
                                  listVars, menuVars
  <2> QED
    BY <2>4, <2>5, <2>6, <2>7, <2>8 DEF Inv
<1>4. CASE EndChain(c) /\ subtitledata' \in {subtitledata, chains[c].video, None}
  <2>1. /\ chains' = [chains EXCEPT ![c] = Idle]
        /\ PlayMovieUrl(playurl, videolist, resumeKey)
        /\ UNCHANGED <<listVars, videodata, hasty, startedOver>>
    BY <1>4 DEF EndChain
  <2>2. \A d \in Chains : chains'[d].stage = "none"
    BY <1>2, <2>1 DEF TypeInv, Typed, TypeOK, Busy, Idle
  <2>3. subtitledata' \in {None, playurl}
    BY <1>1, <1>2, <1>4 DEF Inv, SubtitleOK
  <2>4. /\ videolist \notin {0, 1} => videodata = resumeKey[1]
        /\ videolist # 0 => playurl = resumeKey
        /\ focus = "MultiVideo" => videolist # 1
    BY <1>1 DEF Inv, KeyOK, FromFiles
  <2>5. resumeKey \in Keys /\ videolist' = videolist /\ videodata' = videodata
        /\ adding' = "none" /\ torrents' = torrents /\ waiting' = waiting
    BY <1>2, <2>1 DEF TypeInv, Typed, TypeOK, PlaybackTypeOK, listVars
  <2> QED
    BY <1>2, <2>1, <2>2, <2>3, <2>4, <2>5, PlayKeeps
<1> QED
  BY <1>3, <1>4 DEF ChainStep, SearchFails, DownloadEnds


-------------------------------------------------------------------------------
(* The player page. *)

\* Steps that leave the video running, or retry it, on the page.
LEMMA QuietKeeps ==
  ASSUME TypeInv, Inv, OnPage, focus' \in {"PlayerPage", "PlayerMenu"},
         UNCHANGED <<resumeKey, saved, deletions, shown, caller, video, hideTimer>>,
         UNCHANGED <<videolist, playurl, adding, torrents, videodata, resumedata, startedOver, subtitleVars>>,
         state' # "none" <=> state # "none",
         avplay' = "idle" <=> state' = "none",
         isSuccess => isSuccess', isSuccess' => state' # "none",
         isSuccess' \/ savedresumetime' = savedresumetime,
         resumetime' = resumetime \/ isSuccess'
  PROVE  Inv'
<1>1. adding = "none" /\ \A d \in Chains : ~Busy(d)
  BY DEF Inv, AddingOK, ChainsOK, OnPage, Preparing
<1>2. PageOK'
  BY DEF Inv, PageOK, OnPage
<1>3. ChainsOK' /\ AddingOK' /\ SubtitleOK'
  BY <1>1 DEF Inv, ChainsOK, AddingOK, SubtitleOK, OnPage, Busy, subtitleVars
<1>4. ReleaseOK'
  BY DEF Inv, ReleaseOK, InUse, OnPage
<1>5. ResumeOK'
  BY DEF Inv, ResumeOK, OnPage
<1>6. KeyOK'
  BY <1>1 DEF Inv, KeyOK, FromFiles, OnPage, Busy, subtitleVars
<1> QED
  BY <1>2, <1>3, <1>4, <1>5, <1>6 DEF Inv

\* stopVideo saves the position it keeps, and the torrent is let go unless the
\* viewer returns to its files.
LEMMA StopVideoSaves ==
  ASSUME TypeInv, StopVideo
  PROVE  /\ saved' = Saved(StopTime) /\ StopTime \in Times
         /\ Point(saved', resumeKey) = StopTime /\ savedresumetime' = StopTime /\ resumetime' = 0
         /\ state' = "none" /\ avplay' = "idle" /\ isSuccess' = FALSE
         /\ caller # "MultiVideo" => deletions' > 0
<1>1. PlaybackTypeOK /\ saved \in Seq(Entries) /\ resumeKey \in Keys /\ deletions \in Nat
  BY DEF TypeInv, Typed, TypeOK, PlaybackTypeOK
<1>2. StopTime \in Times
  BY <1>1, StopTimeTyped
<1>3. Point(Saved(StopTime), resumeKey) = StopTime
  BY <1>1, <1>2, SavesPoint
<1>4. caller # "MultiVideo" => deletions' > 0
  BY <1>1 DEF StopVideo
<1> QED
  BY <1>2, <1>3, <1>4 DEF StopVideo

\* An error: the page waits for the timer that hides it.
LEMMA FailedKeeps ==
  ASSUME TypeInv, Inv, OnPage, Failed,
         UNCHANGED <<videolist, playurl, adding, torrents, videodata, resumedata, startedOver, subtitleVars>>
  PROVE  Inv'
<1>1. adding = "none" /\ \A d \in Chains : ~Busy(d)
  BY DEF Inv, AddingOK, ChainsOK, OnPage, Preparing
<1>2. /\ Point(saved', resumeKey) = savedresumetime' /\ resumetime' = 0
      /\ state' = "none" /\ avplay' = "idle" /\ isSuccess' = FALSE
      /\ caller # "MultiVideo" => deletions' > 0
      /\ focus' = "PlayerPage" /\ hideTimer' = TRUE
      /\ UNCHANGED <<resumeKey, shown, caller, video>>
  BY StopVideoSaves DEF Failed, OnPage
<1>3. PageOK'
  BY <1>2 DEF Inv, PageOK, OnPage
<1>4. ChainsOK' /\ AddingOK' /\ SubtitleOK'
  BY <1>1, <1>2 DEF Inv, ChainsOK, AddingOK, SubtitleOK, OnPage, Busy, subtitleVars
<1>5. ReleaseOK'
  BY <1>2 DEF ReleaseOK, InUse, OnPage
<1>6. ResumeOK'
  BY <1>2 DEF ResumeOK, OnPage
<1>7. KeyOK'
  BY <1>1, <1>2 DEF Inv, KeyOK, FromFiles, OnPage, Busy, subtitleVars
<1> QED
  BY <1>3, <1>4, <1>5, <1>6, <1>7 DEF Inv

\* The page is hidden, once the video has stopped.
LEMMA HideKeeps ==
  ASSUME TypeInv, Inv, OnPage, shown' = FALSE, focus' = caller, hideTimer' = FALSE,
         state' = "none", avplay' = "idle", isSuccess' = FALSE, resumetime' = 0,
         UNCHANGED <<resumeKey, caller, video>>,
         caller = "MultiVideo" \/ torrents = {} \/ deletions' > 0,
         UNCHANGED <<videolist, playurl, adding, torrents, videodata, resumedata, startedOver, subtitleVars>>
  PROVE  Inv'
<1>1. adding = "none" /\ \A d \in Chains : ~Busy(d)
  BY DEF Inv, AddingOK, ChainsOK, OnPage, Preparing
<1>2. focus' \in {"HostsMenu", "MultiVideo"}
  BY DEF TypeInv, CallerKnown, OnPage, Callers
<1>3. PageOK' /\ ResumeOK'
  BY <1>2 DEF PageOK, ResumeOK, OnPage
<1>4. ChainsOK' /\ AddingOK' /\ SubtitleOK'
  BY <1>1, <1>2 DEF Inv, ChainsOK, AddingOK, SubtitleOK, OnPage, Busy, subtitleVars
<1>5. ReleaseOK'
  BY <1>2 DEF ReleaseOK, InUse
<1>6. KeyOK'
  BY <1>1, <1>2 DEF Inv, KeyOK, FromFiles, OnPage, Busy, subtitleVars
<1> QED
  BY <1>3, <1>4, <1>5, <1>6 DEF Inv

LEMMA PlayerKeeps ==
  ASSUME TypeInv, Inv, PlayerStep
  PROVE  exited' \/ Inv'
<1>1. UNCHANGED <<videolist, playurl, adding, torrents, videodata, resumedata, startedOver, subtitleVars>>
  BY DEF PlayerStep
<1>2. avplay # "idle" => OnPage /\ state # "none"
  BY DEF Inv, PageOK
<1>3. isSuccess => OnPage /\ state # "none" /\ avplay # "idle"
  BY DEF Inv, PageOK
<1>4. CASE BufferingStarts
  <2>1. OnPage /\ focus' = focus
    BY <1>2, <1>4 DEF BufferingStarts, sharedVars
  <2> QED
    BY <1>1, <1>2, <1>4, <2>1, <1>3, QuietKeeps DEF BufferingStarts, sharedVars, pageVars, OnPage
<1>5. CASE BufferingCompletes
  <2>1. OnPage /\ focus' = focus /\ state # "none" /\ state' = state /\ avplay' # "idle"
    BY <1>2, <1>5 DEF BufferingCompletes, sharedVars
  <2>2. isSuccess' = TRUE \/ UNCHANGED <<isSuccess, savedresumetime>>
    BY <1>5 DEF BufferingCompletes, VideoShown
  <2>3. UNCHANGED <<resumeKey, saved, deletions, shown, caller, video, hideTimer, resumetime>>
    BY <1>5 DEF BufferingCompletes, sharedVars
  <2> QED
    BY <1>1, <2>1, <2>2, <2>3, QuietKeeps DEF OnPage
<1>6. CASE PlaybackTick
  <2>1. /\ isSuccess /\ isSuccess' = isSuccess /\ state' = state /\ focus' = focus
        /\ UNCHANGED <<resumeKey, saved, deletions, shown, caller, video, hideTimer>>
        /\ avplay' # "idle"
    BY <1>6 DEF PlaybackTick, JumpTo, pageVars
  <2> QED
    BY <1>1, <1>3, <2>1, QuietKeeps DEF OnPage
<1>7. CASE Pause \/ Resume \/ \E t \in Times : Seek(t)
  <2>1. /\ isSuccess /\ isSuccess' = isSuccess /\ state' # "none" /\ focus' = focus
        /\ UNCHANGED <<resumeKey, saved, deletions, shown, caller, video, hideTimer>>
        /\ avplay' # "idle"
    BY <1>3, <1>7 DEF Pause, Resume, Seek, JumpTo, pageVars, sharedVars
  <2> QED
    BY <1>1, <1>3, <2>1, QuietKeeps DEF OnPage
<1>8. CASE OpenMenu \/ CloseMenu
  <2>1. /\ OnPage /\ focus' \in {"PlayerPage", "PlayerMenu"}
        /\ UNCHANGED <<resumeKey, saved, deletions, pageVars, playerVars, avplayVars>>
    BY <1>8 DEF OpenMenu, CloseMenu, OnPage
  <2>2. (avplay = "idle" <=> state = "none") /\ (isSuccess => state # "none")
    BY DEF Inv, PageOK
  <2> QED
    BY <1>1, <2>1, <2>2, QuietKeeps DEF pageVars, playerVars, avplayVars
<1>9. CASE NotFound /\ tryCount < 3
  <2>1. /\ avplay # "idle" /\ ~isSuccess /\ PlayVideo
        /\ UNCHANGED <<sharedVars, pageVars, isSuccess, savedresumetime, resumetime>>
    BY <1>9 DEF NotFound
  <2> QED
    BY <1>1, <1>2, <2>1, QuietKeeps DEF PlayVideo, sharedVars, pageVars, OnPage
<1>10. CASE Fails \/ (NotFound /\ ~(tryCount < 3))
  BY <1>1, <1>2, <1>10, FailedKeeps DEF Fails, NotFound
<1>11. CASE StopKey \/ Completed
  <2>1. /\ StopVideo /\ shown' = FALSE /\ focus' = caller /\ UNCHANGED <<exited, resumeKey, caller, video, hideTimer>>
        /\ OnPage /\ state # "none"
    BY <1>2, <1>11 DEF StopKey, Completed, HidePage, OnPage
  <2>2. hideTimer' = FALSE
    BY <2>1 DEF Inv, PageOK, TypeInv, Typed, TypeOK, PlaybackTypeOK
  <2> QED
    BY <1>1, <2>1, <2>2, StopVideoSaves, HideKeeps
<1>12. CASE HideTimer
  <2>1. /\ hideTimer' = FALSE /\ shown' = FALSE /\ focus' = caller
        /\ UNCHANGED <<resumeKey, deletions, caller, video, playerVars, avplayVars>>
    BY <1>12 DEF HideTimer, HidePage
  <2>2. OnPage /\ state = "none" /\ avplay = "idle" /\ isSuccess = FALSE /\ resumetime = 0
    BY <1>12 DEF HideTimer, Inv, PageOK, ResumeOK, TypeInv, Typed, TypeOK, PlaybackTypeOK
  <2>3. caller = "MultiVideo" \/ torrents = {} \/ deletions > 0
    BY <2>2 DEF Inv, ReleaseOK, InUse, OnPage
  <2> QED
    BY <1>1, <2>1, <2>2, <2>3, HideKeeps DEF playerVars, avplayVars
<1>13. CASE ExitKey \/ HubExit
  BY <1>13 DEF ExitKey, HubExit
<1> QED
  BY <1>4, <1>5, <1>6, <1>7, <1>8, <1>9, <1>10, <1>11, <1>12, <1>13 DEF PlayerStep, PlaybackNext,
                                                                        Callbacks


-------------------------------------------------------------------------------
(* What the viewer is promised. *)

\* Once the widget is left, its page stays as it is.
Safe == hasty \/ (IF exited THEN SubtitleFitsVideo ELSE Inv)

LEMMA InvImplies == Inv => SubtitleFitsVideo /\ TorrentReleased
BY DEF Inv, PageOK, SubtitleOK, ReleaseOK, InUse, OnPage, SubtitleFitsVideo, TorrentReleased

\* A hasty choice is not taken back.
LEMMA HastyStays == TypeInv /\ hasty /\ [Next]_vars => hasty'
<1> SUFFICES ASSUME hasty, [Next]_vars, TypeInv PROVE hasty'
  OBVIOUS
<1>1. hasty = TRUE
  BY DEF TypeInv, Typed, TypeOK
<1>2. CASE UNCHANGED <<hasty>>
  BY <1>1, <1>2
<1>3. ASSUME NEW v, ChooseFile(v) PROVE hasty'
  BY <1>3, Zenon DEF ChooseFile
<1>4. CASE UNCHANGED vars
  BY <1>2, <1>4 DEF vars, scenesVars, menuVars
<1>5. CASE PlayerStep
  BY <1>2, <1>5 DEF PlayerStep
<1>6. CASE ShowList \/ LeaveList \/ DismissFailure \/ (\E t \in Torrents : Choose(t))
  BY <1>2, <1>6 DEF ShowList, LeaveList, DismissFailure, Choose, scenesVars, menuVars
<1>7. CASE Continue \/ StartOver \/ ResumeMenuHides \/ LeaveFiles \/ ExitScene
  BY <1>2, <1>7 DEF Continue, StartOver, ResumeChosen, ResumeMenuHides, LeaveFiles, ExitScene,
                    scenesVars, menuVars
<1>8. CASE ServerStep \/ AddEnds
  BY <1>2, <1>8 DEF ServerStep, AddHandled, DeleteAllHandled, AddEnds, AddAnswered, AddFails,
                    AddTimesOut,
                    CannotPlay, menuVars
<1>9. ASSUME NEW c \in Chains, ChainStep(c) PROVE hasty'
  BY <1>2, <1>9 DEF ChainStep, SearchFinds, SearchFails, DownloadEnds, EndChain, menuVars
<1> QED
  BY <1>3, <1>4, <1>5, <1>6, <1>7, <1>8, <1>9 DEF Next, ViewerStep

\* EXIT, and another key of the television.
LEMMA ExitKeepsSubtitle ==
  ASSUME TypeInv, Inv, exited', PlayerStep \/ ExitScene
  PROVE  SubtitleFitsVideo'
<1>1. CASE shown' = FALSE
  BY <1>1 DEF SubtitleFitsVideo
<1>2. CASE UNCHANGED <<shown, video, subtitledata, hasty>>
  BY <1>2, InvImplies DEF SubtitleFitsVideo
<1>3. CASE ExitScene
  BY <1>2, <1>3 DEF ExitScene, pageVars, scenesVars, menuVars, subtitleVars
<1>4. CASE PlayerStep
  <2>1. UNCHANGED <<hasty, subtitleVars>> /\ PlaybackNext
    BY <1>4 DEF PlayerStep
  <2>2. CASE UNCHANGED <<shown, video>>
    BY <1>2, <2>1, <2>2 DEF subtitleVars
  <2>3. CASE Callbacks
    BY <1>1, <2>2, <2>3 DEF Callbacks, BufferingStarts, BufferingCompletes, PlaybackTick,
                            Completed, HidePage,
                            Fails, NotFound, Failed, pageVars
  <2>4. CASE HideTimer \/ StopKey \/ ExitKey
    BY <1>1, <2>4 DEF HideTimer, StopKey, ExitKey, HidePage
  <2>5. CASE Pause \/ Resume \/ HubExit \/ OpenMenu \/ CloseMenu \/ \E t \in Times : Seek(t)
    BY <2>2, <2>5 DEF Pause, Resume, HubExit, OpenMenu, CloseMenu, Seek, pageVars
  <2> QED
    BY <2>1, <2>3, <2>4, <2>5 DEF PlaybackNext
<1> QED
  BY <1>3, <1>4

LEMMA InvKept ==
  ASSUME TypeInv, Inv, Next
  PROVE  hasty' \/ exited' \/ Inv'
<1>1. CASE PlayerStep
  BY <1>1, PlayerKeeps
<1>2. CASE ViewerStep
  <2>1. CASE ExitScene
    BY <2>1 DEF ExitScene
  <2> QED
    BY <1>2, <2>1, ListKeeps, ChooseKeeps, ResumeMenuKeeps, ChooseFileKeeps DEF ViewerStep
<1>3. CASE ServerStep \/ AddEnds
  BY <1>3, ServerKeeps, AddAnsweredKeeps DEF AddEnds
<1>4. ASSUME NEW c \in Chains, ChainStep(c) PROVE Inv'
  BY <1>4, ChainKeeps
<1> QED
  BY <1>1, <1>2, <1>3, <1>4 DEF Next

\* Only the player page and EXIT leave the widget.
LEMMA ExitsBy ==
  ASSUME TypeInv, Next, exited'
  PROVE  PlayerStep \/ ExitScene
<1>1. exited = FALSE
  BY DEF Next, TypeInv, Typed, TypeOK, PlaybackTypeOK
<1>2. ASSUME UNCHANGED <<exited>> PROVE FALSE
  BY <1>1, <1>2
<1>3. ASSUME NEW v, NEW c, NEW r, Show(v, c, r) PROVE FALSE
  BY <1>2, <1>3 DEF Show
<1>4. ASSUME UnchangedPlayer PROVE FALSE
  BY <1>2, <1>4 DEF UnchangedPlayer
<1>5. ASSUME NEW url, NEW list, NEW key, PlayMovieUrl(url, list, key) PROVE FALSE
  BY <1>3, <1>4, <1>5 DEF PlayMovieUrl
<1>6. ASSUME NEW url, NEW list, NEW key, Prepare(url, list, key) PROVE FALSE
  BY <1>4, <1>5, <1>6 DEF Prepare
<1>7. ~(ServerStep \/ AddEnds)
  BY <1>4, <1>6 DEF ServerStep, AddHandled, DeleteAllHandled, AddEnds, AddAnswered, AddFails,
                    AddTimesOut, CannotPlay
<1>8. ASSUME NEW c \in Chains, ChainStep(c) PROVE FALSE
  BY <1>4, <1>5, <1>8 DEF ChainStep, SearchFinds, SearchFails, DownloadEnds, EndChain
<1>9. ASSUME ViewerStep PROVE ExitScene
  <2>1. ASSUME NEW v, ChooseFile(v) PROVE FALSE
    BY <1>6, <2>1 DEF ChooseFile
  <2>2. ~(Continue \/ StartOver)
    BY <1>3 DEF Continue, StartOver, ResumeChosen
  <2>3. ~(ShowList \/ LeaveList \/ DismissFailure \/ (\E t \in Torrents : Choose(t)) \/ ResumeMenuHides \/ LeaveFiles)
    BY <1>4 DEF ShowList, LeaveList, DismissFailure, Choose, ResumeMenuHides, LeaveFiles
  <2> QED
    BY <1>9, <2>1, <2>2, <2>3 DEF ViewerStep
<1> QED
  BY <1>7, <1>8, <1>9 DEF Next

LEMMA SafeKept == TypeInv /\ Safe /\ [Next]_vars => Safe'
<1> SUFFICES ASSUME TypeInv, Safe, [Next]_vars PROVE Safe'
  OBVIOUS
<1>1. CASE hasty
  BY <1>1, HastyStays DEF Safe
<1>2. CASE UNCHANGED vars
  <2>1. UNCHANGED <<hasty, exited, shown, subtitledata, video>>
    BY <1>2 DEF vars, playbackVars, sharedVars, pageVars, scenesVars, menuVars, subtitleVars
  <2>2. SubtitleFitsVideo' <=> SubtitleFitsVideo
    BY <2>1 DEF SubtitleFitsVideo
  <2>3. Inv' <=> Inv
    BY <1>2 DEF vars, playbackVars, sharedVars, pageVars, playerVars, avplayVars, scenesVars,
                listVars, menuVars,
                subtitleVars, Inv, PageOK, ChainsOK, AddingOK, SubtitleOK, ReleaseOK, ResumeOK, KeyOK, Busy,
                OnPage, Preparing, InUse, FromFiles
  <2> QED
    BY <2>1, <2>2, <2>3 DEF Safe
<1>3. CASE Next /\ ~hasty
  <2>1. Inv
    BY <1>3 DEF Safe, Next
  <2>2. hasty' \/ exited' \/ Inv'
    BY <1>3, <2>1, InvKept
  <2>3. exited' => SubtitleFitsVideo'
    BY <1>3, <2>1, ExitsBy, ExitKeepsSubtitle
  <2> QED
    BY <2>2, <2>3 DEF Safe
<1> QED
  BY <1>1, <1>2, <1>3

LEMMA InitSafe == Init => Safe
<1> SUFFICES ASSUME Init PROVE Inv /\ exited = FALSE
  BY DEF Safe
<1>1. \A c \in Chains : ~Busy(c)
  BY DEF Init, Idle, Busy
<1> QED
  BY <1>1 DEF Init, PlaybackInit, Inv, PageOK, ChainsOK, AddingOK, SubtitleOK, ReleaseOK, ResumeOK,
              KeyOK,
              OnPage, InUse, FromFiles

LEMMA Safety == Spec => [](TypeInv /\ Safe)
<1>1. Init => TypeInv /\ Safe
  BY InitTyped, InitSafe
<1>2. TypeInv /\ Safe /\ [Next]_vars => TypeInv' /\ Safe'
  BY TypesKept, SafeKept
<1> QED
  BY <1>1, <1>2, PTL DEF Spec

\* As long as no file was chosen while another was prepared (hasty), the subtitle
\* on the player page belongs to the video it plays: that of a video given up
\* before is forgotten (HostsMenu.StartPlayback, StartTorrentDownload).
THEOREM SubtitleOfVideo == Spec => []SubtitleFitsVideo
<1>1. Safe => SubtitleFitsVideo
  BY InvImplies DEF Safe, SubtitleFitsVideo
<1> QED
  BY <1>1, Safety, PTL

\* A torrent whose video is stopped, fails, or is never shown is dropped by the
\* server: a list in which another can be chosen has none left, or /deleteall is
\* still on its way (stopCallback, ResumeMenu and MultiVideo on RETURN).
THEOREM NothingLeftDownloading == Spec => []TorrentReleased
<1>1. Safe => TorrentReleased
  BY InvImplies DEF Safe, TorrentReleased
<1> QED
  BY <1>1, Safety, PTL

\* A stop, an error or EXIT before the video has started saves the position again
\* that was saved before; later the position is saved for the torrent, and the
\* file, that plays.  No step changes that of another title or file, but for the
\* oldest when there are too many (Player.stopVideo, SaveResumeToLocal).
THEOREM PositionKept == Spec => ResumePointKept
<1> DEFINE OfVideo ==
             /\ videolist # 0 => resumeKey[1] = video[1]
             /\ videolist > 1 => resumeKey = video
           Kept ==
             ~hasty /\ saved' # saved =>
               \A key \in Keys :
                 Point(saved', key) # Point(saved, key) =>
                   /\ isSuccess \/ startedOver
                   /\ videolist # 0 => resumeKey[1] = video[1]
                   /\ videolist > 1 => resumeKey = video
                   /\ \/ SameTitle(key[1], resumeKey[1]) /\ key[2] = resumeKey[2]
                      \/ Len(saved) >= MaxSaved /\ 1 \in PointsAt(saved, key)
<1>1. ASSUME UNCHANGED saved PROVE Kept
  BY <1>1
<1>2. ASSUME TypeInv, Inv, OnPage PROVE OfVideo
  <2>1. videolist \in Nat
    BY <1>2 DEF TypeInv, Typed, TypeOK
  <2>2. videolist # 0 => Fits(video, resumeKey, videolist)
    BY <1>2 DEF Inv, KeyOK
  <2> QED
    BY <2>1, <2>2 DEF Fits
<1>3. ASSUME TypeInv, Inv, OnPage, NEW t \in Times, saved' = Saved(t),
             isSuccess \/ startedOver \/ t = Point(saved, resumeKey)
      PROVE  Kept
  <2>1. saved \in Seq(Entries) /\ resumeKey \in Keys
    BY <1>3 DEF TypeInv, Typed, TypeOK, PlaybackTypeOK
  <2>2. CASE isSuccess \/ startedOver
    BY <1>2, <1>3, <2>1, <2>2, SavesPoint
  <2>3. CASE t = Point(saved, resumeKey)
    BY <1>3, <2>1, <2>3, SavesAgain
  <2> QED
    BY <1>3, <2>2, <2>3
<1>4. ASSUME TypeInv, Inv, OnPage, StopVideo PROVE Kept
  <2>1. saved' = Saved(StopTime) /\ StopTime \in Times
    BY <1>4, StopVideoSaves
  <2>2. isSuccess \/ startedOver \/ StopTime = Point(saved, resumeKey)
    BY <1>4 DEF Inv, ResumeOK, StopTime
  <2> QED
    BY <1>3, <1>4, <2>1, <2>2
<1>5. ASSUME TypeInv, Inv, HubExit PROVE Kept
  <2>1. CASE resumetime = 0
    BY <1>1, <1>5, <2>1 DEF HubExit
  <2>2. CASE resumetime # 0
    <3>1. OnPage /\ isSuccess
      BY <1>5, <2>2 DEF Inv, ResumeOK
    <3>2. saved' = Saved(resumetime) /\ resumetime \in Times
      BY <1>5, <2>2 DEF HubExit, TypeInv, Typed, TypeOK, PlaybackTypeOK
    <3> QED
      BY <1>3, <1>5, <3>1, <3>2
  <2> QED
    BY <2>1, <2>2
<1>6. ASSUME TypeInv, Safe, [Next]_vars PROVE [Kept]_vars
  <2> SUFFICES ASSUME Next, ~hasty PROVE Kept
    BY <1>6
  <2>1. Inv
    BY <1>6 DEF Safe, Next
  <2>2. avplay # "idle" => OnPage
    BY <2>1 DEF Inv, PageOK
  <2> HIDE DEF Kept
  <2>3. CASE PlayerStep
    <3>1. CASE BufferingStarts \/ BufferingCompletes \/ PlaybackTick \/ HideTimer
      BY <1>1, <3>1 DEF BufferingStarts, BufferingCompletes, PlaybackTick, HideTimer, sharedVars
    <3>2. CASE Pause \/ Resume \/ OpenMenu \/ CloseMenu \/ \E t \in Times : Seek(t)
      BY <1>1, <3>2 DEF Pause, Resume, OpenMenu, CloseMenu, Seek, sharedVars
    <3>3. CASE Completed \/ Fails \/ StopKey \/ ExitKey
      BY <1>4, <1>6, <2>1, <2>2, <3>3 DEF Completed, Fails, Failed, StopKey, ExitKey, OnPage
    <3>4. CASE NotFound
      BY <1>1, <1>4, <1>6, <2>1, <2>2, <3>4 DEF NotFound, Failed, sharedVars
    <3>5. CASE HubExit
      BY <1>5, <1>6, <2>1, <3>5
    <3> QED
      BY <2>3, <3>1, <3>2, <3>3, <3>4, <3>5 DEF PlayerStep, PlaybackNext, Callbacks
  <2>4. ASSUME NEW v, NEW c, NEW r, Show(v, c, r) PROVE Kept
    BY <1>1, <2>4 DEF Show
  <2>5. ASSUME UnchangedPlayer PROVE Kept
    BY <1>1, <2>5 DEF UnchangedPlayer
  <2>6. ASSUME NEW url, NEW list, NEW key, PlayMovieUrl(url, list, key) PROVE Kept
    BY <2>4, <2>5, <2>6 DEF PlayMovieUrl
  <2>7. ASSUME NEW url, NEW list, NEW key, Prepare(url, list, key) PROVE Kept
    BY <2>5, <2>6, <2>7 DEF Prepare
  <2>8. CASE ServerStep \/ AddEnds
    BY <2>5, <2>7, <2>8 DEF ServerStep, AddHandled, DeleteAllHandled, AddEnds, AddAnswered,
                            AddFails, AddTimesOut,
                            CannotPlay
  <2>9. ASSUME NEW c \in Chains, ChainStep(c) PROVE Kept
    BY <2>5, <2>6, <2>9 DEF ChainStep, SearchFinds, SearchFails, DownloadEnds, EndChain
  <2>10. CASE ViewerStep
    <3>1. ASSUME NEW v, ChooseFile(v) PROVE Kept
      BY <2>7, <3>1 DEF ChooseFile
    <3>2. CASE Continue \/ StartOver
      BY <2>4, <3>2 DEF Continue, StartOver, ResumeChosen
    <3>3. CASE ShowList \/ LeaveList \/ DismissFailure \/ (\E t \in Torrents : Choose(t)) \/ ResumeMenuHides \/ LeaveFiles
      BY <2>5, <3>3 DEF ShowList, LeaveList, DismissFailure, Choose, ResumeMenuHides, LeaveFiles
    <3>4. CASE ExitScene
      BY <1>1, <3>4 DEF ExitScene
    <3> QED
      BY <2>10, <3>1, <3>2, <3>3, <3>4 DEF ViewerStep
  <2> QED
    BY <2>3, <2>8, <2>9, <2>10 DEF Next
<1> QED
  BY <1>6, Safety, PTL DEF Spec, ResumePointKept

===============================================================================
