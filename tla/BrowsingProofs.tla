--------------------------- MODULE BrowsingProofs ---------------------------
(***************************************************************************)
(* Proofs about Browsing: the rows of season and episode boxes, what the   *)
(* details page asks for, the settings, and the page over the list, for    *)
(* any titles, lists and episodes, and however many boxes a row shows.     *)
(***************************************************************************)
EXTENDS Browsing, FiniteSetTheorems, TLAPS

\* The label of box b in a row of n boxes that shows those from f on.
Label(b, n, f, M) ==
    IF b = f /\ f > 0 THEN LeftArrow
    ELSE IF b = f + M /\ b < n - 1 THEN RightArrow
    ELSE b

\* The row of n boxes that shows those from f on, with the user on box a.
RowOf(n, f, a, M) ==
    [n |-> n, first |-> f, at |-> a, text |-> [b \in 0 .. n - 1 |-> Label(b, n, f, M)]]

\* Box a is shown and is none that carries an arrow.
Inside(n, f, a, M) ==
    /\ n \in Nat \ {0} /\ f \in Nat /\ a \in 0 .. n - 1
    /\ f <= a /\ a <= f + M
    /\ f = 0 \/ f + M <= n - 1
    /\ f > 0 => f < a
    /\ a < n - 1 => a < f + M

RowOK(row, M) ==
    \E n, f, a \in Nat : Inside(n, f, a, M) /\ row = RowOf(n, f, a, M)

-----------------------------------------------------------------------------
(* Rows *)

LEMMA RowOKIsWellDrawn ==
  ASSUME NEW row, NEW M \in Nat, RowOK(row, M)
  PROVE  WellDrawn(row, M)
<1>1. PICK n, f, a \in Nat : Inside(n, f, a, M) /\ row = RowOf(n, f, a, M)
  BY DEF RowOK
<1>2. /\ row.n = n /\ row.first = f /\ row.at = a
      /\ row.text = [b \in 0 .. n - 1 |-> Label(b, n, f, M)]
  BY <1>1 DEF RowOf
<1>3. \A b \in 0 .. n - 1 : row.text[b] = Label(b, n, f, M)
  BY <1>2
<1>4. Label(a, n, f, M) = a /\ a \in 0 .. n - 1
  BY <1>1 DEF Inside, Label
<1> QED BY <1>1, <1>2, <1>3, <1>4 DEF Inside, WellDrawn, Label

LEMMA NewRowOK ==
  ASSUME NEW n \in Nat \ {0}, NEW M \in Nat, M >= 2
  PROVE  RowOK(NewRow(n, M), M) /\ NewRow(n, M).n = n /\ NewRow(n, M).at = n - 1
<1> DEFINE f == IF n - 1 > M THEN n - 1 - M ELSE 0
<1>1. f \in Nat /\ n - 1 \in Nat /\ n \in Nat /\ Inside(n, f, n - 1, M)
  BY DEF Inside
<1>2. NewRow(n, M) = RowOf(n, f, n - 1, M)
  <2>1. \A b \in 0 .. n - 1 :
          (IF f > 0 /\ b = f THEN LeftArrow ELSE b) = Label(b, n, f, M)
    BY <1>1 DEF Inside, Label
  <2> QED BY <2>1 DEF NewRow, RowOf
<1>3. NewRow(n, M).n = n /\ NewRow(n, M).at = n - 1
  BY DEF NewRow
<1> HIDE DEF f
<1> QED BY <1>1, <1>2, <1>3 DEF RowOK

LEMMA FieldsOfRow ==
  ASSUME NEW n, NEW f, NEW a, NEW M
  PROVE  /\ RowOf(n, f, a, M).n = n
         /\ RowOf(n, f, a, M).first = f
         /\ RowOf(n, f, a, M).at = a
         /\ RowOf(n, f, a, M).text = [b \in 0 .. n - 1 |-> Label(b, n, f, M)]
BY DEF RowOf

LEMMA RowChanged ==
  ASSUME NEW n, NEW f, NEW a, NEW t, NEW g, NEW c, NEW u
  PROVE  [[n |-> n, first |-> f, at |-> a, text |-> t] EXCEPT !.first = g, !.at = c, !.text = u]
           = [n |-> n, first |-> g, at |-> c, text |-> u]
<1> DEFINE r == [n |-> n, first |-> f, at |-> a, text |-> t]
           e == [r EXCEPT !.first = g, !.at = c, !.text = u]
<1>1. DOMAIN r = {"n", "first", "at", "text"}
  OBVIOUS
<1>2. e.n = n /\ e.first = g /\ e.at = c /\ e.text = u
  OBVIOUS
<1>3. e = [x \in {"n", "first", "at", "text"} |-> e[x]]
  BY <1>1
<1> HIDE DEF e
<1>4. e = [n |-> n, first |-> g, at |-> c, text |-> u]
  BY <1>2, <1>3
<1> QED BY <1>4 DEF e

LEMMA RowOfOK ==
  ASSUME NEW n \in Nat, NEW f \in Nat, NEW a \in Nat, NEW M, Inside(n, f, a, M)
  PROVE  RowOK(RowOf(n, f, a, M), M) /\ RowOf(n, f, a, M).n = n
BY DEF RowOK, RowOf

LEMMA MovedRightOK ==
  ASSUME NEW row, NEW M \in Nat, M >= 2, RowOK(row, M)
  PROVE  RowOK(MovedRight(row, M), M) /\ MovedRight(row, M).n = row.n
<1>1. PICK n, f, a \in Nat : Inside(n, f, a, M) /\ row = RowOf(n, f, a, M)
  BY DEF RowOK
<1>2. /\ row.n = n /\ row.first = f /\ row.at = a
      /\ row.text = [b \in 0 .. n - 1 |-> Label(b, n, f, M)]
  BY <1>1, FieldsOfRow
<1>3. CASE ScrollsRight(row, M)
  <2>1. f = a + 1 - M /\ a + 1 < n - 1 /\ f + 1 \in Nat /\ a + 1 \in Nat
    BY <1>1, <1>2, <1>3 DEF ScrollsRight, Inside
  <2>2. Inside(n, f + 1, a + 1, M)
    BY <1>1, <2>1 DEF Inside
  <2>3. ScrolledRight(row, M).text = [b \in 0 .. n - 1 |-> Label(b, n, f + 1, M)]
    <3> DEFINE own == [row.text EXCEPT ![a + 1] = a + 1, ![a + 2 - M] = LeftArrow,
                                       ![a + 1 - M] = a + 1 - M]
               text == IF a + 2 # n - 1 THEN [own EXCEPT ![a + 2] = RightArrow]
                       ELSE [own EXCEPT ![n - 1 - M] = LeftArrow]
    <3>1. ScrolledRight(row, M).text = text
      BY <1>1, <1>2 DEF ScrolledRight, RowOf
    <3>2. \A b \in 0 .. n - 1 :
             own[b] = IF b = a + 1 - M \/ b = a + 1 THEN b
                      ELSE IF b = a + 2 - M THEN LeftArrow ELSE Label(b, n, f, M)
      BY <1>2, <2>1
    <3>3. own = [b \in 0 .. n - 1 |-> own[b]]
      BY <1>2
    <3> HIDE DEF own
    <3>4. text = [b \in 0 .. n - 1 |-> text[b]]
      BY <3>3
    <3>5. \A b \in 0 .. n - 1 : text[b] = Label(b, n, f + 1, M)
      <4> TAKE b \in 0 .. n - 1
      <4>1. CASE a + 2 # n - 1
        <5>1. text[b] = IF b = a + 2 THEN RightArrow ELSE own[b]
          BY <3>3, <4>1
        <5> QED BY <2>1, <3>2, <4>1, <5>1 DEF Label
      <4>2. CASE a + 2 = n - 1
        <5>1. text[b] = IF b = n - 1 - M THEN LeftArrow ELSE own[b]
          BY <3>3, <4>2
        <5> QED BY <2>1, <3>2, <4>2, <5>1 DEF Label
      <4> QED BY <4>1, <4>2
    <3> HIDE DEF text
    <3> QED BY <3>1, <3>4, <3>5
  <2>4. ScrolledRight(row, M) = RowOf(n, f + 1, a + 1, M)
    <3>1. ScrolledRight(row, M) = [row EXCEPT !.first = f + 1, !.at = a + 1,
                                 !.text = ScrolledRight(row, M).text]
      BY <1>1, <1>2 DEF ScrolledRight, RowOf
    <3> QED BY <1>1, <2>3, <3>1, RowChanged DEF RowOf
  <2>5. MovedRight(row, M) = RowOf(n, f + 1, a + 1, M)
    BY <1>3, <2>4 DEF MovedRight
  <2> QED BY <1>1, <1>2, <2>1, <2>2, <2>5, RowOfOK
<1>4. CASE ~ScrollsRight(row, M) /\ a < n - 1
  <2>1. Inside(n, f, a + 1, M) /\ a + 1 \in Nat
    BY <1>1, <1>2, <1>4 DEF ScrollsRight, Inside
  <2>2. MovedRight(row, M) = [row EXCEPT !.at = @ + 1]
    BY <1>2, <1>4 DEF MovedRight
  <2>3. MovedRight(row, M) = RowOf(n, f, a + 1, M)
    BY <1>1, <2>2 DEF RowOf
  <2> QED BY <1>1, <1>2, <2>1, <2>3, RowOfOK
<1>5. CASE ~ScrollsRight(row, M) /\ ~(a < n - 1)
  <2>1. a = n - 1 /\ n \in Nat \ {0} /\ (f = 0 \/ f = n - 1 - M) /\ a <= f + M /\ 0 \in Nat
    BY <1>1, <1>5 DEF Inside
  <2>2. Inside(n, 0, 0, M)
    BY <2>1 DEF Inside
  <2>3. WrappedRight(row, M).text = [b \in 0 .. n - 1 |-> Label(b, n, 0, M)]
    <3> DEFINE text == IF a > M /\ a - f = M
                       THEN [row.text EXCEPT ![n - 1 - M] = n - 1 - M, ![M] = RightArrow]
                       ELSE row.text
    <3>1. WrappedRight(row, M).text = text
      BY <1>1, <1>2 DEF WrappedRight, RowOf
    <3>2. text = [b \in 0 .. n - 1 |-> text[b]]
      BY <1>2
    <3>3. \A b \in 0 .. n - 1 : text[b] = Label(b, n, 0, M)
      <4> TAKE b \in 0 .. n - 1
      <4>1. CASE a > M /\ a - f = M
        <5>1. /\ text = [row.text EXCEPT ![n - 1 - M] = n - 1 - M, ![M] = RightArrow]
              /\ \A c \in 0 .. n - 1 : row.text[c] = Label(c, n, f, M)
          BY <1>2, <4>1
        <5>2. text[b] = IF b = M THEN RightArrow
                        ELSE IF b = n - 1 - M THEN b ELSE Label(b, n, f, M)
          BY <1>2, <2>1, <4>1, <5>1
        <5>3. f = n - 1 - M /\ f > 0 /\ M < n - 1
          BY <2>1, <4>1
        <5>4. Label(b, n, f, M) = IF b = n - 1 - M THEN LeftArrow ELSE b
          BY <5>3 DEF Label
        <5> QED BY <5>2, <5>3, <5>4 DEF Label
      <4>2. CASE ~(a > M /\ a - f = M)
        <5>1. text[b] = Label(b, n, f, M)
          BY <1>2, <4>2
        <5> QED BY <1>1, <2>1, <4>2, <5>1 DEF Label
      <4> QED BY <4>1, <4>2
    <3> HIDE DEF text
    <3> QED BY <3>1, <3>2, <3>3
  <2>4. WrappedRight(row, M) = RowOf(n, 0, 0, M)
    <3>1. WrappedRight(row, M) = [row EXCEPT !.first = 0, !.at = 0,
                                 !.text = WrappedRight(row, M).text]
      BY <1>1, <1>2 DEF WrappedRight, RowOf
    <3> QED BY <1>1, <2>3, <3>1, RowChanged DEF RowOf
  <2>5. MovedRight(row, M) = RowOf(n, 0, 0, M)
    BY <1>2, <1>5, <2>4 DEF MovedRight
  <2> QED BY <1>1, <1>2, <2>1, <2>2, <2>5, RowOfOK
<1> QED BY <1>3, <1>4, <1>5

LEMMA MovedLeftOK ==
  ASSUME NEW row, NEW M \in Nat, M >= 2, RowOK(row, M)
  PROVE  RowOK(MovedLeft(row, M), M) /\ MovedLeft(row, M).n = row.n
<1>1. PICK n, f, a \in Nat : Inside(n, f, a, M) /\ row = RowOf(n, f, a, M)
  BY DEF RowOK
<1>2. /\ row.n = n /\ row.first = f /\ row.at = a
      /\ row.text = [b \in 0 .. n - 1 |-> Label(b, n, f, M)]
  BY <1>1, FieldsOfRow
<1>3. CASE a = 0 /\ n > M + 1
  <2>1. f = 0 /\ n - (M + 1) \in Nat /\ n - 1 \in Nat
    BY <1>1, <1>3 DEF Inside
  <2>2. Inside(n, n - (M + 1), n - 1, M)
    BY <1>3, <2>1 DEF Inside
  <2>3. WrappedLeft(row, M).text = [b \in 0 .. n - 1 |-> Label(b, n, n - (M + 1), M)]
    <3> DEFINE text == [row.text EXCEPT ![M] = M, ![n - 1 - M] = LeftArrow]
    <3>1. WrappedLeft(row, M).text = text
      BY <1>1, <1>2, <1>3 DEF WrappedLeft, RowOf
    <3>2. text = [b \in 0 .. n - 1 |-> text[b]]
      BY <1>2
    <3>3. \A b \in 0 .. n - 1 : text[b] = Label(b, n, n - (M + 1), M)
      <4> TAKE b \in 0 .. n - 1
      <4>1. text[b] = IF b = n - 1 - M THEN LeftArrow
                      ELSE IF b = M THEN b ELSE Label(b, n, f, M)
        BY <1>2, <1>3
      <4> QED BY <1>3, <2>1, <4>1 DEF Label
    <3> HIDE DEF text
    <3> QED BY <3>1, <3>2, <3>3
  <2>4. WrappedLeft(row, M) = RowOf(n, n - (M + 1), n - 1, M)
    <3>1. WrappedLeft(row, M) = [row EXCEPT !.first = n - (M + 1), !.at = n - 1,
                                 !.text = WrappedLeft(row, M).text]
      <4>1. row.n > M + 1 /\ row.first + (row.n - (M + 1)) = n - (M + 1) /\ row.n - 1 = n - 1
        BY <1>2, <1>3, <2>1
      <4>2. WrappedLeft(row, M)
              = [row EXCEPT !.first = row.first + (row.n - (M + 1)), !.at = row.n - 1,
                            !.text  = [row.text EXCEPT ![M] = M, ![row.n - 1 - M] = LeftArrow]]
        BY <4>1 DEF WrappedLeft
      <4> DEFINE u == [row.text EXCEPT ![M] = M, ![row.n - 1 - M] = LeftArrow]
      <4> HIDE DEF u
      <4>3. WrappedLeft(row, M) = [row EXCEPT !.first = n - (M + 1), !.at = n - 1, !.text = u]
        BY <4>1, <4>2 DEF u
      <4>4. [row EXCEPT !.first = n - (M + 1), !.at = n - 1, !.text = u].text = u
        BY <1>1 DEF RowOf
      <4> QED BY <4>3, <4>4
    <3> QED BY <1>1, <2>3, <3>1, RowChanged DEF RowOf
  <2>5. MovedLeft(row, M) = RowOf(n, n - (M + 1), n - 1, M)
    BY <1>2, <1>3, <2>4 DEF MovedLeft
  <2> QED BY <1>1, <1>2, <2>1, <2>2, <2>5, RowOfOK
<1>4. CASE a = 0 /\ ~(n > M + 1)
  <2>1. Inside(n, f, n - 1, M) /\ n - 1 \in Nat
    BY <1>1, <1>4 DEF Inside
  <2>2. MovedLeft(row, M) = [row EXCEPT !.at = row.n - 1]
    BY <1>2, <1>4 DEF MovedLeft, WrappedLeft
  <2>3. MovedLeft(row, M) = RowOf(n, f, n - 1, M)
    BY <1>1, <2>2 DEF RowOf
  <2> QED BY <1>1, <1>2, <2>1, <2>3, RowOfOK
<1>5. CASE a # 0 /\ f = a - 1
  <2> DEFINE g == IF a >= 2 THEN f - 1 ELSE f
  <2>1. \/ f = 0 /\ a = 1 /\ g = 0
        \/ f >= 1 /\ a >= 2 /\ g = f - 1 /\ f + M <= n - 1
    BY <1>1, <1>5 DEF Inside
  <2>2. g \in Nat /\ a - 1 \in Nat /\ Inside(n, g, a - 1, M)
    BY <1>1, <1>5, <2>1 DEF Inside
  <2>3. ScrolledLeft(row, M).text = [b \in 0 .. n - 1 |-> Label(b, n, g, M)]
    <3> DEFINE own == [row.text EXCEPT ![a] = a, ![a - 1] = a - 1]
               text == IF a < 2 THEN own
                       ELSE [own EXCEPT ![a - 2] = IF a > 2 THEN LeftArrow ELSE a - 2,
                                        ![a + M - 2] = RightArrow,
                                        ![a + M - 1] = a + M - 1]
    <3>1. ScrolledLeft(row, M).text = text
      BY <1>1, <1>2 DEF ScrolledLeft, RowOf
    <3>2. \A b \in 0 .. n - 1 : own[b] = IF b = a \/ b = a - 1 THEN b ELSE Label(b, n, f, M)
      BY <1>2
    <3>3. own = [b \in 0 .. n - 1 |-> own[b]]
      BY <1>2
    <3> HIDE DEF own
    <3>4. text = [b \in 0 .. n - 1 |-> text[b]]
      BY <3>3
    <3>5. \A b \in 0 .. n - 1 : text[b] = Label(b, n, g, M)
      <4> TAKE b \in 0 .. n - 1
      <4>1. CASE a < 2
        BY <1>1, <1>5, <2>1, <3>2, <4>1 DEF Label, Inside
      <4>2. CASE a >= 2
        <5>1. text[b] = IF b = a + M - 1 THEN b
                        ELSE IF b = a + M - 2 THEN RightArrow
                        ELSE IF b = a - 2 THEN (IF a > 2 THEN LeftArrow ELSE b)
                        ELSE own[b]
          BY <3>3, <4>2
        <5> QED BY <1>1, <1>5, <2>1, <3>2, <4>2, <5>1 DEF Label, Inside
      <4> QED BY <4>1, <4>2
    <3> HIDE DEF text
    <3> QED BY <3>1, <3>4, <3>5
  <2>4. ScrolledLeft(row, M) = RowOf(n, g, a - 1, M)
    <3>1. ScrolledLeft(row, M) = [row EXCEPT !.first = g, !.at = a - 1,
                                 !.text = ScrolledLeft(row, M).text]
      BY <1>1, <1>2 DEF ScrolledLeft, RowOf
    <3> QED BY <1>1, <2>3, <3>1, RowChanged DEF RowOf
  <2> HIDE DEF g
  <2>5. MovedLeft(row, M) = RowOf(n, g, a - 1, M)
    BY <1>2, <1>5, <2>4 DEF MovedLeft
  <2> QED BY <1>1, <1>2, <2>1, <2>2, <2>5, RowOfOK
<1>6. CASE a # 0 /\ f # a - 1
  <2>1. Inside(n, f, a - 1, M) /\ a - 1 \in Nat
    BY <1>1, <1>6 DEF Inside
  <2>2. MovedLeft(row, M) = [row EXCEPT !.at = @ - 1]
    BY <1>2, <1>6 DEF MovedLeft
  <2>3. MovedLeft(row, M) = RowOf(n, f, a - 1, M)
    BY <1>1, <2>2 DEF RowOf
  <2> QED BY <1>1, <1>2, <2>1, <2>3, RowOfOK
<1> QED BY <1>3, <1>4, <1>5, <1>6

-----------------------------------------------------------------------------
(* Finite sets, and what a row of boxes is made from *)

\* The details page brings its own copy of the module of finite sets.
LEMMA SameSets ==
  /\ \A A : D!Cardinality(A) = Cardinality(A)
  /\ \A A : D!IsFiniteSet(A) = IsFiniteSet(A)
<1>1. \A A : D!Cardinality(A) = Cardinality(A)
  BY DEF D!Cardinality, Cardinality
<1>2. \A A : D!IsFiniteSet(A) = IsFiniteSet(A)
  BY DEF D!IsFiniteSet, IsFiniteSet
<1> QED BY <1>1, <1>2

LEMMA Constants ==
  /\ MaxSe \in Nat /\ MaxSe >= 2 /\ MaxEe \in Nat /\ MaxEe >= 2
  /\ \A t \in ShowTitles :
        /\ IsFiniteSet(ShowEpisodes[t])
        /\ ShowEpisodes[t] \subseteq [season : Nat, number : Nat \ {0}, aired : D!Airings]
<1>1. D!DetailsAssumption
  BY BrowsingAssumption
<1> QED BY <1>1, SameSets DEF D!DetailsAssumption

LEMMA ImageIsFinite ==
  ASSUME NEW A, IsFiniteSet(A), NEW f
  PROVE  IsFiniteSet({f[x] : x \in A})
<1> DEFINE T == {f[x] : x \in A}
           g == [x \in A |-> f[x]]
<1>1. g \in Surjection(A, T)
  BY DEF Surjection
<1> QED BY <1>1, FS_Surjection

\* Each number of a finite set has its place among them.
Below(A, n) == {m \in A : m <= n}

LEMMA AscendingLists ==
  ASSUME NEW A \in SUBSET Nat, IsFiniteSet(A), NEW i \in 1 .. Cardinality(A)
  PROVE  D!Ascending(A)[i] \in A /\ Cardinality(Below(A, D!Ascending(A)[i])) = i
<1> DEFINE r == [n \in A |-> Cardinality(Below(A, n))]
           k == Cardinality(A)
<1>1. k \in Nat /\ IsFiniteSet(1 .. k) /\ Cardinality(1 .. k) = k
  <2>1. k \in Nat
    BY FS_CardinalityType
  <2> QED BY <2>1, FS_Interval
<1>2. \A n \in A : /\ IsFiniteSet(Below(A, n)) /\ Cardinality(Below(A, n)) \in 1 .. k
  <2> TAKE n \in A
  <2>1. IsFiniteSet(Below(A, n)) /\ Cardinality(Below(A, n)) <= k
    BY FS_Subset DEF Below
  <2>2. Below(A, n) # {}
    BY DEF Below
  <2> QED BY <1>1, <2>1, <2>2, FS_EmptySet, FS_CardinalityType
<1>3. \A m, n \in A : m < n => Cardinality(Below(A, m)) # Cardinality(Below(A, n))
  <2> SUFFICES ASSUME NEW m \in A, NEW n \in A, m < n, Cardinality(Below(A, m)) = Cardinality(Below(A, n))
               PROVE  FALSE
    OBVIOUS
  <2>1. \A x \in A : x <= m => x <= n
    OBVIOUS
  <2>1a. Below(A, m) \in SUBSET Below(A, n)
    BY <2>1 DEF Below
  <2>2. Below(A, n) = Below(A, m)
    BY <1>2, <2>1a, FS_Subset
  <2> QED BY <2>2 DEF Below
<1>4. r \in Injection(A, 1 .. k)
  <2>1. \A m, n \in A : r[m] = r[n] => m = n
    <3> TAKE m, n \in A
    <3>1. m < n \/ n < m \/ m = n
      OBVIOUS
    <3> QED BY <1>3, <3>1
  <2> QED BY <1>2, <2>1 DEF Injection, IsInjective
<1>5. r \in Surjection(A, 1 .. k)
  <2> HIDE DEF r, k
  <2> QED BY <1>1, <1>4, FS_Injection DEF k
<1>6. \E n \in A : Cardinality(Below(A, n)) = i
  BY <1>5 DEF Surjection
<1>7. D!Ascending(A)[i] = CHOOSE n \in A : Cardinality(Below(A, n)) = i
  BY SameSets DEF D!Ascending, Below
<1> QED BY <1>6, <1>7

\* The last of them is the highest, the first the lowest.
LEMMA AscendingEnds ==
  ASSUME NEW A \in SUBSET Nat, IsFiniteSet(A), A # {}
  PROVE  /\ Cardinality(A) \in Nat \ {0}
         /\ D!Highest(A) = D!Ascending(A)[Cardinality(A)]
         /\ D!Lowest(A) \in A /\ \A m \in A : D!Lowest(A) <= m
         /\ D!Highest(A) \in A /\ \A m \in A : m <= D!Highest(A)
<1>1. Cardinality(A) \in Nat \ {0}
  BY FS_CardinalityType, FS_EmptySet
<1> DEFINE h == D!Ascending(A)[Cardinality(A)]
           l == D!Ascending(A)[1]
<1>2. h \in A /\ Cardinality(Below(A, h)) = Cardinality(A)
  BY <1>1, AscendingLists
<1>3. Below(A, h) = A
  BY <1>2, FS_Subset DEF Below
<1>4. l \in A /\ Cardinality(Below(A, l)) = 1
  BY <1>1, AscendingLists
<1>5. \E x : Below(A, l) = {x}
  BY <1>4, FS_Subset, FS_Singleton DEF Below
<1> HIDE DEF h, l
<1>6. \A m \in A : m <= l => m = l
  <2>1. l \in Below(A, l)
    BY <1>4 DEF Below
  <2> QED BY <1>5, <2>1 DEF Below
<1>7. \A m \in A : m <= h
  BY <1>3 DEF Below
<1>8. \A m \in A : l <= m
  BY <1>4, <1>6
<1>9. D!Highest(A) = h
  <2>1. \A n \in A : (\A m \in A : n >= m) => n = h
    BY <1>2, <1>7
  <2>2. \A m \in A : h >= m
    BY <1>2, <1>7
  <2> QED BY <1>2, <2>1, <2>2 DEF D!Highest
<1>10. D!Lowest(A) = l
  <2>1. \A n \in A : (\A m \in A : n <= m) => n = l
    BY <1>4, <1>8
  <2> QED BY <1>4, <1>8, <2>1 DEF D!Lowest
<1> QED BY <1>1, <1>2, <1>4, <1>7, <1>8, <1>9, <1>10 DEF h

\* What the page lists of a show t: every season it makes a box for has an entry 0 that has
\* been aired, and so has the show.
Entry == [season : Nat, number : Nat, aired : D!Airings]
Aired(s, e) == [season |-> s, number |-> e, aired |-> "past"]
Listing(t) == D!Listed(ShowEpisodes[t])

LEMMA ListingFinite ==
  ASSUME NEW t \in ShowTitles
  PROVE  /\ IsFiniteSet(Listing(t)) /\ Listing(t) \subseteq Entry
         /\ Aired(0, 0) \in Listing(t)
         /\ \A x, y \in Listing(t) : x.season = y.season /\ x.number = 0 /\ y.number = 0 => x = y
         /\ \A x \in Listing(t) : \E y \in Listing(t) : y.season = x.season /\ y.number = 0
<1> DEFINE E == [season : Nat, number : Nat \ {0}, aired : D!Airings]
           dated == {e \in ShowEpisodes[t] : e.aired # "none"}
           begun == D!Seasons(dated) \ {0}
           First(s) == [season |-> s, number |-> 0, aired |-> D!FirstOf(dated, s).aired]
           firsts == {First(s) : s \in begun}
           listed == {Aired(0, 0)} \cup firsts \cup dated
<1>1. Listing(t) = listed
  BY DEF Listing, D!Listed, Aired
<1>2. IsFiniteSet(dated) /\ dated \subseteq E
  BY Constants, FS_Subset
<1>3. IsFiniteSet(begun) /\ begun \subseteq Nat \ {0}
  <2> DEFINE f == [e \in dated |-> e.season]
  <2>0. \A e \in dated : e.season \in Nat
    BY <1>2
  <2> HIDE DEF dated
  <2>1. D!Seasons(dated) = {f[e] : e \in dated}
    BY DEF D!Seasons
  <2>2. D!Seasons(dated) \subseteq Nat
    BY <2>0 DEF D!Seasons
  <2> HIDE DEF f
  <2> QED BY <1>2, <2>1, <2>2, ImageIsFinite, FS_Subset
<1>4. IsFiniteSet(firsts)
  <2> DEFINE f == [s \in begun |-> First(s)]
  <2> HIDE DEF begun, First
  <2>1. firsts = {f[s] : s \in begun}
    OBVIOUS
  <2> HIDE DEF f
  <2> QED BY <1>3, <2>1, ImageIsFinite
<1>5. IsFiniteSet(listed)
  <2> HIDE DEF firsts, dated
  <2> QED BY <1>2, <1>4, FS_Union, FS_Singleton
<1>6. \A s \in begun : D!FirstOf(dated, s) \in dated
  <2> SUFFICES ASSUME NEW s \in begun PROVE D!FirstOf(dated, s) \in dated
    OBVIOUS
  <2> DEFINE N == D!Numbers(dated, s)
             mine == {x \in dated : x.season = s}
  <2>1. mine # {}
    BY DEF D!Seasons
  <2>2. IsFiniteSet(mine) /\ \A e \in mine : e.number \in Nat
    BY <1>2, FS_Subset
  <2> DEFINE f == [e \in mine |-> e.number]
  <2>3. N = {f[e] : e \in mine}
    BY DEF D!Numbers
  <2>4. N \in SUBSET Nat /\ N # {}
    BY <2>1, <2>2, <2>3
  <2>5. IsFiniteSet(N)
    <3> HIDE DEF f, N, mine
    <3> QED BY <2>2, <2>3, ImageIsFinite
  <2>6. D!Lowest(N) \in N
    <3> HIDE DEF N
    <3> QED BY <2>4, <2>5, AscendingEnds
  <2>7. \E e \in dated : e.season = s /\ e.number = D!Lowest(N)
    BY <2>6 DEF D!Numbers
  <2> QED BY <2>7 DEF D!FirstOf
<1>7. \A e \in firsts : e \in Entry /\ e.season \in begun /\ e.number = 0
  <2> SUFFICES ASSUME NEW s \in begun
               PROVE  First(s) \in Entry /\ First(s).season \in begun /\ First(s).number = 0
    OBVIOUS
  <2>1. D!FirstOf(dated, s).aired \in D!Airings
    BY <1>2, <1>6
  <2>2. s \in Nat
    BY <1>3
  <2> HIDE DEF begun, dated
  <2> QED BY <2>1, <2>2 DEF Entry
<1>8. listed \subseteq Entry
  <2>1. Aired(0, 0) \in Entry
    BY DEF Aired, Entry, D!Airings
  <2>2. dated \subseteq Entry
    BY <1>2 DEF Entry
  <2> HIDE DEF firsts, dated
  <2> QED BY <1>7, <2>1, <2>2
<1>9. \A x, y \in listed : x.season = y.season /\ x.number = 0 /\ y.number = 0 => x = y
  <2>1. \A x \in dated : x.number # 0
    BY <1>2
  <2>2. \A x \in firsts : x = First(x.season)
    <3> SUFFICES ASSUME NEW s \in begun PROVE First(s) = First(First(s).season)
      OBVIOUS
    <3> HIDE DEF begun, dated
    <3> QED OBVIOUS
  <2>3. \A x \in firsts : x.season # 0
    BY <1>7
  <2>4. Aired(0, 0).season = 0
    BY DEF Aired
  <2>5. \A x, y \in firsts : x.season = y.season => x = y
    BY <2>2
  <2> HIDE DEF firsts, dated
  <2> QED BY <2>1, <2>3, <2>4, <2>5
<1>10. \A x \in listed : \E y \in listed : y.season = x.season /\ y.number = 0
  <2>1. \A x \in dated : x.season = 0 \/ x.season \in begun
    BY DEF D!Seasons
  <2>2. \A s \in begun : First(s) \in firsts /\ First(s).season = s /\ First(s).number = 0
    OBVIOUS
  <2>3. Aired(0, 0).season = 0 /\ Aired(0, 0).number = 0
    BY DEF Aired
  <2> HIDE DEF firsts, dated, begun, First
  <2> QED BY <1>7, <2>1, <2>2, <2>3
<1> QED BY <1>1, <1>5, <1>8, <1>9, <1>10

LEMMA FirstEntry ==
  ASSUME NEW t \in ShowTitles, NEW s \in D!Seasons(Listing(t)), D!Starts(Listing(t), s)
  PROVE  Aired(s, 0) \in Listing(t)
<1> DEFINE listed == Listing(t)
<1>0. /\ listed \subseteq Entry
      /\ \A x, y \in listed : x.season = y.season /\ x.number = 0 /\ y.number = 0 => x = y
      /\ \A x \in listed : \E y \in listed : y.season = x.season /\ y.number = 0
  BY ListingFinite
<1> HIDE DEF listed
<1>1. \E x \in listed : x.season = s
  BY DEF D!Seasons, listed
<1>2. PICK y \in listed : y.season = s /\ y.number = 0
  BY <1>0, <1>1
<1>3. D!Lowest(D!Numbers(listed, s)) = 0
  <2> DEFINE N == D!Numbers(listed, s)
  <2>1. 0 \in N /\ N \subseteq Nat
    BY <1>0, <1>2 DEF D!Numbers, Entry
  <2> HIDE DEF N
  <2>2. \A n \in N : (\A m \in N : n <= m) <=> n = 0
    BY <2>1
  <2>3. D!Lowest(N) = 0
    BY <2>1, <2>2 DEF D!Lowest
  <2> QED BY <2>3 DEF N
<1>4. D!FirstOf(listed, s) = y
  <2>1. \A e \in listed : e.season = s /\ e.number = 0 <=> e = y
    BY <1>0, <1>2
  <2>2. D!FirstOf(listed, s) = CHOOSE e \in listed : e.season = s /\ e.number = 0
    BY <1>3 DEF D!FirstOf
  <2> QED BY <2>1, <2>2
<1>5. y.aired = "past"
  BY <1>4 DEF D!Starts, listed
<1>6. y = Aired(s, 0)
  BY <1>0, <1>2, <1>5 DEF Entry, Aired
<1> QED BY <1>2, <1>6 DEF listed

LEMMA SeasonsBoxed ==
  ASSUME NEW t \in ShowTitles
  PROVE  /\ D!Seasons(Listing(t)) \in SUBSET Nat /\ IsFiniteSet(D!Seasons(Listing(t)))
         /\ D!BoxedSeasons(Listing(t)) \in SUBSET Nat
         /\ IsFiniteSet(D!BoxedSeasons(Listing(t))) /\ D!BoxedSeasons(Listing(t)) # {}
         /\ \A s \in D!BoxedSeasons(Listing(t)) : Aired(s, 0) \in Listing(t)
<1> DEFINE listed == Listing(t)
<1>0. IsFiniteSet(listed) /\ listed \subseteq Entry /\ Aired(0, 0) \in listed
  BY ListingFinite
<1>1. \A s \in D!BoxedSeasons(listed) : s \in D!Seasons(listed) /\ Aired(s, 0) \in listed
  <2> SUFFICES ASSUME NEW s \in D!BoxedSeasons(listed)
               PROVE  s \in D!Seasons(listed) /\ Aired(s, 0) \in listed
    OBVIOUS
  <2>0. s \in D!Seasons(listed)
    BY DEF D!BoxedSeasons
  <2>1. s \in Nat
    BY <1>0, <2>0 DEF D!Seasons, Entry
  <2>2. D!Starts(listed, s)
    BY <2>0, <2>1 DEF D!BoxedSeasons
  <2> QED BY <2>0, <2>2, FirstEntry
<1> HIDE DEF listed
<1>2. D!Seasons(listed) \in SUBSET Nat /\ IsFiniteSet(D!Seasons(listed))
  <2> DEFINE f == [e \in listed |-> e.season]
  <2>1. D!Seasons(listed) = {f[e] : e \in listed}
    BY DEF D!Seasons
  <2>2. D!Seasons(listed) \in SUBSET Nat
    BY <1>0 DEF D!Seasons, Entry
  <2> HIDE DEF f
  <2> QED BY <1>0, <2>1, <2>2, ImageIsFinite
<1>3. 0 \in D!Seasons(listed)
  BY <1>0 DEF D!Seasons, Aired
<1>4. D!Starts(listed, 0)
  <2>1. \A x, y \in listed : x.season = y.season /\ x.number = 0 /\ y.number = 0 => x = y
    BY ListingFinite DEF listed
  <2>2. D!Lowest(D!Numbers(listed, 0)) = 0
    <3> DEFINE N == D!Numbers(listed, 0)
    <3>1. 0 \in N /\ N \subseteq Nat
      BY <1>0 DEF D!Numbers, Entry, Aired
    <3> HIDE DEF N
    <3>2. \A n \in N : (\A m \in N : n <= m) <=> n = 0
      BY <3>1
    <3>3. D!Lowest(N) = 0
      BY <3>1, <3>2 DEF D!Lowest
    <3> QED BY <3>3 DEF N
  <2>3. \A e \in listed : e.season = 0 /\ e.number = 0 <=> e = Aired(0, 0)
    BY <1>0, <2>1 DEF Aired
  <2>4. D!FirstOf(listed, 0) = CHOOSE e \in listed : e.season = 0 /\ e.number = 0
    BY <2>2 DEF D!FirstOf
  <2>5. D!FirstOf(listed, 0) = Aired(0, 0)
    BY <1>0, <2>3, <2>4
  <2> QED BY <2>5 DEF D!Starts, Aired
<1>5. 0 \in D!BoxedSeasons(listed)
  <2>1. \A r \in D!Seasons(listed) : r <= 0 => r = 0
    BY <1>2
  <2> QED BY <1>3, <1>4, <2>1 DEF D!BoxedSeasons
<1>6. D!BoxedSeasons(listed) \in SUBSET Nat /\ IsFiniteSet(D!BoxedSeasons(listed))
  BY <1>1, <1>2, FS_Subset
<1> QED BY <1>1, <1>2, <1>5, <1>6 DEF listed

LEMMA EpisodesBoxed ==
  ASSUME NEW t \in ShowTitles, NEW s
  PROVE  /\ D!BoxedEpisodes(Listing(t), s) \in SUBSET Nat
         /\ IsFiniteSet(D!BoxedEpisodes(Listing(t), s))
         /\ \A e \in D!BoxedEpisodes(Listing(t), s) : Aired(s, e) \in Listing(t)
         /\ s \in D!BoxedSeasons(Listing(t)) => D!BoxedEpisodes(Listing(t), s) # {}
         /\ D!BoxedEpisodes(Listing(t), s) # {} => s \in D!Seasons(Listing(t))
<1> DEFINE listed == Listing(t)
           boxes == D!BoxedEpisodes(listed, s)
           aired == {x \in listed : x.season = s /\ x.aired = "past"}
<1>0. IsFiniteSet(listed) /\ listed \subseteq Entry
  BY ListingFinite
<1>1. boxes = {e.number : e \in aired}
  BY DEF D!BoxedEpisodes
<1>2. IsFiniteSet(aired) /\ \A e \in aired : e.number \in Nat /\ e = Aired(s, e.number)
  <2>1. IsFiniteSet(aired)
    BY <1>0, FS_Subset
  <2>2. \A e \in aired : e \in Entry /\ e.season = s /\ e.aired = "past"
    BY <1>0
  <2> QED BY <2>1, <2>2 DEF Entry, Aired
<1>3. s \in D!BoxedSeasons(listed) => Aired(s, 0) \in aired
  BY SeasonsBoxed DEF Aired
<1>4. aired # {} => s \in D!Seasons(listed)
  BY DEF D!Seasons
<1>5. aired \subseteq listed
  OBVIOUS
<1> HIDE DEF aired, boxes
<1>6. boxes \in SUBSET Nat /\ \A e \in boxes : Aired(s, e) \in aired
  BY <1>1, <1>2
<1>7. IsFiniteSet(boxes)
  <2> DEFINE f == [e \in aired |-> e.number]
  <2>1. boxes = {f[e] : e \in aired}
    BY <1>1
  <2> HIDE DEF f
  <2> QED BY <1>2, <2>1, ImageIsFinite
<1>8. boxes # {} <=> aired # {}
  BY <1>1
<1> QED BY <1>3, <1>4, <1>5, <1>6, <1>7, <1>8 DEF boxes

\* The page opens with the season of the last box, unless that season has no episode.
LEMMA LastSeasonBoxed ==
  ASSUME NEW t \in ShowTitles, D!BoxedEpisodes(Listing(t), D!LastSeason(Listing(t))) # {}
  PROVE  D!LastSeason(Listing(t)) = D!Highest(D!BoxedSeasons(Listing(t)))
<1> DEFINE listed == Listing(t)
           seasons == D!Seasons(listed)
           boxed == D!BoxedSeasons(listed)
           ahead == {s \in seasons : ~D!Starts(listed, s)}
           last == D!LastSeason(listed)
<1>1. /\ seasons \in SUBSET Nat /\ IsFiniteSet(seasons) /\ boxed \in SUBSET Nat
      /\ IsFiniteSet(boxed) /\ boxed # {}
      /\ last \in seasons
  BY SeasonsBoxed, EpisodesBoxed
<1>2. boxed = {s \in seasons : \A r \in seasons : r <= s => D!Starts(listed, r)}
  BY DEF D!BoxedSeasons
<1>3. CASE ahead = {}
  <2>1. boxed = seasons
    BY <1>2, <1>3
  <2>2. last = D!Highest(seasons)
    BY <1>3 DEF D!LastSeason
  <2> QED BY <2>1, <2>2
<1>4. CASE ahead # {}
  <2> DEFINE l == D!Lowest(ahead)
  <2>0. ahead \in SUBSET Nat /\ IsFiniteSet(ahead)
    BY <1>1, FS_Subset
  <2>1. l \in ahead /\ \A m \in ahead : l <= m
    <3> HIDE DEF ahead
    <3> QED BY <1>4, <2>0, AscendingEnds
  <2>2. last = l - 1
    BY <1>4 DEF D!LastSeason
  <2> HIDE DEF l, last, boxed, listed, seasons
  <2>3. l \in Nat /\ l \in seasons /\ ~D!Starts(listed, l)
    BY <1>1, <2>1
  <2>4. \A r \in seasons : r <= last => D!Starts(listed, r)
    BY <1>1, <2>1, <2>2, <2>3
  <2>5. last \in boxed
    BY <1>1, <1>2, <2>4
  <2>6. \A s \in boxed : s <= last
    <3> TAKE s \in boxed
    <3>1. s \in Nat /\ (l <= s => D!Starts(listed, l))
      BY <1>1, <1>2, <2>3
    <3> QED BY <2>2, <2>3, <3>1
  <2>7. D!Highest(boxed) = last
    <3>1. \A n \in boxed : (\A m \in boxed : n >= m) <=> n = last
      BY <1>1, <2>5, <2>6
    <3> QED BY <2>5, <3>1 DEF D!Highest
  <2> QED BY <2>7 DEF last, boxed, listed
<1> QED BY <1>3, <1>4

-----------------------------------------------------------------------------
(* Rows on the page *)

\* The details page brings its own copy of the module of rows, too.
LEMMA SameRows ==
  /\ D!NoRow = NoRow
  /\ \A n, M : D!NewRow(n, M) = NewRow(n, M)
  /\ \A row, M : D!MovedRight(row, M) = MovedRight(row, M)
  /\ \A row, M : D!MovedLeft(row, M) = MovedLeft(row, M)
<1>1. D!NoRow = NoRow
  BY DEF D!NoRow, NoRow
<1>2. \A n, M : D!NewRow(n, M) = NewRow(n, M)
  BY DEF D!NewRow, NewRow, D!LeftArrow, LeftArrow
<1>3. \A row, M : D!MovedRight(row, M) = MovedRight(row, M)
  <2> TAKE row, M
  <2>1. D!ScrollsRight(row, M) = ScrollsRight(row, M)
    BY DEF D!ScrollsRight, ScrollsRight
  <2>2. D!ScrolledRight(row, M) = ScrolledRight(row, M)
    BY DEF D!ScrolledRight, ScrolledRight, D!LeftArrow, LeftArrow, D!RightArrow, RightArrow
  <2>3. D!WrappedRight(row, M) = WrappedRight(row, M)
    BY DEF D!WrappedRight, WrappedRight, D!RightArrow, RightArrow
  <2> QED BY <2>1, <2>2, <2>3 DEF D!MovedRight, MovedRight
<1>4. \A row, M : D!MovedLeft(row, M) = MovedLeft(row, M)
  <2> TAKE row, M
  <2>1. D!ScrolledLeft(row, M) = ScrolledLeft(row, M)
    BY DEF D!ScrolledLeft, ScrolledLeft, D!LeftArrow, LeftArrow, D!RightArrow, RightArrow
  <2>2. D!WrappedLeft(row, M) = WrappedLeft(row, M)
    BY DEF D!WrappedLeft, WrappedLeft, D!LeftArrow, LeftArrow
  <2> QED BY <2>1, <2>2 DEF D!MovedLeft, MovedLeft
<1> QED BY <1>1, <1>2, <1>3, <1>4

\* The box the user is on reads back as the season or episode it stands for.
LEMMA ValueOfRow ==
  ASSUME NEW row, NEW M \in Nat, NEW A \in SUBSET Nat, IsFiniteSet(A),
         RowOK(row, M), row.n = Cardinality(A)
  PROVE  /\ row # NoRow
         /\ D!Value(row, D!Ascending(A)) = D!Ascending(A)[row.at + 1]
         /\ D!Value(row, D!Ascending(A)) \in A
<1>1. PICK n, f, a \in Nat : Inside(n, f, a, M) /\ row = RowOf(n, f, a, M)
  BY DEF RowOK
<1>2. /\ row.n = n /\ row.at = a
      /\ row.text = [b \in 0 .. n - 1 |-> Label(b, n, f, M)]
  BY <1>1, FieldsOfRow
<1>3. n # 0 /\ a \in 0 .. n - 1 /\ Label(a, n, f, M) = a
  BY <1>1 DEF Inside, Label
<1>4. row.text[row.at] = a
  BY <1>2, <1>3
<1>5. row # NoRow
  BY <1>2, <1>3 DEF NoRow
<1>6. a >= 0 /\ a + 1 \in 1 .. Cardinality(A)
  BY <1>2, <1>3
<1> DEFINE numbered == D!Ascending(A)
<1>7. numbered[a + 1] \in A
  BY <1>6, AscendingLists
<1> HIDE DEF numbered
<1>8. D!Value(row, numbered) = numbered[a + 1]
  BY <1>4, <1>6 DEF D!Value
<1> QED BY <1>2, <1>5, <1>7, <1>8 DEF numbered

-----------------------------------------------------------------------------
(* The details page *)

\* Neither the details page nor the list of torrents over it has the focus.
Away == scene \notin {"InfoPage", "HostsMenu"}

\* While the page is not complete it takes no keys and nothing is searched for; only the
\* last 200 ms of a film's page, after its timer, can pass in another scene.
Completing ==
  /\ fetch # "none" =>
       /\ searches = {} /\ ~raced /\ scene # "HostsMenu"
       /\ scene = "InfoPage" => pageWaiting /\ ~nohostreturn
       /\ fetch # "overdue" => scene = "InfoPage" /\ ~inforeturn
  /\ fetch \in {"serie", "episodes"} => title \in ShowTitles /\ ssindex = 2 /\ seasonRow = NoRow
  /\ Away => searches = {} \/ raced

\* The boxes of a row stand for what is listed of the title, and the class of the chosen box
\* follows the row the user is in.
SeasonBoxes ==
  /\ title \in ShowTitles
  /\ RowOK(seasonRow, MaxSe)
  /\ seasonRow.n = Cardinality(D!BoxedSeasons(Listing(title)))
  /\ seasonsave = D!Ascending(D!BoxedSeasons(Listing(title)))
  /\ seasonMark = IF ssindex = 0 THEN "active" ELSE "selected"

BoxedHere == D!BoxedEpisodes(Listing(title), D!Value(seasonRow, seasonsave))

EpisodeBoxes ==
  /\ episodeobject = Listing(title)
  /\ RowOK(episodeRow, MaxEe)
  /\ episodeRow.n = Cardinality(BoxedHere)
  /\ episodesave = D!Ascending(BoxedHere)
  /\ episodeMark = IF ssindex = 1 THEN "active" ELSE "selected"

Boxes ==
  /\ ssindex \in {0, 1, 2}
  /\ Away => seasonRow = NoRow
  /\ seasonRow = NoRow => episodeRow = NoRow /\ seasonMark = "none"
  /\ episodeRow = NoRow => episodeMark = "none" /\ ssindex = 2
  /\ seasonRow # NoRow => SeasonBoxes
  /\ episodeRow # NoRow => EpisodeBoxes

PageInv == Completing /\ Boxes /\ AsksForAired

-----------------------------------------------------------------------------
(* The settings *)

Stored == [menu : S!Values, style : S!Values, version : {S!Version}]

\* What a session before has left.
Unread ==
  /\ scene = "Main" /\ ~defaulted
  /\ \/ localData = S!NoData /\ wanted = [menu |-> "default", style |-> "default"]
     \/ \E v \in {"other", S!Version} :
           localData = [menu |-> wanted.menu, style |-> wanted.style, version |-> v]

Read ==
  /\ saveSettings \in Stored /\ localData \in Stored
  /\ localData.menu = wanted.menu
  /\ ~defaulted => saveSettings.style = localData.style /\ localData.style = wanted.style
  /\ ~defaulted /\ ~raced /\ scene # "SettingsPage" => saveSettings.menu = localData.menu

SettingsInv ==
  /\ wanted \in [menu : S!Values, style : S!Values]
  /\ IF Loaded THEN Read ELSE Unread

IInv == PageInv /\ SettingsInv

-----------------------------------------------------------------------------
(* Steps of the details page *)

boxVars == <<title, ssindex, episodeobject, seasonRow, seasonsave, seasonMark, episodeRow,
             episodesave, episodeMark>>

LEMMA BoxesKept ==
  ASSUME Boxes, UNCHANGED boxVars, Away' => Away
  PROVE  Boxes'
BY DEF Boxes, boxVars, SeasonBoxes, EpisodeBoxes, BoxedHere, Listing

LEMMA SearchesKept ==
  ASSUME AsksForAired, searches' \subseteq searches
  PROVE  AsksForAired'
BY DEF AsksForAired, D!AsksForAired

\* The other scenes: neither the main page nor a menu or the settings touch the page.
LEMMA PageElsewhere ==
  ASSUME PageInv, UNCHANGED detailVars, scene' = scene \/ (Away /\ Away')
  PROVE  PageInv'
<1>1. Boxes'
  BY BoxesKept DEF PageInv, detailVars, boxVars, Away
<1>2. AsksForAired'
  BY SearchesKept DEF PageInv, detailVars
<1>3. Completing'
  BY DEF PageInv, Completing, detailVars, Away
<1> QED BY <1>1, <1>2, <1>3 DEF PageInv

\* Answers and timers of the requests that complete the page, but the one that boxes it.
LEMMA CompletingStep ==
  ASSUME PageInv,
         D!MovieAnswered \/ D!Drawn \/ D!SerieAnswered \/ D!FetchFails \/ D!FetchTimesOut
  PROVE  PageInv'
<1>1. UNCHANGED <<scene, boxVars, searches, raced, nohostreturn>>
  BY DEF D!MovieAnswered, D!Drawn, D!SerieAnswered, D!FetchFails, D!FetchTimesOut, boxVars,
         D!rowVars, D!pageVars, D!searchVars
<1>2. Boxes'
  BY <1>1, BoxesKept DEF PageInv, Away
<1>3. AsksForAired'
  BY <1>1, SearchesKept DEF PageInv
<1>4. Completing'
  <2>1. UNCHANGED <<scene, title, ssindex, seasonRow, searches, raced, nohostreturn>>
    BY <1>1 DEF boxVars
  <2>2. /\ fetch # "none"
        /\ \/ fetch' = "none"
           \/ fetch' = "overdue" /\ UNCHANGED pageWaiting
           \/ /\ fetch' \in {"drawing", "dead"} /\ UNCHANGED <<pageWaiting, inforeturn>>
              /\ fetch # "overdue"
           \/ fetch = "serie" /\ fetch' = "episodes" /\ pageWaiting' /\ ~inforeturn'
    BY DEF D!MovieAnswered, D!Drawn, D!SerieAnswered, D!FetchFails, D!FetchTimesOut,
           D!Fetching, D!pageVars
  <2> QED BY <2>1, <2>2 DEF PageInv, Completing, Away
<1> QED BY <1>2, <1>3, <1>4 DEF PageInv

\* The end of a search, and the way back from the list it opens.
LEMMA SearchEndsStep ==
  ASSUME PageInv, NEW s \in searches, D!TorrentsFound(s) \/ D!SearchAgain(s) \/ D!NothingFound(s)
  PROVE  PageInv'
<1>1. fetch = "none" /\ UNCHANGED <<fetch, boxVars, raced>> /\ (scene' = scene \/ scene' = "HostsMenu")
  BY DEF PageInv, Completing, D!TorrentsFound, D!SearchAgain, D!NothingFound, boxVars,
         D!rowVars, D!pageVars
<1>2. Boxes'
  BY <1>1, BoxesKept DEF PageInv, Away
<1>3. AsksForAired'
  <2>1. CASE D!TorrentsFound(s) \/ D!NothingFound(s)
    <3>1. searches' \subseteq searches
      BY <2>1 DEF D!TorrentsFound, D!NothingFound
    <3> QED BY <3>1, SearchesKept DEF PageInv
  <2>2. CASE D!SearchAgain(s)
    <3> DEFINE again == [s EXCEPT !.route = "query"]
    <3>1. searches' = (searches \ {s}) \cup {again}
      BY <2>2 DEF D!SearchAgain
    <3>2. again.title = s.title /\ again.season = s.season /\ again.episode = s.episode
      OBVIOUS
    <3> HIDE DEF again
    <3> QED BY <3>1, <3>2 DEF PageInv, AsksForAired, D!AsksForAired
  <2> QED BY <2>1, <2>2
<1>4. Completing'
  BY <1>1 DEF PageInv, Completing, Away
<1> QED BY <1>2, <1>3, <1>4 DEF PageInv

LEMMA LeaveHostsStep ==
  ASSUME PageInv, D!LeaveHosts
  PROVE  PageInv'
<1>1. /\ scene = "HostsMenu" /\ scene' = "InfoPage"
      /\ UNCHANGED <<boxVars, pageWaiting, inforeturn, nohostreturn, fetch, searches, raced>>
  BY DEF D!LeaveHosts, boxVars, D!rowVars, D!pageVars, D!searchVars
<1>2. Boxes'
  BY <1>1, BoxesKept DEF PageInv, Away
<1>3. AsksForAired'
  BY <1>1, SearchesKept DEF PageInv
<1>4. Completing'
  BY <1>1 DEF PageInv, Completing, Away
<1> QED BY <1>2, <1>3, <1>4 DEF PageInv

\* The page is opened from the main page, where nothing of it is left.
LEMMA ShowStep ==
  ASSUME PageInv, NEW t, D!Show(t), Away, fetch = "none", ~raced
  PROVE  PageInv'
<1>1. /\ scene' = "InfoPage" /\ title' = t /\ pageWaiting' /\ ~inforeturn' /\ ~nohostreturn'
      /\ fetch' = IF t \in ShowTitles THEN "serie" ELSE "movie"
      /\ UNCHANGED <<ssindex, searches, seasonRow, seasonMark, episodeRow, episodeMark, raced>>
  BY DEF D!Show, D!searchVars
<1>2. seasonRow = NoRow /\ episodeRow = NoRow /\ ssindex = 2 /\ searches = {}
  BY DEF PageInv, Boxes, Completing
<1>3. Boxes'
  BY <1>1, <1>2 DEF PageInv, Boxes
<1>4. AsksForAired'
  BY <1>1, SearchesKept DEF PageInv
<1>5. Completing'
  BY <1>1, <1>2 DEF Completing, Away
<1> QED BY <1>3, <1>4, <1>5 DEF PageInv

LEMMA ReturnStep ==
  ASSUME PageInv, D!Return
  PROVE  PageInv'
<1>0. scene = "InfoPage"
  BY DEF D!Return
<1>1. CASE D!HidePage
  <2>1. /\ scene' = "Main" /\ ssindex' = 2
        /\ seasonRow' = D!NoRow /\ seasonMark' = "none"
        /\ episodeRow' = D!NoRow /\ episodeMark' = "none"
        /\ raced' = (raced \/ searches # {})
        /\ UNCHANGED <<title, fetch, searches>>
    BY <1>1 DEF D!HidePage, D!searchVars
  <2>2. Boxes'
    BY <2>1, SameRows DEF Boxes, Away
  <2>3. AsksForAired'
    BY <2>1, SearchesKept DEF PageInv
  <2>4. ~pageWaiting \/ inforeturn
    BY <1>1, <1>0 DEF D!Return, D!HidePage
  <2>5. Completing'
    BY <1>0, <2>1, <2>4 DEF PageInv, Completing, Away
  <2> QED BY <2>2, <2>3, <2>5 DEF PageInv
<1>2. CASE ~D!HidePage
  <2>1. /\ pageWaiting /\ nohostreturn /\ ~pageWaiting' /\ ~nohostreturn'
        /\ UNCHANGED <<scene, boxVars, inforeturn, fetch, searches, raced>>
    BY <1>2 DEF D!Return, boxVars, D!rowVars, D!searchVars
  <2>2. Boxes'
    BY <2>1, BoxesKept DEF PageInv, Away
  <2>3. AsksForAired'
    BY <2>1, SearchesKept DEF PageInv
  <2>4. Completing'
    BY <1>0, <2>1 DEF PageInv, Completing, Away
  <2> QED BY <2>2, <2>3, <2>4 DEF PageInv
<1> QED BY <1>1, <1>2

\* The listing boxes the season it opens with, and that season's episodes if it has any.
LEMMA EpisodesAnsweredStep ==
  ASSUME PageInv, D!EpisodesAnswered
  PROVE  PageInv'
<1> DEFINE listed == Listing(title)
           seasons == D!BoxedSeasons(listed)
           last == D!LastSeason(listed)
           numbers == D!BoxedEpisodes(listed, last)
<1>1. /\ fetch = "episodes" /\ title \in ShowTitles /\ ssindex = 2 /\ scene = "InfoPage"
      /\ searches = {} /\ ~raced /\ ~inforeturn /\ ~nohostreturn
  BY DEF D!EpisodesAnswered, PageInv, Completing
<1>2. /\ seasonsave' = D!Ascending(seasons)
      /\ seasonRow' = NewRow(Cardinality(seasons), MaxSe)
      /\ seasonMark' = "selected"
      /\ episodesave' = D!Ascending(numbers)
      /\ episodeRow' = IF numbers = {} THEN NoRow ELSE NewRow(Cardinality(numbers), MaxEe)
      /\ episodeMark' = IF numbers = {} THEN "none" ELSE "selected"
      /\ fetch' = IF numbers = {} THEN "dead" ELSE "none"
      /\ pageWaiting' = (numbers = {})
      /\ numbers # {} => episodeobject' = listed
      /\ UNCHANGED <<scene, title, inforeturn, nohostreturn, ssindex, searches, raced>>
  BY SameRows, SameSets DEF D!EpisodesAnswered, D!BoxEpisodes, D!searchVars, Listing
<1>3. /\ seasons \in SUBSET Nat /\ IsFiniteSet(seasons) /\ seasons # {}
      /\ numbers \in SUBSET Nat /\ IsFiniteSet(numbers)
  BY <1>1, SeasonsBoxed, EpisodesBoxed
<1>4. numbers # {} => last = D!Highest(seasons)
  BY <1>1, LastSeasonBoxed
<1> HIDE DEF seasons, numbers, last
<1>5. /\ Cardinality(seasons) \in Nat \ {0}
      /\ D!Highest(seasons) = D!Ascending(seasons)[Cardinality(seasons)]
  BY <1>3, AscendingEnds
<1>6. /\ RowOK(seasonRow', MaxSe) /\ seasonRow'.n = Cardinality(seasons)
      /\ seasonRow'.at = Cardinality(seasons) - 1
  BY <1>2, <1>5, NewRowOK, Constants
<1>7. seasonRow' # NoRow /\ D!Value(seasonRow', seasonsave') = D!Highest(seasons)
  BY <1>2, <1>3, <1>5, <1>6, ValueOfRow, Constants
<1>8. SeasonBoxes'
  BY <1>1, <1>2, <1>6 DEF SeasonBoxes, seasons, Listing
<1>9. CASE numbers = {}
  <2>1. Boxes'
    BY <1>1, <1>2, <1>7, <1>8, <1>9 DEF Boxes, Away
  <2>2. Completing'
    BY <1>1, <1>2, <1>9 DEF Completing, Away
  <2> QED BY <1>2, <2>1, <2>2, SearchesKept DEF PageInv
<1>10. CASE numbers # {}
  <2>1. Cardinality(numbers) \in Nat \ {0}
    BY <1>3, <1>10, AscendingEnds
  <2>2. RowOK(episodeRow', MaxEe) /\ episodeRow'.n = Cardinality(numbers)
    BY <1>2, <1>10, <2>1, NewRowOK, Constants
  <2>3. BoxedHere' = numbers
    BY <1>2, <1>4, <1>7, <1>10 DEF BoxedHere, numbers, Listing
  <2>4. EpisodeBoxes'
    BY <1>1, <1>2, <1>10, <2>2, <2>3 DEF EpisodeBoxes, Listing
  <2>5. episodeRow' # NoRow
    BY <1>3, <2>2, ValueOfRow, Constants
  <2>6. Boxes'
    BY <1>1, <1>2, <1>7, <1>8, <2>4, <2>5 DEF Boxes, Away
  <2>7. Completing'
    BY <1>1, <1>2, <1>10 DEF Completing, Away
  <2> QED BY <1>2, <2>6, <2>7, SearchesKept DEF PageInv
<1> QED BY <1>9, <1>10

pageFrame == <<scene, title, inforeturn, nohostreturn, fetch, searches, raced>>

LEMMA FrameKept ==
  ASSUME PageInv, UNCHANGED pageFrame, pageWaiting' = pageWaiting, fetch = "none"
  PROVE  Completing' /\ AsksForAired'
<1>1. AsksForAired'
  BY SearchesKept DEF PageInv, pageFrame
<1>2. Completing'
  BY DEF PageInv, Completing, pageFrame, Away
<1> QED BY <1>1, <1>2

\* UP, DOWN and ENTER go from one row to another, of which both are there.
LEMMA RowLeftStep ==
  ASSUME PageInv, D!KeysWork,
         \/ ssindex = 2 /\ episodeRow # NoRow /\ D!ToEpisodes("none", "none")
         \/ ssindex = 1 /\ D!ToSeasons
         \/ ssindex = 1 /\ D!ToButton
         \/ ssindex = 0 /\ D!ToEpisodes("active", "selected")
  PROVE  PageInv'
<1>1. scene = "InfoPage" /\ ~pageWaiting /\ fetch = "none"
  BY DEF D!KeysWork, PageInv, Completing
<1>2. /\ UNCHANGED pageFrame /\ pageWaiting' = pageWaiting
      /\ UNCHANGED <<episodeobject, seasonRow, seasonsave, episodeRow, episodesave>>
  BY DEF D!ToEpisodes, D!ToSeasons, D!ToButton, D!searchVars, pageFrame
<1>3. seasonRow # NoRow /\ episodeRow # NoRow /\ SeasonBoxes /\ EpisodeBoxes
  BY DEF PageInv, Boxes
<1>4. /\ ssindex' \in {0, 1, 2}
      /\ seasonMark' = IF ssindex' = 0 THEN "active" ELSE "selected"
      /\ episodeMark' = IF ssindex' = 1 THEN "active" ELSE "selected"
  BY <1>3 DEF D!ToEpisodes, D!ToSeasons, D!ToButton, D!MarkEpisode, D!MarkSeason, SeasonBoxes,
              EpisodeBoxes
<1>5. SeasonBoxes'
  BY <1>2, <1>3, <1>4 DEF SeasonBoxes, pageFrame, Listing
<1>6. EpisodeBoxes'
  BY <1>2, <1>3, <1>4 DEF EpisodeBoxes, BoxedHere, pageFrame, Listing
<1>7. Boxes'
  BY <1>1, <1>2, <1>3, <1>4, <1>5, <1>6 DEF Boxes, Away, pageFrame
<1> QED BY <1>1, <1>2, <1>7, FrameKept DEF PageInv

\* RIGHT and LEFT in the row of episodes.
LEMMA EpisodeMovedStep ==
  ASSUME PageInv, D!KeysWork, ssindex = 1,
         episodeRow' = MovedRight(episodeRow, MaxEe) \/ episodeRow' = MovedLeft(episodeRow, MaxEe),
         UNCHANGED <<pageFrame, pageWaiting, ssindex, episodeobject, seasonRow, seasonsave,
                     seasonMark, episodesave, episodeMark>>
  PROVE  PageInv'
<1>1. scene = "InfoPage" /\ ~pageWaiting /\ fetch = "none"
  BY DEF D!KeysWork, PageInv, Completing
<1>3. seasonRow # NoRow /\ episodeRow # NoRow /\ SeasonBoxes /\ EpisodeBoxes
  BY DEF PageInv, Boxes
<1>4. RowOK(episodeRow', MaxEe) /\ episodeRow'.n = episodeRow.n
  BY <1>3, MovedRightOK, MovedLeftOK, Constants DEF EpisodeBoxes
<1>5. SeasonBoxes'
  BY <1>3 DEF SeasonBoxes, pageFrame, Listing
<1>6. EpisodeBoxes'
  BY <1>3, <1>4 DEF EpisodeBoxes, BoxedHere, pageFrame, Listing
<1>7. episodeRow' # NoRow
  <2>1. IsFiniteSet(BoxedHere) /\ BoxedHere \in SUBSET Nat
    BY <1>3, EpisodesBoxed DEF BoxedHere, SeasonBoxes
  <2> QED BY <1>3, <1>4, <2>1, ValueOfRow, Constants DEF EpisodeBoxes
<1>8. Boxes'
  BY <1>1, <1>3, <1>5, <1>6, <1>7 DEF Boxes, Away, pageFrame
<1> QED BY <1>1, <1>8, FrameKept DEF PageInv

\* RIGHT and LEFT in the row of seasons: the season has begun, so it has episodes.
LEMMA SeasonMovedStep ==
  ASSUME PageInv, D!KeysWork, ssindex = 0,
         seasonRow' = MovedRight(seasonRow, MaxSe) \/ seasonRow' = MovedLeft(seasonRow, MaxSe),
         D!BoxEpisodes(episodeobject, D!Value(seasonRow', seasonsave)),
         UNCHANGED <<pageFrame, pageWaiting, ssindex, episodeobject, seasonsave, seasonMark>>
  PROVE  PageInv'
<1> DEFINE seasons == D!BoxedSeasons(Listing(title))
           s == D!Value(seasonRow', seasonsave)
           numbers == D!BoxedEpisodes(Listing(title), s)
<1>1. scene = "InfoPage" /\ ~pageWaiting /\ fetch = "none"
  BY DEF D!KeysWork, PageInv, Completing
<1>2. title \in ShowTitles /\ seasonRow # NoRow /\ SeasonBoxes /\ EpisodeBoxes
  BY DEF PageInv, Boxes, SeasonBoxes
<1>3. RowOK(seasonRow', MaxSe) /\ seasonRow'.n = Cardinality(seasons)
  BY <1>2, MovedRightOK, MovedLeftOK, Constants DEF SeasonBoxes
<1>4. seasons \in SUBSET Nat /\ IsFiniteSet(seasons) /\ seasonsave = D!Ascending(seasons)
  BY <1>2, SeasonsBoxed DEF SeasonBoxes
<1>5. seasonRow' # NoRow /\ s \in seasons
  <2> HIDE DEF seasons
  <2> QED BY <1>3, <1>4, ValueOfRow, Constants
<1>6. numbers \in SUBSET Nat /\ IsFiniteSet(numbers) /\ numbers # {}
  BY <1>2, <1>5, EpisodesBoxed
<1>7. /\ episodesave' = D!Ascending(numbers)
      /\ episodeRow' = NewRow(Cardinality(numbers), MaxEe)
      /\ episodeMark' = "selected"
  BY <1>2, <1>6, SameRows, SameSets DEF D!BoxEpisodes, EpisodeBoxes
<1> HIDE DEF numbers
<1>8. RowOK(episodeRow', MaxEe) /\ episodeRow'.n = Cardinality(numbers)
  BY <1>6, <1>7, NewRowOK, AscendingEnds, Constants
<1>9. episodeRow' # NoRow
  BY <1>6, <1>8, ValueOfRow, Constants
<1>10. SeasonBoxes'
  BY <1>2, <1>3 DEF SeasonBoxes, pageFrame, Listing
<1>11. EpisodeBoxes'
  BY <1>2, <1>7, <1>8 DEF EpisodeBoxes, BoxedHere, numbers, pageFrame, Listing
<1>12. Boxes'
  BY <1>1, <1>5, <1>9, <1>10, <1>11 DEF Boxes, Away, pageFrame
<1> QED BY <1>1, <1>12, FrameKept DEF PageInv

\* The button: what is asked for is read out of the two rows.
LEMMA SearchStep ==
  ASSUME PageInv, D!KeysWork, ssindex = 2, D!Search
  PROVE  PageInv'
<1>1. scene = "InfoPage" /\ ~pageWaiting /\ fetch = "none"
  BY DEF D!KeysWork, PageInv, Completing
<1> DEFINE show == seasonRow # D!NoRow
           s == IF show THEN D!MarkedSeason ELSE 0
           e == IF show THEN D!MarkedEpisode ELSE 0
           search == [title |-> title, season |-> s, episode |-> e,
                      route |-> IF show THEN "tmdb" ELSE "query"]
<1>2. searches' = searches \cup {search} /\ UNCHANGED <<scene, boxVars, fetch, raced>>
  BY DEF D!Search, boxVars, D!rowVars
<1>3. Boxes'
  BY <1>2, BoxesKept DEF PageInv, Away
<1>4. Completing'
  BY <1>1, <1>2 DEF PageInv, Completing, Away
<1>5. ASSUME title \in ShowTitles PROVE Aired(s, e) \in Listing(title)
  <2>1. CASE ~show
    <3>1. s = 0 /\ e = 0
      BY <2>1
    <3> QED BY <1>5, <3>1, ListingFinite
  <2>2. CASE show
    <3> DEFINE seasons == D!BoxedSeasons(Listing(title))
    <3>1. SeasonBoxes /\ seasonMark = "selected"
      BY <2>2, SameRows DEF PageInv, Boxes, SeasonBoxes
    <3>2. seasons \in SUBSET Nat /\ IsFiniteSet(seasons) /\ seasonsave = D!Ascending(seasons)
          /\ RowOK(seasonRow, MaxSe) /\ seasonRow.n = Cardinality(seasons)
      BY <1>5, <3>1, SeasonsBoxed DEF SeasonBoxes
    <3>3. s = D!Value(seasonRow, seasonsave)
      BY <2>2, <3>1 DEF D!MarkedSeason
    <3>4. s \in seasons
      <4> HIDE DEF seasons, s
      <4> QED BY <3>2, <3>3, ValueOfRow, Constants
    <3>5. CASE episodeRow = NoRow
      <4>1. e = 0
        BY <2>2, <3>5 DEF PageInv, Boxes, D!MarkedEpisode
      <4> QED BY <1>5, <3>4, <4>1, SeasonsBoxed
    <3>6. CASE episodeRow # NoRow
      <4>1. EpisodeBoxes /\ episodeMark = "selected"
        BY <3>6 DEF PageInv, Boxes, EpisodeBoxes
      <4>2. e = D!Value(episodeRow, episodesave)
        BY <2>2, <4>1 DEF D!MarkedEpisode
      <4>3. /\ BoxedHere \in SUBSET Nat /\ IsFiniteSet(BoxedHere)
            /\ \A n \in BoxedHere : Aired(s, n) \in Listing(title)
        BY <1>5, <3>3, EpisodesBoxed DEF BoxedHere
      <4>4. e \in BoxedHere
        <5> HIDE DEF e
        <5> QED BY <4>1, <4>2, <4>3, ValueOfRow, Constants DEF EpisodeBoxes
      <4> QED BY <4>3, <4>4
    <3> QED BY <3>5, <3>6
  <2> QED BY <2>1, <2>2
<1>6. AsksForAired'
  <2>1. search.title = title /\ search.season = s /\ search.episode = e
    OBVIOUS
  <2> HIDE DEF search, s, e
  <2> QED BY <1>2, <1>5, <2>1 DEF PageInv, AsksForAired, D!AsksForAired, Aired, Listing
<1> QED BY <1>3, <1>4, <1>6 DEF PageInv

LEMMA KeyStepOfPage ==
  ASSUME PageInv, D!KeyStep
  PROVE  PageInv'
<1>1. CASE D!Return
  BY <1>1, ReturnStep
<1>2. CASE D!Up
  BY <1>2, RowLeftStep, SameRows DEF D!Up
<1>3. CASE D!Down
  BY <1>3, RowLeftStep DEF D!Down
<1>4. CASE D!Enter
  BY <1>4, RowLeftStep, SearchStep DEF D!Enter
<1>5. CASE D!Right
  <2>1. CASE D!MoveEpisode(D!MovedRight)
    BY <1>5, <2>1, EpisodeMovedStep, SameRows
    DEF D!Right, D!MoveEpisode, D!pageVars, D!searchVars, pageFrame
  <2>2. CASE D!MoveSeason(D!MovedRight)
    BY <1>5, <2>2, SeasonMovedStep, SameRows
    DEF D!Right, D!MoveSeason, D!pageVars, D!searchVars, pageFrame
  <2> QED BY <1>5, <2>1, <2>2 DEF D!Right
<1>6. CASE D!Left
  <2>1. CASE D!MoveEpisode(D!MovedLeft)
    BY <1>6, <2>1, EpisodeMovedStep, SameRows
    DEF D!Left, D!MoveEpisode, D!pageVars, D!searchVars, pageFrame
  <2>2. CASE D!MoveSeason(D!MovedLeft)
    BY <1>6, <2>2, SeasonMovedStep, SameRows
    DEF D!Left, D!MoveSeason, D!pageVars, D!searchVars, pageFrame
  <2> QED BY <1>6, <2>1, <2>2 DEF D!Left
<1> QED BY <1>1, <1>2, <1>3, <1>4, <1>5, <1>6 DEF D!KeyStep

LEMMA PageStepOfPage ==
  ASSUME PageInv, D!PageStep
  PROVE  PageInv'
BY CompletingStep, EpisodesAnsweredStep, SearchEndsStep DEF D!PageStep, D!SearchEnds

-----------------------------------------------------------------------------
(* Steps of the settings *)

LEMMA RecordsOfSettings ==
  /\ S!Defaults \in Stored /\ S!Defaults.menu = "default" /\ S!Defaults.style = "default"
  /\ S!NoData.version = "none" /\ S!NoData \notin Stored
  /\ \A r, q \in Stored : r.menu = q.menu /\ r.style = q.style => r = q
<1>1. S!Defaults \in Stored /\ S!Defaults.menu = "default" /\ S!Defaults.style = "default"
  BY DEF S!Defaults, Stored, S!Values
<1>2. S!NoData.version = "none"
  BY DEF S!NoData
<1>3. \A r \in Stored : r.version = "this"
  BY DEF Stored, S!Version
<1>4. \A r, q \in Stored : r.menu = q.menu /\ r.style = q.style => r = q
  BY DEF Stored
<1> QED BY <1>1, <1>2, <1>3, <1>4

\* Other scenes leave the settings alone, and one takes the focus from them only in a race.
LEMMA SettingsElsewhere ==
  ASSUME SettingsInv, Loaded, UNCHANGED settingVars, raced => raced',
         scene' = scene \/ scene # "SettingsPage" \/ raced'
  PROVE  SettingsInv'
BY DEF SettingsInv, Loaded, settingVars, Read

LEMMA SettingsLoaded ==
  ASSUME SettingsInv, S!CreateOrLoadTemp
  PROVE  SettingsInv'
<1>1. wanted' = wanted /\ wanted \in [menu : S!Values, style : S!Values]
  BY DEF S!CreateOrLoadTemp, SettingsInv
<1>2. CASE localData = S!NoData
  <2>1. wanted = [menu |-> "default", style |-> "default"]
    BY <1>2, RecordsOfSettings DEF SettingsInv, Read, Unread, S!Version
  <2>2. saveSettings' = S!Defaults /\ localData' = S!Defaults
    BY <1>2, RecordsOfSettings DEF S!CreateOrLoadTemp, S!Version
  <2> QED BY <1>1, <2>1, <2>2, RecordsOfSettings DEF SettingsInv, Read, Loaded
<1>3. CASE localData.version = S!Version
  <2>1. saveSettings' = localData /\ UNCHANGED <<localData, defaulted>>
    BY <1>3, RecordsOfSettings DEF S!CreateOrLoadTemp, S!Version
  <2>2. localData \in Stored /\ localData.menu = wanted.menu
        /\ (~defaulted => localData.style = wanted.style)
    <3>1. CASE Loaded
      BY <1>1, <3>1 DEF SettingsInv, Read
    <3>2. CASE ~Loaded
      BY <1>1, <1>3, <3>2, RecordsOfSettings DEF SettingsInv, Unread, Stored, S!Version
    <3> QED BY <3>1, <3>2
  <2> QED BY <1>1, <2>1, <2>2, RecordsOfSettings DEF SettingsInv, Read, Loaded
<1>4. CASE localData # S!NoData /\ localData.version # S!Version
  <2>1. localData = [menu |-> wanted.menu, style |-> wanted.style, version |-> "other"]
    BY <1>4 DEF SettingsInv, Read, Unread, Stored
  <2> DEFINE new == [menu |-> wanted.menu, style |-> wanted.style, version |-> S!Version]
  <2>2. /\ saveSettings' = S!Defaults /\ localData' = new
        /\ defaulted' = (defaulted \/ new # S!Defaults)
    BY <1>4, <2>1 DEF S!CreateOrLoadTemp, S!Version
  <2>3. new \in Stored /\ new.menu = wanted.menu /\ new.style = wanted.style
    BY <1>1 DEF Stored
  <2> QED BY <1>1, <2>2, <2>3, RecordsOfSettings DEF SettingsInv, Read, Loaded
<1> QED BY <1>2, <1>3, <1>4

LEMMA SettingsChanged ==
  ASSUME SettingsInv, Loaded, ChangeSetting \/ LeaveSettings \/ KeepSettings \/ KeepStyle \/ OpenSettings
  PROVE  SettingsInv'
<1>1. wanted \in [menu : S!Values, style : S!Values] /\ Read /\ saveSettings # S!NoData
  BY DEF SettingsInv, Loaded
<1>2. saveSettings \in Stored /\ localData \in Stored
  BY <1>1 DEF Read
<1>3. CASE ChangeSetting
  <2>1. scene = "SettingsPage" /\ UNCHANGED <<scene, localData, wanted, defaulted, raced>>
    BY <1>3 DEF ChangeSetting, S!Choose, detailVars
  <2>2. PICK v \in S!Values : saveSettings' = [saveSettings EXCEPT !.menu = v]
    BY <1>3 DEF ChangeSetting, S!Choose
  <2>3. saveSettings' \in Stored /\ saveSettings'.style = saveSettings.style
    BY <1>2, <2>2 DEF Stored
  <2> QED BY <1>1, <2>1, <2>3, RecordsOfSettings DEF SettingsInv, Loaded, Read
<1>4. CASE LeaveSettings \/ OpenSettings
  BY <1>4, SettingsLoaded DEF LeaveSettings, OpenSettings
<1>5. CASE KeepSettings
  <2>0. scene' = "Main" /\ raced' = raced
    BY <1>5 DEF KeepSettings, detailVars
  <2>1. CASE S!SaveTemp
    <3>1. /\ localData' = saveSettings /\ UNCHANGED <<saveSettings, defaulted>>
          /\ wanted' = [menu |-> saveSettings.menu, style |-> wanted.style]
      BY <2>1 DEF S!SaveTemp
    <3>2. wanted' \in [menu : S!Values, style : S!Values]
      BY <1>1, <1>2, <3>1 DEF Stored
    <3> QED BY <1>1, <3>1, <3>2 DEF SettingsInv, Loaded, Read
  <2>2. CASE S!RestoreDefaultTemp
    <3>1. /\ saveSettings' = S!Defaults /\ localData' = S!Defaults /\ defaulted' = defaulted
          /\ wanted' = [menu |-> "default", style |-> "default"]
      BY <2>2 DEF S!RestoreDefaultTemp
    <3> QED BY <3>1, RecordsOfSettings DEF SettingsInv, Loaded, Read, S!Values
  <2> QED BY <1>5, <2>1, <2>2 DEF KeepSettings
<1>6. CASE KeepStyle
  <2>1. UNCHANGED <<scene, defaulted, raced>>
    BY <1>6 DEF KeepStyle, S!KeepStyle, detailVars
  <2>2. PICK v \in S!Values :
           /\ saveSettings' = [saveSettings EXCEPT !.style = v]
           /\ localData' = [localData EXCEPT !.style = v]
           /\ wanted' = IF v = saveSettings.style THEN wanted ELSE [wanted EXCEPT !.style = v]
    BY <1>6 DEF KeepStyle, S!KeepStyle
  <2>3. /\ saveSettings' \in Stored /\ saveSettings'.menu = saveSettings.menu
        /\ saveSettings'.style = v
        /\ localData' \in Stored /\ localData'.menu = localData.menu /\ localData'.style = v
    BY <1>2, <2>2 DEF Stored
  <2>4. /\ wanted' \in [menu : S!Values, style : S!Values] /\ wanted'.menu = wanted.menu
        /\ wanted'.style = v \/ (wanted' = wanted /\ v = saveSettings.style)
    BY <1>1, <2>2
  <2> QED BY <1>1, <2>1, <2>3, <2>4, RecordsOfSettings DEF SettingsInv, Loaded, Read
<1> QED BY <1>3, <1>4, <1>5, <1>6

LEMMA SettingsInvKept ==
  ASSUME SettingsInv
  PROVE  SettingsKept
BY RecordsOfSettings DEF SettingsInv, Loaded, Read, SettingsKept, S!SettingsKept

-----------------------------------------------------------------------------
(* The main page behind the others *)

Titles == DOMAIN Id

Typed ==
  /\ wrapData \in Seq(Titles) /\ save.wrapData \in Seq(Titles) /\ favdata \in Seq(Titles)
  /\ position \in Int /\ save.position \in Int
  /\ scroll.step = "rotate" => scroll.offset \in Int

\* No timer of the main page is out that opens its key gate or moves the position.
Idle == scroll = NoScroll /\ ~favsaving /\ start = "none"

\* At most one of them is, and none while keys are taken, or another scene has the focus.
Gate ==
  InStep =>
    /\ ~waiting \/ searcherror => Idle
    /\ favsaving => scroll = NoScroll /\ start = "none"
    /\ scroll # NoScroll => start = "none"
    /\ scene \in {"MainMenu", "SortMenu", "SettingsPage"} => Idle /\ ~searcherror
    /\ scene \in {"InfoPage", "HostsMenu"} /\ ~raced => Idle

\* The way to the first list, from the start of the widget to a request for it, or to the
\* message that there is no server.
Chain == {"launching", "launched", "askingOwn", "looking", "found", "asking"}

Starting ==
  /\ start \in Chain \/ noTryAgain =>
       /\ requests = {} /\ grids = {} /\ searches = {}
       /\ waiting /\ ~searcherror /\ scroll = NoScroll /\ ~favsaving /\ scene = "Main"
  /\ start \in Chain => ~justexit
  /\ start # "none" => ~noTryAgain

\* The page is that of the title in the position.
InPlace ==
  scene \in {"InfoPage", "HostsMenu"} /\ InStep /\ ~raced => Has(position) /\ Item(position) = title

\* One search is out at a time, for what is marked, and the list it opens is its own.
Asked == IF title \in ShowTitles THEN <<title, D!MarkedSeason, D!MarkedEpisode>> ELSE <<title, 0, 0>>

Searching ==
  ~raced =>
    /\ nohostreturn /\ ~Away => pageWaiting
    /\ searches # {} =>
         /\ scene = "InfoPage" /\ pageWaiting /\ ~nohostreturn /\ torrents = {}
         /\ \E s : searches = {s} /\ <<s.title, s.season, s.episode>> = Asked
    /\ scene = "HostsMenu" => searches = {} /\ torrents = {Asked}

MainInv == Typed /\ Gate /\ Starting
FitInv == InPlace /\ Searching

-----------------------------------------------------------------------------
(* Lists of titles *)

LEMMA PickedIsList ==
  ASSUME NEW A, NEW seq \in Seq(A), NEW I \in SUBSET DOMAIN seq
  PROVE  Picked(seq, I) \in Seq(A)
<1>1. DOMAIN seq = 1 .. Len(seq) /\ Len(seq) \in Nat /\ \A i \in DOMAIN seq : seq[i] \in A
  OBVIOUS
<1>2. IsFiniteSet(I) /\ I \in SUBSET Nat
  <2>1. IsFiniteSet(1 .. Len(seq))
    BY <1>1, FS_Interval
  <2> QED BY <1>1, <2>1, FS_Subset
<1>3. Cardinality(I) \in Nat
  BY <1>2, FS_CardinalityType
<1>4. \A k \in 1 .. Cardinality(I) : Picked(seq, I)[k] = seq[D!Ascending(I)[k]]
  <2> TAKE k \in 1 .. Cardinality(I)
  <2>1. D!Ascending(I)[k] = CHOOSE i \in I : Cardinality(Below(I, i)) = k
    BY SameSets DEF D!Ascending, Below
  <2>2. Picked(seq, I)[k] = seq[CHOOSE i \in I : Cardinality(Below(I, i)) = k]
    BY DEF Picked, Below
  <2> QED BY <2>1, <2>2
<1>5. \A k \in 1 .. Cardinality(I) : D!Ascending(I)[k] \in I
  BY <1>2, AscendingLists
<1>6. \A k \in 1 .. Cardinality(I) : Picked(seq, I)[k] \in A
  BY <1>1, <1>4, <1>5
<1>7. Picked(seq, I) = [k \in 1 .. Cardinality(I) |-> Picked(seq, I)[k]]
  BY DEF Picked
<1> DEFINE p == Picked(seq, I)
<1> HIDE DEF p
<1>8. p \in [1 .. Cardinality(I) -> A]
  BY <1>6, <1>7 DEF p
<1> QED BY <1>3, <1>8 DEF p

\* What is there stays where it is.
LEMMA KeptGoesOn ==
  ASSUME NEW A, NEW data \in Seq(A), NEW titles \in Seq(A)
  PROVE  /\ Kept(data, titles) \in Seq(A)
         /\ Len(data) <= Len(Kept(data, titles))
         /\ \A i \in 1 .. Len(data) : Kept(data, titles)[i] = data[i]
<1> DEFINE I == {i \in DOMAIN titles : /\ titles[i] \notin Range(data)
                                       /\ \A j \in 1 .. i - 1 : titles[j] # titles[i]}
           new == Picked(titles, I)
<1>1. new \in Seq(A)
  BY PickedIsList
<1>2. Kept(data, titles) = data \o new
  BY DEF Kept
<1> HIDE DEF new
<1> QED BY <1>1, <1>2

LEMMA EmptyList == << >> \in Seq(Titles)
  OBVIOUS

LEMMA TitledIsList ==
  ASSUME NEW r
  PROVE  Titled(r) \in Seq(Titles) /\ (IsSearch(r) => Dummies[r.name] \in Seq(Titles))
<1>1. CASE r.name \in Discover
  <2>1. r.page \in DOMAIN Pages[r.name] => Pages[r.name][r.page] \in Seq(Titles)
    BY <1>1, ListsAssumption DEF Titles
  <2>2. r.name \in Texts => Dummies[r.name] \in Seq(Titles)
    BY ListsAssumption DEF Titles
  <2>3. Titled(r) = IF r.page \in DOMAIN Pages[r.name] THEN Pages[r.name][r.page] ELSE << >>
    BY <1>1, ListsAssumption DEF Titled, IsSearch
  <2> QED BY <2>1, <2>2, <2>3, EmptyList DEF IsSearch
<1>2. CASE r.name \notin Discover /\ r.name \in Texts
  <2>1. /\ Found[r.name].films \in Seq(Titles) /\ Found[r.name].shows \in Seq(Titles)
        /\ Dummies[r.name] \in Seq(Titles)
    BY <1>2, ListsAssumption DEF Titles
  <2>2. Titled(r) = IF r.type = "first" THEN Found[r.name].films ELSE Found[r.name].shows
    BY <1>2 DEF Titled, IsSearch
  <2> QED BY <2>1, <2>2
<1>3. CASE r.name \notin Discover /\ r.name \notin Texts
  BY <1>3, EmptyList DEF Titled, IsSearch
<1> QED BY <1>1, <1>2, <1>3

-----------------------------------------------------------------------------
(* Callbacks and timers of the main page *)

LEMMA GateKept ==
  ASSUME Gate, InStep' => InStep,
         UNCHANGED <<waiting, searcherror, scroll, favsaving, start, scene, raced>>
  PROVE  Gate'
BY DEF Gate, Idle

LEMMA StartingKept ==
  ASSUME Starting, ~(start \in Chain \/ noTryAgain), UNCHANGED <<start, noTryAgain>>
  PROVE  Starting'
BY DEF Starting

LEMMA PlaceKept ==
  ASSUME InPlace, InStep' => InStep, UNCHANGED <<scene, raced, title, position, wrapData>>
  PROVE  InPlace'
BY DEF InPlace, Has, Item

LEMMA TypedKept ==
  ASSUME Typed, UNCHANGED <<wrapData, save, favdata, position, scroll>>
  PROVE  Typed'
BY DEF Typed

\* late and regrid are never taken back.
LEMMA StillInStep ==
  ASSUME UNCHANGED <<late, regrid>>
  PROVE  InStep' <=> InStep
BY DEF InStep

LEMMA AnsweredStep ==
  ASSUME MainInv, InPlace, NEW r \in requests, Answered(r), UNCHANGED <<start, mainOnly>>
  PROVE  MainInv' /\ InPlace'
<1>1. /\ UNCHANGED <<start, scene, raced, title, searches>>
      /\ UNCHANGED <<position, scroll, waiting, searcherror, noTryAgain, save, favdata, favsaving>>
      /\ late' = (late \/ r.list # list) /\ regrid' = regrid
  BY DEF Answered, mainOnly, detailVars, favVars
<1>2. PICK titles \in Seq(Titles) : wrapData' = Kept(wrapData, titles)
  <2>1. PICK found \in {Titled(r), << >>} :
          Take(IF found = << >> /\ IsSearch(r) /\ r.type = "silent" THEN Dummies[r.name]
               ELSE found, r)
    BY DEF Answered
  <2>2. found \in Seq(Titles)
    BY <2>1, TitledIsList, EmptyList
  <2>3. (IF found = << >> /\ IsSearch(r) /\ r.type = "silent" THEN Dummies[r.name] ELSE found)
          \in Seq(Titles)
    BY <2>2, TitledIsList
  <2> QED BY <2>1, <2>3 DEF Take
<1>3. InStep' => InStep
  BY <1>1, Zenon DEF InStep
<1>4. wrapData \in Seq(Titles) /\ position \in Int
  BY DEF MainInv, Typed
<1>5. /\ wrapData' \in Seq(Titles)
      /\ Len(wrapData) <= Len(wrapData')
      /\ \A i \in 1 .. Len(wrapData) : wrapData'[i] = wrapData[i]
  BY <1>2, <1>4, KeptGoesOn
<1>6. Typed'
  BY <1>1, <1>5 DEF MainInv, Typed
<1>7. Gate'
  BY <1>1, <1>3, GateKept DEF MainInv
<1>8. Starting'
  BY <1>1, StartingKept DEF MainInv, Starting
<1>9. Has(position) => Has(position)' /\ Item(position)' = Item(position)
  BY <1>1, <1>4, <1>5 DEF Has, Item
<1>10. InPlace'
  BY <1>1, <1>3, <1>9 DEF InPlace
<1> QED BY <1>6, <1>7, <1>8, <1>10 DEF MainInv

LEMMA RequestEndsStep ==
  ASSUME MainInv, InPlace, NEW r \in requests,
         RequestFails(r) \/ RequestTimesOut(r) \/ ServerChecked(r), UNCHANGED <<start, mainOnly>>
  PROVE  MainInv' /\ InPlace'
<1>1. /\ UNCHANGED <<start, scene, raced, title, searches>>
      /\ UNCHANGED <<wrapData, position, scroll, waiting, searcherror, noTryAgain, save, favdata,
                     favsaving>>
      /\ regrid' = regrid
  BY DEF RequestFails, RequestTimesOut, ServerChecked, mainOnly, detailVars, favVars, gridVars,
         screenVars, listVars, auxVars
<1>2. late' = (late \/ r.list # list) \/ late' = late
  BY DEF RequestFails, RequestTimesOut, ServerChecked, auxVars
<1>3. InStep' => InStep
  BY <1>1, <1>2, Zenon DEF InStep
<1>4. Typed' /\ Gate' /\ Starting' /\ InPlace'
  BY <1>1, <1>3, TypedKept, GateKept, StartingKept, PlaceKept DEF MainInv, Starting
<1> QED BY <1>4 DEF MainInv

LEMMA GridShownStep ==
  ASSUME MainInv, InPlace, NEW g \in grids, GridShown(g, start # "none"), UNCHANGED <<start, mainOnly>>
  PROVE  MainInv' /\ InPlace'
<1>1. /\ UNCHANGED <<start, scene, raced, title, searches>>
      /\ UNCHANGED <<wrapData, position, scroll, searcherror, noTryAgain, save, favdata, favsaving>>
      /\ ~waiting'
      /\ late' = (late \/ g.list # list)
      /\ regrid' = (regrid \/ selected \ {0} # {} \/ scroll # NoScroll \/ favsaving \/ start # "none")
  BY DEF GridShown, mainOnly, detailVars, favVars, listVars
<1>2. InStep' => InStep /\ ~(scroll # NoScroll) /\ ~favsaving /\ ~(start # "none")
  BY <1>1, Zenon DEF InStep
<1>3. InStep' => InStep /\ Idle'
  BY <1>1, <1>2 DEF Idle
<1>4. Gate'
  BY <1>1, <1>3 DEF MainInv, Gate, Idle
<1>5. Typed' /\ Starting' /\ InPlace'
  BY <1>1, <1>3, TypedKept, StartingKept, PlaceKept DEF MainInv, Starting
<1> QED BY <1>4, <1>5 DEF MainInv

\* The timers of a scroll and of a favourite, each of which is the only one out.
LEMMA TimerOfMainStep ==
  ASSUME MainInv, InPlace, GridRotates \/ GridReleased \/ FavouriteSaved, UNCHANGED <<start, mainOnly>>
  PROVE  MainInv' /\ InPlace'
<1>1. /\ UNCHANGED <<start, scene, raced, title, searches>>
      /\ UNCHANGED <<wrapData, searcherror, noTryAgain, justexit, requests, grids, save, favdata,
                     late, regrid>>
  BY DEF GridRotates, GridReleased, FavouriteSaved, keyFrame, mainOnly, detailVars, favVars,
         listVars, gridVars, auxVars
<1>2. InStep' <=> InStep
  BY <1>1, StillInStep
<1>3. Starting'
  BY <1>1 DEF MainInv, Starting, GridRotates, GridReleased, FavouriteSaved, NoScroll
<1>4. CASE GridRotates
  <2>1. /\ scroll.step = "rotate" /\ scroll' = [step |-> "release"]
        /\ UNCHANGED <<waiting, favsaving>>
        /\ position' = position \/ position' = position - scroll.offset
    BY <1>4 DEF GridRotates, keyFrame, favVars
  <2>2. scroll # NoScroll /\ scroll' # NoScroll
    BY <2>1 DEF NoScroll
  <2>3. position' \in Int
    BY <2>1 DEF MainInv, Typed
  <2>4. Typed'
    BY <1>1, <2>1, <2>3 DEF MainInv, Typed
  <2>5. Gate'
    BY <1>1, <1>2, <2>1, <2>2 DEF MainInv, Gate, Idle
  <2>6. InPlace'
    BY <1>1, <1>2, <2>2 DEF MainInv, Gate, Idle, InPlace
  <2> QED BY <1>3, <2>4, <2>5, <2>6 DEF MainInv
<1>5. CASE GridReleased \/ FavouriteSaved
  <2>1. /\ UNCHANGED position /\ ~waiting'
        /\ \/ scroll # NoScroll /\ scroll' = NoScroll /\ favsaving' = favsaving
           \/ favsaving /\ ~favsaving' /\ scroll' = scroll
    BY <1>5 DEF GridReleased, FavouriteSaved, NoScroll, keyFrame, listVars, gridVars, favVars
  <2>2. InStep => Idle'
    BY <1>1, <2>1 DEF MainInv, Gate, Idle
  <2>3. Gate'
    BY <1>1, <1>2, <2>1, <2>2 DEF MainInv, Gate, Idle
  <2>4. Typed'
    BY <1>1, <2>1 DEF MainInv, Typed, NoScroll
  <2>5. InPlace'
    BY <1>1, <1>2, <2>1, PlaceKept
  <2> QED BY <1>3, <2>3, <2>4, <2>5 DEF MainInv
<1> QED BY <1>4, <1>5

LEMMA MainCallbackStep ==
  ASSUME MainInv, InPlace, MainCallback
  PROVE  MainInv' /\ InPlace'
BY AnsweredStep, RequestEndsStep, GridShownStep, TimerOfMainStep DEF MainCallback

-----------------------------------------------------------------------------
(* The start of the widget *)

LEMMA StartCallbackStep ==
  ASSUME MainInv, InPlace, StartCallback
  PROVE  MainInv' /\ InPlace'
<1>1. /\ UNCHANGED <<scene, raced, title, searches>> /\ start # "none"
      /\ UNCHANGED <<scroll, favsaving, save, favdata, late, regrid, grids>>
      /\ waiting => waiting'
      /\ ~searcherror => ~searcherror'
  BY DEF StartCallback, StartSteps, ServerLaunched, LaunchTimesOut, ServerFound, ServerNotFound,
         AskServer, ServerStarted, ServerNotStarted, RestartAnswered, ListFilms, NoServer,
         startFrame, mainOnly, detailVars, favVars, auxVars, gridVars, ShowDiscover, OpenList, AskFirst
<1>2. InStep' <=> InStep
  BY <1>1, StillInStep
<1>3. Gate'
  <2>1. InStep => /\ waiting /\ ~searcherror /\ scroll = NoScroll /\ ~favsaving
                  /\ scene \notin {"MainMenu", "SortMenu", "SettingsPage"}
                  /\ scene \in {"InfoPage", "HostsMenu"} => raced
    BY <1>1 DEF MainInv, Gate, Idle
  <2> QED BY <1>1, <1>2, <2>1 DEF Gate
<1>4. InPlace'
  BY <1>1, <1>2 DEF MainInv, Gate, Idle, InPlace
<1>5. CASE ListFilms
  <2>1. /\ wrapData' = << >> /\ position' = 0 /\ start' = "none" /\ noTryAgain' = noTryAgain
        /\ start \in {"restarting", "restarted"}
    BY <1>5 DEF ListFilms, ShowDiscover, OpenList, AskFirst
  <2>2. Typed'
    BY <1>1, <2>1, EmptyList DEF MainInv, Typed
  <2>3. Starting'
    BY <2>1 DEF MainInv, Starting, Chain
  <2> QED BY <1>3, <1>4, <2>2, <2>3 DEF MainInv
<1>6. CASE ~ListFilms
  <2>1. UNCHANGED <<wrapData, position>>
    BY <1>6 DEF StartCallback, StartSteps, ServerLaunched, LaunchTimesOut, ServerFound,
         ServerNotFound, AskServer, ServerStarted, ServerNotStarted, RestartAnswered, NoServer,
         startFrame, listVars
  <2>2. Typed'
    BY <1>1, <2>1, TypedKept DEF MainInv
  <2>3. CASE ServerStarted
    <3>1. start' \in {"none", "restarting"} /\ noTryAgain' = noTryAgain /\ start \in Chain
      BY <2>3 DEF ServerStarted, Chain
    <3>2. Starting'
      BY <3>1 DEF MainInv, Starting, Chain
    <3> QED BY <1>3, <1>4, <2>2, <3>2 DEF MainInv
  <2>4. CASE ~ServerStarted
    <3>1. /\ UNCHANGED <<requests, waiting, searcherror>>
          /\ \/ start \in Chain /\ start' \in Chain /\ UNCHANGED <<justexit, noTryAgain>>
             \/ start \in Chain /\ start' = "none"
             \/ start' = "restarted" /\ UNCHANGED <<justexit, noTryAgain>>
      BY <1>6, <2>4 DEF StartCallback, StartSteps, ServerLaunched, LaunchTimesOut, ServerFound,
           ServerNotFound, AskServer, ServerNotStarted, RestartAnswered, NoServer, startFrame,
           notExit, Chain
    <3>2. Starting'
      BY <1>1, <3>1 DEF MainInv, Starting, Chain
    <3> QED BY <1>3, <1>4, <2>2, <3>2 DEF MainInv
  <2> QED BY <2>3, <2>4
<1> QED BY <1>5, <1>6

LEMMA LookAgainStep ==
  ASSUME MainInv, InPlace, LookAgainKey
  PROVE  MainInv' /\ InPlace'
<1>1. /\ UNCHANGED <<scene, raced, title, searches>> /\ scene = "Main" /\ noTryAgain
      /\ UNCHANGED <<wrapData, position, waiting, searcherror, scroll, favsaving, save, favdata, late,
                     regrid, grids, requests>>
      /\ start' = "looking" /\ ~justexit' /\ ~noTryAgain'
  BY DEF LookAgainKey, OnMain, LookAgain, startFrame, mainOnly, detailVars, favVars, auxVars, gridVars,
         listVars
<1>2. InStep' <=> InStep
  BY <1>1, StillInStep
<1>3. Typed' /\ InPlace'
  BY <1>1, <1>2, TypedKept, PlaceKept DEF MainInv
<1>4. Starting'
  BY <1>1 DEF MainInv, Starting, Chain
<1>5. Gate'
  BY <1>1, <1>2 DEF MainInv, Gate, Idle, Starting
<1> QED BY <1>3, <1>4, <1>5 DEF MainInv

-----------------------------------------------------------------------------
(* Keys of the main page *)

LEMMA Widths == W \in Nat \ {0} /\ \A i \in Int : i % W \in Int
<1>1. W \in Nat \ {0}
  BY GridAssumption
<1> QED BY <1>1

\* On the main page itself a key starts one timer at most, or shows another list.
LEMMA GateOnMain ==
  ASSUME scene' = "Main",
         InStep' => \/ Idle'
                    \/ /\ waiting' /\ ~searcherror' /\ start' = "none"
                       /\ ~favsaving' \/ scroll' = NoScroll
  PROVE  Gate'
BY DEF Gate, Idle

LEMMA FavouritesShown ==
  ASSUME ShowFavouritesMenu, Typed, favdata' \in Seq(Titles)
  PROVE  Typed' /\ UNCHANGED <<scroll, favsaving, noTryAgain, late, regrid>>
<1>1. Kept(<< >>, favdata') \in Seq(Titles)
  BY EmptyList, KeptGoesOn
<1>2. /\ wrapData' = Kept(<< >>, favdata') /\ position' = 0
      /\ save'.wrapData = wrapData /\ save'.position = position
      /\ UNCHANGED <<scroll, favsaving, noTryAgain, late, regrid>>
  BY DEF ShowFavouritesMenu, OpenList, SaveList
<1> QED BY <1>1, <1>2 DEF Typed

LEMMA DiscoverShown ==
  ASSUME NEW name, ShowDiscover(name), Typed
  PROVE  Typed' /\ UNCHANGED <<scroll, favsaving, noTryAgain, late, regrid>> /\ waiting' /\ ~searcherror'
<1>1. /\ wrapData' = << >> /\ position' = 0 /\ UNCHANGED <<save, favdata>>
      /\ UNCHANGED <<scroll, favsaving, noTryAgain, late, regrid>> /\ waiting' /\ ~searcherror'
  BY DEF ShowDiscover, OpenList, AskFirst
<1> QED BY <1>1, EmptyList DEF Typed

LEMMA SearchShown ==
  ASSUME NEW text, ShowSearchMenu(text), Typed
  PROVE  Typed' /\ UNCHANGED <<scroll, favsaving, noTryAgain, late, regrid>> /\ waiting' /\ ~searcherror'
<1>1. /\ wrapData' = << >> /\ position' = 0 /\ UNCHANGED favdata
      /\ save'.wrapData = wrapData /\ save'.position = position
      /\ UNCHANGED <<scroll, favsaving, noTryAgain, late, regrid>> /\ waiting' /\ ~searcherror'
  BY DEF ShowSearchMenu, OpenList, AskFirst, SaveList
<1> QED BY <1>1, EmptyList DEF Typed

LEMMA MoveKeyTyped ==
  ASSUME Typed, KeysWork, DownKey \/ UpKey \/ RightKey \/ LeftKey
  PROVE  Typed'
<1>1. /\ UNCHANGED <<wrapData, save, favdata>>
      /\ \/ position' \in {position, position + W, position - W, position + 1, position - 1}
            /\ scroll' = scroll
         \/ \E dir \in {"down", "up"}, c \in selected :
               /\ position' \in {position + W, position - W}
               /\ scroll' = [step |-> "rotate", dir |-> dir, slot |-> c, offset |-> position % W]
  BY DEF DownKey, UpKey, RightKey, LeftKey, ScrollGrid, keyFrame, favVars, gridVars
<1>2. \A dir, c : [step |-> "rotate", dir |-> dir, slot |-> c, offset |-> position % W].offset = position % W
  OBVIOUS
<1>3. position \in Int /\ position' \in Int /\ position % W \in Int
  BY <1>1, Widths DEF Typed
<1>4. scroll'.step = "rotate" => scroll'.offset \in Int
  BY <1>1, <1>2, <1>3 DEF Typed
<1> QED BY <1>1, <1>3, <1>4 DEF Typed

LEMMA MainKeyStep ==
  ASSUME MainInv, InPlace, MainKey
  PROVE  MainInv' /\ InPlace'
<1>1. scene = "Main" /\ UNCHANGED <<start, scene, raced, title, searches>> /\ Loaded
  BY DEF MainKey, Walks, OnMain, mainOnly, detailVars
<1>2. InPlace'
  BY <1>1 DEF InPlace
<1>3. CASE DownKey \/ UpKey \/ RightKey \/ LeftKey
  <2>0. KeysWork
    BY <1>3 DEF DownKey, UpKey, RightKey, LeftKey
  <2>1. InStep /\ ~waiting /\ ~searcherror
    BY <2>0 DEF KeysWork
  <2>2. Typed'
    BY <1>3, <2>0, MoveKeyTyped DEF MainInv
  <2>3. /\ UNCHANGED <<searcherror, favsaving, noTryAgain>>
        /\ scroll' = scroll \/ waiting'
    BY <1>3 DEF DownKey, UpKey, RightKey, LeftKey, ScrollGrid, keyFrame, favVars, gridVars
  <2>4. Gate'
    <3>1. Idle
      BY <2>1 DEF MainInv, Gate
    <3>2. start' = "none" /\ ~favsaving' /\ ~searcherror' /\ (scroll' = NoScroll \/ waiting')
      BY <1>1, <2>1, <2>3, <3>1 DEF Idle
    <3> QED BY <1>1, <3>2, GateOnMain DEF Idle
  <2>5. Starting'
    BY <1>1, <2>1, <2>3, StartingKept DEF MainInv, Starting
  <2> QED BY <1>2, <2>2, <2>4, <2>5 DEF MainInv
<1>4. CASE SaveFavourite
  <2>1. InStep /\ ~waiting /\ ~searcherror
    BY <1>4 DEF SaveFavourite, KeysWork
  <2>2. /\ UNCHANGED <<wrapData, position, scroll, searcherror, save, noTryAgain>> /\ waiting' /\ favsaving'
        /\ favdata' = favdata \/ favdata' = Append(favdata, Item(position))
        /\ Has(position)
    BY <1>4 DEF SaveFavourite, listVars, gridVars
  <2>3. Item(position) \in Titles
    BY <2>2 DEF MainInv, Typed, Has, Item
  <2>4. Typed'
    BY <2>2, <2>3 DEF MainInv, Typed
  <2>5. Gate'
    <3>1. Idle
      BY <2>1 DEF MainInv, Gate
    <3>2. start' = "none" /\ waiting' /\ ~searcherror' /\ scroll' = NoScroll
      BY <1>1, <2>1, <2>2, <3>1 DEF Idle
    <3> QED BY <1>1, <3>2, GateOnMain
  <2>6. Starting'
    BY <1>1, <2>1, <2>2, StartingKept DEF MainInv, Starting
  <2> QED BY <1>2, <2>4, <2>5, <2>6 DEF MainInv
<1>5. CASE RemoveFavourite \/ RemoveAllFavourites
  <2>1. InStep /\ ~waiting /\ ~searcherror /\ ShowFavouritesMenu
    BY <1>5 DEF RemoveFavourite, RemoveAllFavourites, KeysWork
  <2>2. favdata' \in Seq(Titles)
    <3>1. CASE RemoveAllFavourites
      BY <3>1, EmptyList DEF RemoveAllFavourites
    <3>2. CASE RemoveFavourite
      <4> DEFINE I == {i \in DOMAIN favdata : Id[favdata[i]] # Id[Item(position)]}
      <4>1. favdata' = Picked(favdata, I)
        BY <3>2 DEF RemoveFavourite
      <4>2. I \in SUBSET DOMAIN favdata
        OBVIOUS
      <4> HIDE DEF I
      <4> QED BY <4>1, <4>2, PickedIsList DEF MainInv, Typed
    <3> QED BY <1>5, <3>1, <3>2
  <2>3. Typed' /\ UNCHANGED <<scroll, favsaving, noTryAgain, late, regrid>>
    BY <2>1, <2>2, FavouritesShown DEF MainInv
  <2>4. Gate'
    <3>1. Idle
      BY <2>1 DEF MainInv, Gate
    <3>2. Idle'
      BY <1>1, <2>3, <3>1 DEF Idle
    <3> QED BY <1>1, <3>2, GateOnMain
  <2>5. Starting'
    BY <1>1, <2>1, <2>3, StartingKept DEF MainInv, Starting
  <2> QED BY <1>2, <2>3, <2>4, <2>5 DEF MainInv
<1>6. CASE ReturnKey
  <2>1. /\ searcherror /\ UNCHANGED <<scroll, favsaving, noTryAgain, late, regrid, favdata, save>>
        /\ \/ wrapData' = << >> /\ position' = 0
           \/ wrapData' = save.wrapData /\ position' = save.position
    BY <1>6 DEF ReturnKey, OpenList, AskFirst, favVars
  <2>2. Typed'
    <3>1. CASE wrapData' = << >> /\ position' = 0
      BY <2>1, <3>1, EmptyList DEF MainInv, Typed
    <3>2. CASE wrapData' = save.wrapData /\ position' = save.position
      BY <2>1, <3>2 DEF MainInv, Typed
    <3> QED BY <2>1, <3>1, <3>2
  <2>3. InStep' => InStep
    BY <2>1, StillInStep
  <2>4. Gate'
    <3>1. InStep => Idle
      BY <2>1 DEF MainInv, Gate
    <3>2. InStep' => Idle'
      BY <1>1, <2>1, <2>3, <3>1 DEF Idle
    <3> QED BY <1>1, <3>2, GateOnMain
  <2>5. Starting'
    BY <1>1, <2>1, StartingKept DEF MainInv, Starting
  <2> QED BY <1>2, <2>2, <2>4, <2>5 DEF MainInv
<1>7. CASE TryAgain
  <2>1. /\ UNCHANGED <<wrapData, position, save, favdata, scroll, waiting, searcherror, favsaving, late,
                       regrid, noTryAgain>>
        /\ justexit /\ ~noTryAgain
    BY <1>7 DEF TryAgain, listVars, gridVars, favVars, auxVars
  <2>2. Typed' /\ Gate'
    BY <1>1, <2>1, TypedKept, GateKept, StillInStep DEF MainInv
  <2>3. Starting'
    BY <1>1, <2>1, StartingKept DEF MainInv, Starting
  <2> QED BY <1>2, <2>2, <2>3 DEF MainInv
<1> QED BY <1>3, <1>4, <1>5, <1>6, <1>7 DEF MainKey

-----------------------------------------------------------------------------
(* The menus over the main page *)

LEMMA FocusStep ==
  ASSUME MainInv, InPlace, OpenMainMenu \/ OpenSortMenu \/ OpenReceiver \/ Back
  PROVE  MainInv' /\ InPlace'
<1>1. /\ UNCHANGED <<mainVars, start, raced, title, searches>>
      /\ \/ scene' \in {"MainMenu", "SortMenu"} /\ KeysWork
         \/ scene' = "ReceiverPage" /\ ~noTryAgain /\ justexit
         \/ scene' = "Main" /\ scene \notin {"Main", "InfoPage", "HostsMenu"}
  BY DEF OpenMainMenu, OpenSortMenu, OpenReceiver, Back, Focus, Walks, OnMain, mainAll, detailVars
<1>2. UNCHANGED <<wrapData, position, save, favdata, scroll, waiting, searcherror, favsaving, late,
                  regrid, noTryAgain, justexit, requests, grids>>
  BY <1>1 DEF mainVars, listVars, gridVars, favVars, auxVars, screenVars
<1>3. Typed' /\ (InStep' <=> InStep)
  BY <1>2, TypedKept, StillInStep DEF MainInv
<1>4. Gate'
  BY <1>1, <1>2, <1>3 DEF MainInv, Gate, Idle, KeysWork
<1>5. Starting'
  BY <1>1, <1>2 DEF MainInv, Starting, KeysWork
<1>6. InPlace'
  BY <1>1 DEF InPlace
<1> QED BY <1>3, <1>4, <1>5, <1>6 DEF MainInv

LEMMA ChooseStep ==
  ASSUME MainInv, InPlace, ChooseFromMenu \/ SearchFor \/ ChooseSorted
  PROVE  MainInv' /\ InPlace'
<1>1. /\ scene \in {"MainMenu", "SortMenu"} /\ scene' = "Main"
      /\ UNCHANGED <<start, raced, title, searches>>
      /\ \/ \E d \in Discover : ShowDiscover(d)
         \/ \E t \in Texts : ShowSearchMenu(t)
         \/ ShowFavouritesMenu /\ favdata' = favdata
  <2>1. Trending \subseteq Discover
    BY BrowsingAssumption
  <2> QED BY <2>1 DEF ChooseFromMenu, SearchFor, ChooseSorted, ListChosen, detailVars
<1>2. Typed' /\ UNCHANGED <<scroll, favsaving, noTryAgain, late, regrid>>
  <2>1. CASE \E d \in Discover : ShowDiscover(d)
    BY <2>1, DiscoverShown DEF MainInv
  <2>2. CASE \E t \in Texts : ShowSearchMenu(t)
    BY <2>2, SearchShown DEF MainInv
  <2>3. CASE ShowFavouritesMenu /\ favdata' = favdata
    BY <2>3, FavouritesShown DEF MainInv, Typed
  <2> QED BY <1>1, <2>1, <2>2, <2>3
<1>3. InStep' => InStep
  BY <1>2, StillInStep
<1>4. Gate'
  <2>1. InStep => Idle
    BY <1>1 DEF MainInv, Gate
  <2>2. InStep' => Idle'
    BY <1>1, <1>2, <1>3, <2>1 DEF Idle
  <2> QED BY <1>1, <2>2, GateOnMain
<1>5. Starting'
  BY <1>1, <1>2, StartingKept DEF MainInv, Starting
<1>6. InPlace'
  BY <1>1 DEF InPlace
<1> QED BY <1>2, <1>4, <1>5, <1>6 DEF MainInv

LEMMA SettingsSceneStep ==
  ASSUME MainInv, InPlace,
         LoadSettings \/ OpenSettings \/ ChangeSetting \/ LeaveSettings \/ KeepSettings \/ KeepStyle
  PROVE  MainInv' /\ InPlace'
<1>1. CASE ~KeepSettings
  <2>1. /\ UNCHANGED <<mainVars, start, raced, title, searches>>
        /\ \/ scene' = scene
           \/ /\ scene \in {"MainMenu", "SettingsPage"}
              /\ scene' \in {"MainMenu", "SettingsPage"}
    BY <1>1 DEF LoadSettings, OpenSettings, ChangeSetting, S!Choose, LeaveSettings, KeepStyle,
                mainAll, detailVars
  <2>2. UNCHANGED <<wrapData, position, save, favdata, scroll, waiting, searcherror, favsaving, late,
                    regrid, noTryAgain, justexit, requests, grids>>
    BY <2>1 DEF mainVars, listVars, gridVars, favVars, auxVars, screenVars
  <2>3. Typed' /\ (InStep' <=> InStep)
    BY <2>2, TypedKept, StillInStep DEF MainInv
  <2>4. Gate'
    BY <2>1, <2>2, <2>3 DEF MainInv, Gate, Idle
  <2>5. Starting'
    BY <2>1, <2>2 DEF MainInv, Starting
  <2>6. InPlace'
    BY <2>1, <2>2, <2>3, PlaceKept DEF InPlace
  <2> QED BY <2>3, <2>4, <2>5, <2>6 DEF MainInv
<1>2. CASE KeepSettings
  <2>1. /\ scene = "SettingsPage" /\ scene' = "Main" /\ waiting' /\ start' = "restarting"
        /\ UNCHANGED <<wrapData, position, save, favdata, scroll, searcherror, favsaving, late, regrid,
                       noTryAgain>>
    BY <1>2 DEF KeepSettings, listVars, gridVars, favVars, auxVars, notExit
  <2>2. Typed' /\ (InStep' <=> InStep)
    BY <2>1, TypedKept, StillInStep DEF MainInv
  <2>3. Gate'
    BY <2>1, <2>2 DEF MainInv, Gate, Idle
  <2>4. Starting'
    BY <2>1 DEF MainInv, Starting, Chain
  <2>5. InPlace'
    BY <2>1 DEF InPlace
  <2> QED BY <2>2, <2>3, <2>4, <2>5 DEF MainInv
<1> QED BY <1>1, <1>2

-----------------------------------------------------------------------------
(* The details page over the main page *)

\* Steps of the page leave the main page alone.
LEMMA MainUnderPage ==
  ASSUME MainInv, UNCHANGED mainAll,
         \/ UNCHANGED <<scene, searches>>
         \/ ~(start \in Chain \/ noTryAgain) /\ scene' \in {"Main", "InfoPage", "HostsMenu"},
         scene' \in {"InfoPage", "HostsMenu"} /\ InStep /\ ~raced' =>
            Idle /\ Has(position) /\ Item(position) = title'
  PROVE  MainInv' /\ InPlace'
<1>1. UNCHANGED <<wrapData, position, save, favdata, scroll, waiting, searcherror, favsaving, late,
                  regrid, noTryAgain, justexit, requests, grids, start>>
  BY DEF mainAll, mainVars, listVars, gridVars, favVars, auxVars, screenVars
<1>2. Typed' /\ (InStep' <=> InStep) /\ (Idle' <=> Idle)
  BY <1>1, TypedKept, StillInStep DEF MainInv, Idle
<1>3. Gate'
  BY <1>1, <1>2 DEF MainInv, Gate
<1>4. Starting'
  BY <1>1 DEF MainInv, Starting
<1>5. InPlace'
  BY <1>1, <1>2 DEF InPlace, Has, Item
<1> QED BY <1>2, <1>3, <1>4, <1>5 DEF MainInv

\* While the page or the list over it is shown, and it has not been left in a search.
LEMMA PageIsFixed ==
  ASSUME MainInv, InPlace
  PROVE  scene \in {"InfoPage", "HostsMenu"} /\ InStep /\ ~raced =>
            Idle /\ Has(position) /\ Item(position) = title
BY DEF MainInv, Gate, InPlace

\* Nothing of the way to the first list is left when a page is shown or searches.
LEMMA PageAfterStart ==
  ASSUME MainInv, scene # "Main" \/ searches # {} \/ ~waiting
  PROVE  ~(start \in Chain \/ noTryAgain)
BY DEF MainInv, Starting

LEMMA MainThroughPageStep ==
  ASSUME MainInv, InPlace, Searching, PageCallback \/ OpenPage \/ PageKey \/ LeaveHosts
  PROVE  MainInv' /\ InPlace'
<1>0. UNCHANGED mainAll
  BY DEF PageCallback, OpenPage, PageKey, LeaveHosts
<1>1. CASE PageCallback /\ ~D!SearchEnds
  <2>1. UNCHANGED <<scene, searches, title, raced>>
    BY <1>1 DEF PageCallback, D!PageStep, D!MovieAnswered, D!Drawn, D!SerieAnswered,
         D!EpisodesAnswered, D!FetchFails, D!FetchTimesOut, D!searchVars
  <2> QED BY <1>0, <2>1, PageIsFixed, MainUnderPage
<1>2. CASE PageCallback /\ D!SearchEnds
  <2>1. /\ UNCHANGED <<title, raced>> /\ searches # {}
        /\ scene' = scene \/ scene' = "HostsMenu"
    BY <1>2 DEF D!SearchEnds, D!TorrentsFound, D!SearchAgain, D!NothingFound
  <2>2. ~raced => scene = "InfoPage"
    BY <2>1 DEF Searching
  <2>3. CASE scene' = "HostsMenu"
    BY <1>0, <2>1, <2>2, <2>3, PageIsFixed, PageAfterStart, MainUnderPage
  <2>4. CASE scene' = scene
    <3>1. ~(start \in Chain \/ noTryAgain)
      BY <2>1, PageAfterStart
    <3>2. Typed' /\ (InStep' <=> InStep) /\ (Idle' <=> Idle)
      <4>1. UNCHANGED <<wrapData, position, save, favdata, scroll, late, regrid, favsaving, start>>
        BY <1>0 DEF mainAll, mainVars, listVars, gridVars, favVars, auxVars
      <4> QED BY <4>1, TypedKept, StillInStep DEF MainInv, Idle
    <3>3. UNCHANGED <<waiting, searcherror, scroll, favsaving, start, noTryAgain, position, wrapData>>
      BY <1>0 DEF mainAll, mainVars, listVars, gridVars, favVars, screenVars
    <3>4. Gate' /\ InPlace'
      BY <2>1, <2>4, <3>2, <3>3, GateKept, PlaceKept DEF MainInv
    <3>5. Starting'
      BY <3>1, <3>3, StartingKept DEF MainInv
    <3> QED BY <3>2, <3>4, <3>5 DEF MainInv
  <2> QED BY <2>1, <2>3, <2>4
<1>3. CASE OpenPage
  <2>1. /\ ~waiting /\ ~searcherror /\ InStep /\ Has(position)
        /\ scene' = "InfoPage" /\ title' = Item(position)
    BY <1>3 DEF OpenPage, KeysWork, D!Show
  <2>2. Idle
    BY <2>1 DEF MainInv, Gate
  <2> QED BY <1>0, <2>1, <2>2, PageAfterStart, MainUnderPage
<1>4. CASE PageKey
  <2>1. /\ scene = "InfoPage" /\ title' = title
        /\ scene' = "Main" \/ (scene' = scene /\ raced' = raced)
    BY <1>4 DEF PageKey, D!KeyStep, D!Return, D!HidePage, D!Up, D!Down, D!Right, D!Left, D!Enter,
         D!KeysWork, D!ToEpisodes, D!ToSeasons, D!ToButton, D!MoveEpisode, D!MoveSeason, D!Search
  <2> QED BY <1>0, <2>1, PageIsFixed, PageAfterStart, MainUnderPage
<1>5. CASE LeaveHosts
  <2>1. scene = "HostsMenu" /\ scene' = "InfoPage" /\ UNCHANGED <<title, raced>>
    BY <1>5 DEF LeaveHosts, D!LeaveHosts
  <2> QED BY <1>0, <2>1, PageIsFixed, PageAfterStart, MainUnderPage
<1> QED BY <1>1, <1>2, <1>3, <1>4, <1>5

-----------------------------------------------------------------------------
(* One search at a time *)

\* What is marked stays what it is.
markVars == <<title, seasonRow, seasonsave, seasonMark, episodeRow, episodesave, episodeMark>>

LEMMA AskedKept ==
  ASSUME UNCHANGED markVars
  PROVE  Asked' = Asked
BY DEF Asked, markVars, D!MarkedSeason, D!MarkedEpisode, D!Value

LEMMA SearchingKept ==
  ASSUME Searching, UNCHANGED detailVars, scene' = scene \/ (Away /\ Away')
  PROVE  Searching'
<1>1. Asked' = Asked
  BY AskedKept DEF detailVars, markVars
<1>2. UNCHANGED <<raced, nohostreturn, pageWaiting, searches, torrents>>
  BY DEF detailVars
<1> QED BY <1>1, <1>2 DEF Searching, Away

\* While the page is completed, while its keys move, and while it is opened.
LEMMA NothingSearched ==
  ASSUME ~raced' => searches' = {} /\ scene' # "HostsMenu" /\ (nohostreturn' => Away' \/ pageWaiting')
  PROVE  Searching'
BY DEF Searching

LEMMA SearchEndsSearching ==
  ASSUME Searching, NEW s \in searches, D!TorrentsFound(s) \/ D!SearchAgain(s) \/ D!NothingFound(s)
  PROVE  Searching'
<1> SUFFICES ASSUME ~raced' PROVE Searching'
  BY DEF Searching
<1>1. UNCHANGED <<raced, title>> /\ UNCHANGED markVars
  BY DEF D!TorrentsFound, D!SearchAgain, D!NothingFound, D!rowVars, markVars
<1>2. Asked' = Asked
  BY <1>1, AskedKept
<1>3. /\ scene = "InfoPage" /\ pageWaiting /\ ~nohostreturn /\ torrents = {}
      /\ searches = {s} /\ <<s.title, s.season, s.episode>> = Asked
  BY <1>1 DEF Searching
<1>4. CASE D!TorrentsFound(s)
  <2>1. searches' = {} /\ torrents' = {Asked} /\ nohostreturn' = nohostreturn
    BY <1>3, <1>4 DEF D!TorrentsFound
  <2> QED BY <1>2, <1>3, <2>1 DEF Searching
<1>5. CASE D!SearchAgain(s)
  <2> DEFINE again == [s EXCEPT !.route = "query"]
  <2>1. searches' = {again} /\ UNCHANGED <<scene, pageWaiting, nohostreturn, torrents>>
    BY <1>3, <1>5 DEF D!SearchAgain, D!pageVars
  <2>2. again.title = s.title /\ again.season = s.season /\ again.episode = s.episode
    OBVIOUS
  <2> HIDE DEF again
  <2>3. <<again.title, again.season, again.episode>> = Asked'
    BY <1>2, <1>3, <2>2
  <2> QED BY <1>3, <2>1, <2>3 DEF Searching
<1>6. CASE D!NothingFound(s)
  <2>1. searches' = {} /\ pageWaiting' /\ scene' = scene
    BY <1>3, <1>6 DEF D!NothingFound
  <2> QED BY <1>3, <2>1, NothingSearched
<1> QED BY <1>4, <1>5, <1>6

\* The button: the page has no other search out, and asks for what is marked.
LEMMA SearchSearching ==
  ASSUME PageInv, Searching, D!KeysWork, D!Search
  PROVE  Searching'
<1> SUFFICES ASSUME ~raced' PROVE Searching'
  BY DEF Searching
<1> DEFINE show == seasonRow # D!NoRow
           search == [title |-> title, season |-> IF show THEN D!MarkedSeason ELSE 0,
                      episode |-> IF show THEN D!MarkedEpisode ELSE 0,
                      route |-> IF show THEN "tmdb" ELSE "query"]
<1>1. /\ scene = "InfoPage" /\ ~pageWaiting /\ pageWaiting' /\ torrents' = {}
      /\ searches' = searches \cup {search}
      /\ UNCHANGED <<scene, nohostreturn, raced>> /\ UNCHANGED markVars
  BY DEF D!KeysWork, D!Search, D!rowVars, markVars
<1>2. searches = {} /\ ~nohostreturn
  BY <1>1 DEF Searching, Away
<1>3. <<search.title, search.season, search.episode>> = Asked
  <2>1. CASE show
    <3>1. title \in ShowTitles
      BY <2>1, SameRows DEF PageInv, Boxes, SeasonBoxes
    <3> QED BY <2>1, <3>1 DEF Asked
  <2>2. CASE ~show
    <3>1. seasonMark = "none" /\ episodeMark = "none"
      BY <2>2, SameRows DEF PageInv, Boxes
    <3>2. D!MarkedSeason = 0 /\ D!MarkedEpisode = 0
      BY <3>1 DEF D!MarkedSeason, D!MarkedEpisode
    <3> QED BY <2>2, <3>2 DEF Asked
  <2> QED BY <2>1, <2>2
<1> HIDE DEF search
<1>4. Asked' = Asked
  BY <1>1, AskedKept
<1> QED BY <1>1, <1>2, <1>3, <1>4 DEF Searching

LEMMA PageKeySearching ==
  ASSUME PageInv, Searching, D!KeyStep
  PROVE  Searching'
<1>1. CASE D!Return
  <2>1. CASE D!HidePage
    <3>1. scene' = "Main" /\ searches' = searches /\ (~raced' => searches = {})
      BY <2>1 DEF D!HidePage, D!searchVars
    <3> QED BY <3>1, NothingSearched DEF Away
  <2>2. CASE ~D!HidePage
    <3>1. /\ scene = "InfoPage" /\ nohostreturn /\ ~nohostreturn'
          /\ UNCHANGED <<scene, searches, raced>>
      BY <1>1, <2>2 DEF D!Return, D!searchVars
    <3>2. ~raced => searches = {}
      BY <3>1 DEF Searching
    <3> QED BY <3>1, <3>2, NothingSearched
  <2> QED BY <2>1, <2>2
<1>2. CASE D!Enter /\ D!Search
  BY <1>2, SearchSearching DEF D!Enter
<1>3. CASE ~D!Return /\ ~(D!Enter /\ D!Search)
  <2>1. D!KeysWork /\ UNCHANGED <<scene, searches, raced, nohostreturn, pageWaiting>>
    BY <1>3 DEF D!KeyStep, D!Up, D!Down, D!Right, D!Left, D!Enter, D!ToEpisodes, D!ToSeasons,
         D!ToButton, D!MoveEpisode, D!MoveSeason, D!pageVars, D!searchVars
  <2>2. scene = "InfoPage" /\ ~pageWaiting
    BY <2>1 DEF D!KeysWork
  <2>3. ~raced => searches = {} /\ ~nohostreturn
    BY <2>2 DEF Searching, Away
  <2> QED BY <2>1, <2>2, <2>3, NothingSearched
<1> QED BY <1>1, <1>2, <1>3

LEMMA SearchingThroughPageStep ==
  ASSUME PageInv, Searching, PageCallback \/ OpenPage \/ PageKey \/ LeaveHosts
  PROVE  Searching'
<1>1. CASE PageCallback /\ D!SearchEnds
  BY <1>1, SearchEndsSearching DEF D!SearchEnds
<1>2. CASE PageCallback /\ ~D!SearchEnds
  <2>1. fetch # "none" /\ UNCHANGED <<scene, searches, raced, nohostreturn>>
    BY <1>2 DEF PageCallback, D!PageStep, D!MovieAnswered, D!Drawn, D!SerieAnswered,
         D!EpisodesAnswered, D!FetchFails, D!FetchTimesOut, D!Fetching, D!searchVars, D!pageVars
  <2>2. searches = {} /\ scene # "HostsMenu" /\ (scene = "InfoPage" => ~nohostreturn)
    BY <2>1 DEF PageInv, Completing
  <2> QED BY <2>1, <2>2, NothingSearched DEF Away
<1>3. CASE OpenPage
  <2>1. /\ scene = "Main" /\ ~raced /\ scene' = "InfoPage" /\ ~nohostreturn' /\ searches' = searches
    BY <1>3 DEF OpenPage, OnMain, D!Show, D!searchVars
  <2>2. searches = {}
    BY <2>1 DEF PageInv, Completing, Away
  <2> QED BY <2>1, <2>2, NothingSearched
<1>4. CASE PageKey
  BY <1>4, PageKeySearching DEF PageKey
<1>5. CASE LeaveHosts
  <2>1. /\ scene = "HostsMenu" /\ scene' = "InfoPage"
        /\ UNCHANGED <<searches, raced, nohostreturn, pageWaiting>>
    BY <1>5 DEF LeaveHosts, D!LeaveHosts, D!pageVars, D!searchVars
  <2>2. ~raced => searches = {} /\ (nohostreturn => pageWaiting)
    BY <2>1 DEF Searching, Away
  <2> QED BY <2>1, <2>2, NothingSearched
<1> QED BY <1>1, <1>2, <1>3, <1>4, <1>5

-----------------------------------------------------------------------------
(* All steps *)

\* Before the settings are read, and while the settings page has the focus.
LEMMA SceneOfSettings ==
  ASSUME SettingsInv
  PROVE  ~Loaded => scene = "Main"
BY DEF SettingsInv, Unread

LEMMA InitInv == Init => IInv
<1> SUFFICES ASSUME Init PROVE IInv
  OBVIOUS
<1>1. scene = "Main" /\ ssindex = 2 /\ fetch = "none" /\ searches = {}
      /\ seasonRow = NoRow /\ episodeRow = NoRow /\ seasonMark = "none" /\ episodeMark = "none"
  BY SameRows DEF Init, D!Init, D!PageInit
<1>2. PageInv
  BY <1>1 DEF PageInv, Completing, Boxes, AsksForAired, D!AsksForAired, Away
<1>3. SettingsInv
  <2>1. /\ wanted \in [menu : S!Values, style : S!Values]
        /\ localData \in {S!NoData} \cup
              {[menu |-> wanted.menu, style |-> wanted.style, version |-> v] : v \in {"other", S!Version}}
        /\ localData = S!NoData => wanted = [menu |-> "default", style |-> "default"]
        /\ saveSettings = S!NoData /\ ~defaulted
    BY DEF Init, S!SettingsInit
  <2> QED BY <1>1, <2>1 DEF SettingsInv, Loaded, Unread
<1> QED BY <1>2, <1>3 DEF IInv

\* Steps that touch neither the page nor the settings.
MainSteps ==
  \/ MainCallback \/ StartCallback \/ MainKey \/ LookAgainKey \/ OpenMainMenu \/ OpenSortMenu
  \/ OpenReceiver \/ Back \/ ChooseFromMenu \/ SearchFor \/ ChooseSorted

LEMMA ScenesOfMain ==
  ASSUME MainSteps
  PROVE  /\ UNCHANGED <<settingVars, detailVars>> /\ Loaded
         /\ \/ scene' = scene
            \/ /\ scene \in {"Main", "MainMenu", "SortMenu", "ReceiverPage"}
               /\ scene' \in {"Main", "MainMenu", "SortMenu", "ReceiverPage"}
<1>1. CASE MainCallback \/ StartCallback \/ MainKey
  BY <1>1 DEF MainCallback, StartCallback, MainKey, Walks, OnMain, mainOnly
<1>2. CASE LookAgainKey \/ OpenMainMenu \/ OpenSortMenu \/ OpenReceiver \/ Back
  BY <1>2 DEF LookAgainKey, OpenMainMenu, OpenSortMenu, OpenReceiver, Back, Focus, Walks,
              OnMain, mainOnly
<1>3. CASE ChooseFromMenu \/ SearchFor \/ ChooseSorted
  BY <1>3 DEF ChooseFromMenu, SearchFor, ChooseSorted, Chooses, ListChosen
<1> QED BY <1>1, <1>2, <1>3 DEF MainSteps

LEMMA ScenesOfSettings ==
  ASSUME LoadSettings \/ OpenSettings \/ ChangeSetting \/ LeaveSettings \/ KeepSettings \/ KeepStyle
  PROVE  /\ UNCHANGED detailVars
         /\ \/ scene' = scene
            \/ /\ scene \in {"MainMenu", "SettingsPage"}
               /\ scene' \in {"Main", "MainMenu", "SettingsPage"}
<1>1. UNCHANGED detailVars
  BY DEF LoadSettings, OpenSettings, ChangeSetting, LeaveSettings, KeepSettings, KeepStyle
<1> QED
  BY <1>1 DEF LoadSettings, OpenSettings, ChangeSetting, S!Choose, LeaveSettings, KeepSettings, KeepStyle

LEMMA MainStepHolds ==
  ASSUME IInv, MainSteps
  PROVE  IInv'
<1>1. UNCHANGED <<settingVars, detailVars>> /\ Loaded
      /\ (scene' = scene \/ (scene \in {"Main", "MainMenu", "SortMenu", "ReceiverPage"}
                             /\ scene' \in {"Main", "MainMenu", "SortMenu", "ReceiverPage"}))
  BY ScenesOfMain
<1>2. PageInv'
  BY <1>1, PageElsewhere DEF IInv, Away
<1>3. SettingsInv'
  BY <1>1, SettingsElsewhere DEF IInv, detailVars
<1> QED BY <1>2, <1>3 DEF IInv

LEMMA SettingsStepHolds ==
  ASSUME IInv,
         LoadSettings \/ OpenSettings \/ ChangeSetting \/ LeaveSettings \/ KeepSettings \/ KeepStyle
  PROVE  IInv'
<1>1. SettingsInv'
  <2>1. CASE LoadSettings
    BY <2>1, SettingsLoaded DEF LoadSettings, IInv
  <2>2. CASE ~LoadSettings
    <3>1. Loaded
      BY <2>2, SceneOfSettings DEF IInv, OpenSettings, ChangeSetting, S!Choose, LeaveSettings,
                                   KeepSettings, KeepStyle
    <3> QED BY <2>2, <3>1, SettingsChanged DEF IInv
  <2> QED BY <2>1, <2>2
<1>2. PageInv'
  BY ScenesOfSettings, PageElsewhere DEF IInv, Away
<1> QED BY <1>1, <1>2 DEF IInv

LEMMA PageStepHolds ==
  ASSUME IInv, PageCallback \/ OpenPage \/ PageKey \/ LeaveHosts
  PROVE  IInv'
<1>1. Loaded /\ UNCHANGED settingVars
  BY DEF PageCallback, OpenPage, PageKey, LeaveHosts, OnMain
<1>2. PageInv'
  <2>1. CASE PageCallback
    BY <2>1, PageStepOfPage DEF PageCallback, IInv
  <2>2. CASE PageKey
    BY <2>2, KeyStepOfPage DEF PageKey, IInv
  <2>3. CASE LeaveHosts
    BY <2>3, LeaveHostsStep DEF LeaveHosts, IInv
  <2>4. CASE OpenPage
    <3>1. Away /\ fetch = "none" /\ ~raced /\ D!Show(Item(position))
      BY <2>4 DEF OpenPage, OnMain, Away
    <3> QED BY <3>1, ShowStep DEF IInv
  <2> QED BY <2>1, <2>2, <2>3, <2>4
<1>3. (raced => raced') /\ (scene' = scene \/ scene # "SettingsPage" \/ raced')
  <2>1. CASE PageCallback
    <3>1. CASE D!SearchEnds
      <4>1. PICK s \in searches : D!TorrentsFound(s) \/ D!SearchAgain(s) \/ D!NothingFound(s)
        BY <3>1 DEF D!SearchEnds
      <4>2. scene = "SettingsPage" => raced
        BY <4>1 DEF IInv, PageInv, Completing, Away
      <4>3. raced' = raced
        BY <4>1 DEF D!TorrentsFound, D!SearchAgain, D!NothingFound
      <4> QED BY <4>2, <4>3
    <3>2. CASE ~D!SearchEnds
      <4>1. PageCallback /\ ~D!SearchEnds => UNCHANGED <<scene, raced>>
        BY DEF PageCallback, D!PageStep, D!MovieAnswered, D!Drawn, D!SerieAnswered,
               D!EpisodesAnswered, D!FetchFails, D!FetchTimesOut
      <4> QED BY <2>1, <3>2, <4>1
    <3> QED BY <3>1, <3>2
  <2>2. CASE PageKey
    <3>1. scene = "InfoPage"
      BY <2>2 DEF PageKey, D!KeyStep, D!Return, D!Up, D!Down, D!Right, D!Left, D!Enter, D!KeysWork
    <3>2. CASE D!Return
      <4>1. raced' = (raced \/ searches # {}) \/ raced' = raced
        BY <3>2 DEF D!Return, D!HidePage
      <4>2. raced => raced'
        BY <4>1, Zenon
      <4> QED BY <3>1, <4>2
    <3>3. CASE ~D!Return
      <4>1. raced' = raced
        BY <2>2, <3>3 DEF PageKey, D!KeyStep, D!Up, D!Down, D!Right, D!Left, D!Enter, D!ToEpisodes,
              D!ToSeasons, D!ToButton, D!MoveEpisode, D!MoveSeason, D!Search
      <4> QED BY <3>1, <4>1
    <3> QED BY <3>2, <3>3
  <2>3. CASE LeaveHosts \/ OpenPage
    BY <2>3 DEF LeaveHosts, D!LeaveHosts, OpenPage, OnMain, D!Show
  <2> QED BY <2>1, <2>2, <2>3
<1>4. SettingsInv'
  BY <1>1, <1>3, SettingsElsewhere DEF IInv
<1> QED BY <1>2, <1>4 DEF IInv

LEMMA StepInv == IInv /\ [Next]_vars => IInv'
<1> SUFFICES ASSUME IInv, [Next]_vars PROVE IInv'
  OBVIOUS
<1>1. CASE MainSteps
  BY <1>1, MainStepHolds
<1>2. CASE LoadSettings \/ OpenSettings \/ ChangeSetting \/ LeaveSettings \/ KeepSettings \/ KeepStyle
  BY <1>2, SettingsStepHolds
<1>3. CASE PageCallback \/ OpenPage \/ PageKey \/ LeaveHosts
  BY <1>3, PageStepHolds
<1>4. CASE UNCHANGED vars
  <2>1. UNCHANGED <<scene, settingVars, detailVars>>
    BY <1>4 DEF vars
  <2>2. PageInv'
    BY <2>1, PageElsewhere DEF IInv
  <2>3. SettingsInv'
    BY <2>1 DEF IInv, SettingsInv, Loaded, Read, Unread, settingVars, detailVars
  <2> QED BY <2>2, <2>3 DEF IInv
<1> QED BY <1>1, <1>2, <1>3, <1>4 DEF Next, Callbacks, Keys, MainSteps

THEOREM Invariance == Spec => []IInv
<1> QED BY InitInv, StepInv, PTL DEF Spec

-----------------------------------------------------------------------------

\* The box the user is on is in view and shows the season or episode it stands for, however
\* the user moves in the rows, and whatever number of boxes they have (InfoPage.js RIGHT, LEFT).
THEOREM RowsStayDrawn == Spec => []RowsDrawn
<1>1. IInv => RowsDrawn
  BY RowOKIsWellDrawn, Constants
  DEF IInv, PageInv, Boxes, SeasonBoxes, EpisodeBoxes, RowsDrawn
<1> QED BY <1>1, Invariance, PTL

\* What the details page searches for is an episode that has been aired, a season that has
\* begun or the whole show, for any listing of any show (InfoPage.js ENTER, ListEpisodes).
THEOREM OnlyAiredIsSearched == Spec => []AsksForAired
<1>1. IInv => AsksForAired
  BY DEF IInv, PageInv
<1> QED BY <1>1, Invariance, PTL

\* What the user has chosen in the settings stays stored through every visit to them, every
\* style kept in the player and an upgrade.  Until an upgrade has a session run on the
\* defaults, which is excepted, the program goes by what is stored and the style stays too
\* (Main.js CreateOrLoadTemp, SaveTemp, RestoreDefaultTemp).
THEOREM SettingsStayKept == Spec => []SettingsKept
<1>1. IInv => SettingsKept
  BY SettingsInvKept DEF IInv
<1> QED BY <1>1, Invariance, PTL

-----------------------------------------------------------------------------
(* All steps, for the main page and the page over it *)

WholeInv == IInv /\ MainInv /\ FitInv

LEMMA InitWhole == Init => WholeInv
<1> SUFFICES ASSUME Init PROVE WholeInv
  OBVIOUS
<1>1. IInv
  BY InitInv
<1>2. /\ scene = "Main" /\ wrapData = << >> /\ position = 0 /\ favdata = << >>
      /\ save.wrapData = << >> /\ save.position = 0
      /\ scroll = NoScroll /\ waiting /\ ~searcherror /\ ~favsaving /\ ~justexit /\ ~noTryAgain
      /\ requests = {} /\ grids = {} /\ searches = {} /\ ~nohostreturn
  BY DEF Init, StartInit, MainInit, D!Init, D!PageInit
<1>3. Typed
  BY <1>2, EmptyList DEF Typed, NoScroll
<1>4. Gate /\ Starting
  BY <1>2 DEF Gate, Starting
<1>5. InPlace /\ Searching
  BY <1>2 DEF InPlace, Searching
<1> QED BY <1>1, <1>3, <1>4, <1>5 DEF WholeInv, MainInv, FitInv

LEMMA StepWhole == WholeInv /\ [Next]_vars => WholeInv'
<1> SUFFICES ASSUME WholeInv, [Next]_vars PROVE WholeInv'
  OBVIOUS
<1>0. IInv' /\ IInv /\ PageInv /\ MainInv /\ InPlace /\ Searching
  BY StepInv DEF WholeInv, FitInv, IInv
<1>1. CASE MainSteps
  <2>1. MainInv' /\ InPlace'
    BY <1>0, <1>1, MainCallbackStep, StartCallbackStep, LookAgainStep, MainKeyStep, FocusStep,
       ChooseStep DEF MainSteps
  <2>2. UNCHANGED detailVars
        /\ (scene' = scene \/ (scene \in {"Main", "MainMenu", "SortMenu", "ReceiverPage"}
                               /\ scene' \in {"Main", "MainMenu", "SortMenu", "ReceiverPage"}))
    BY <1>1, ScenesOfMain
  <2>3. Searching'
    BY <1>0, <2>2, SearchingKept DEF Away
  <2> QED BY <1>0, <2>1, <2>3 DEF WholeInv, FitInv
<1>2. CASE LoadSettings \/ OpenSettings \/ ChangeSetting \/ LeaveSettings \/ KeepSettings \/ KeepStyle
  <2>1. MainInv' /\ InPlace'
    BY <1>0, <1>2, SettingsSceneStep
  <2>2. UNCHANGED detailVars
        /\ (scene' = scene \/ (scene \in {"MainMenu", "SettingsPage"}
                               /\ scene' \in {"Main", "MainMenu", "SettingsPage"}))
    BY <1>2, ScenesOfSettings
  <2>3. Searching'
    BY <1>0, <2>2, SearchingKept DEF Away
  <2> QED BY <1>0, <2>1, <2>3 DEF WholeInv, FitInv
<1>3. CASE PageCallback \/ OpenPage \/ PageKey \/ LeaveHosts
  BY <1>0, <1>3, MainThroughPageStep, SearchingThroughPageStep DEF WholeInv, FitInv
<1>4. CASE UNCHANGED vars
  <2>1. UNCHANGED <<mainAll, scene, searches, title, raced, detailVars>>
    BY <1>4 DEF vars, detailVars
  <2>2. MainInv' /\ InPlace'
    BY <1>0, <2>1, PageIsFixed, MainUnderPage
  <2>3. Searching'
    BY <1>0, <2>1, SearchingKept
  <2> QED BY <1>0, <2>2, <2>3 DEF WholeInv, FitInv
<1> QED BY <1>1, <1>2, <1>3, <1>4 DEF Next, Callbacks, Keys, MainSteps

\* The details page and the list of torrents stay those of the title in the position of the
\* main page, and the torrents those of the season and episode marked, for any lists the
\* server gives, while pages of the list shown arrive, fail and time out (InfoPage.js and
\* HostsMenu.js, which read wrapData[position] again and again).  It says nothing once a page
\* was left during its search, nor of the title after an answer for another list or a grid
\* shown again to a user already on it.
THEOREM PageStaysInPlace == Spec => []PageFitsList
<1>1. WholeInv => PageFitsList
  BY DEF WholeInv, FitInv, InPlace, Searching, Asked, PageFitsList, D!ListOfShownTitle
<1>2. Spec => []WholeInv
  BY InitWhole, StepWhole, PTL DEF Spec
<1> QED BY <1>1, <1>2, PTL

=============================================================================
