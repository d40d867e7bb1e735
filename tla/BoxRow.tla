------------------------------- MODULE BoxRow -------------------------------
(***************************************************************************)
(* The row of season boxes and the row of episode boxes on the details     *)
(* page (InfoPage.js).  A row has n boxes, numbered from 0, and shows the  *)
(* ones from first to first + M.  A box is labelled with its own season    *)
(* or episode, except the outermost shown one on a side where the row goes *)
(* on: that box carries an arrow instead.  The page reads the season and   *)
(* the episode it asks for back out of the label, so the box the user is   *)
(* on must never be one that carries an arrow.                             *)
(*                                                                         *)
(* A row is a record:                                                      *)
(*   n      number of boxes                                                *)
(*   first  leftmost shown box (-offsetLeft / scroll width)                *)
(*   at     the box the user is on (class activebox or selectedbox)        *)
(*   text   label of each box: its own number or an arrow                  *)
(***************************************************************************)
EXTENDS Integers

CONSTANTS
  MaxSe,     \* maxse: the last season box shown, counted from the first
  MaxEe      \* maxee

VARIABLES
  seasonRow, episodeRow

NoRow == [n |-> 0]    \* before the page has built it

LeftArrow  == -1    \* "&#xF81C;"
RightArrow == -2    \* "&#xF81E;"

\* The row as the page builds it: the last box is chosen.
NewRow(n, M) ==
    LET first == IF n - 1 > M THEN n - 1 - M ELSE 0
    IN  [n |-> n, first |-> first, at |-> n - 1,
         text |-> [b \in 0 .. n - 1 |-> IF first > 0 /\ b = first THEN LeftArrow ELSE b]]

-----------------------------------------------------------------------------
(* RIGHT *)

\* The box to the right is the last shown one and the row goes on: scroll.
ScrollsRight(row, M) ==
    /\ row.at + 1 >= M
    /\ row.at + 1 - row.first = M
    /\ row.at + 1 < row.n - 1

ScrolledRight(row, M) ==
    LET i    == row.at
        last == row.n - 1
        own  == [row.text EXCEPT ![i + 1]     = i + 1,
                                 ![i + 2 - M] = LeftArrow,
                                 ![i + 1 - M] = i + 1 - M]
    IN  [row EXCEPT !.first = @ + 1,
                    !.at    = i + 1,
                    !.text  = IF i + 2 # last THEN [own EXCEPT ![i + 2] = RightArrow]
                              ELSE [own EXCEPT ![last - M] = LeftArrow]]

\* From the last box to the first.
WrappedRight(row, M) ==
    [row EXCEPT !.first = 0,
                !.at    = 0,
                !.text  = IF row.at > M /\ row.at - row.first = M
                          THEN [row.text EXCEPT ![row.n - 1 - M] = row.n - 1 - M,
                                                ![M] = RightArrow]
                          ELSE @]

MovedRight(row, M) ==
    IF ScrollsRight(row, M) THEN ScrolledRight(row, M)
    ELSE IF row.at < row.n - 1 THEN [row EXCEPT !.at = @ + 1]
    ELSE WrappedRight(row, M)

-----------------------------------------------------------------------------
(* LEFT *)

\* Mutant: the last but one box has no label of its own again.
ScrolledLeft_KeepsArrow(row, M) ==
    LET i   == row.at
        own == [row.text EXCEPT ![i] = i, ![i - 1] = i - 1]
    IN  [row EXCEPT !.first = IF i >= 2 THEN @ - 1 ELSE @,
                    !.at    = i - 1,
                    !.text  = IF i < 2 THEN own
                              ELSE [own EXCEPT ![i - 2] = IF i > 2 THEN LeftArrow ELSE i - 2,
                                               ![i + M - 2] = RightArrow]]

\* The box to the left is the first shown one.
ScrolledLeft(row, M) ==
    LET i   == row.at
        own == [row.text EXCEPT ![i] = i, ![i - 1] = i - 1]
    IN  [row EXCEPT !.first = IF i >= 2 THEN @ - 1 ELSE @,
                    !.at    = i - 1,
                    !.text  = IF i < 2 THEN own
                              ELSE [own EXCEPT ![i - 2] = IF i > 2 THEN LeftArrow ELSE i - 2,
                                               ![i + M - 2] = RightArrow,
                                               ![i + M - 1] = i + M - 1]]

\* From the first box to the last.
WrappedLeft(row, M) ==
    IF row.n > M + 1
    THEN [row EXCEPT !.first = @ + (row.n - (M + 1)),
                     !.at    = row.n - 1,
                     !.text  = [row.text EXCEPT ![M] = M, ![row.n - 1 - M] = LeftArrow]]
    ELSE [row EXCEPT !.at = row.n - 1]

MovedLeft(row, M) ==
    IF row.at = 0 THEN WrappedLeft(row, M)
    ELSE IF row.first = row.at - 1 THEN ScrolledLeft(row, M)
    ELSE [row EXCEPT !.at = @ - 1]

-----------------------------------------------------------------------------
(***************************************************************************)
(* A row as the user is meant to see it: the chosen box is shown, an arrow *)
(* stands exactly where the row goes on, and every other box, the chosen   *)
(* one in particular, has its own label.                                   *)
(***************************************************************************)
WellDrawn(row, M) ==
    /\ row.first <= row.at /\ row.at <= row.first + M
    /\ row.first = 0 \/ row.first + M <= row.n - 1
    /\ row.text[row.at] = row.at
    /\ \A b \in 0 .. row.n - 1 :
          row.text[b] = IF b = row.first /\ row.first > 0 THEN LeftArrow
                        ELSE IF b = row.first + M /\ b < row.n - 1 THEN RightArrow
                        ELSE b

\* Both rows are drawn so that the box the user is on is in view and shows what it
\* stands for (InfoPage.js RIGHT and LEFT).
RowsDrawn ==
    /\ seasonRow # NoRow => WellDrawn(seasonRow, MaxSe)
    /\ episodeRow # NoRow => WellDrawn(episodeRow, MaxEe)
=============================================================================
