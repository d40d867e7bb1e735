------------------------------ MODULE MCViewing ------------------------------
(* Viewing with a torrent without videos, a film and a series of two files with *)
(* the same IMDb number, and a second film without one.                         *)
EXTENDS Viewing

CONSTANTS none, film, series, other, number

MCTorrents == {none, film, series, other}
MCVideosOf ==
  [t \in MCTorrents |-> CASE t = none -> 0 [] t = series -> 2 [] OTHER -> 1]
MCImdbOf == [t \in MCTorrents |-> IF t = other THEN None ELSE number]

PointAt(t, i) == [hash |-> t, index |-> i, time |-> 1]

\* On a television and in the browser one choice without subtitles, where the list
\* of points is empty or full; in the browser one with subtitles, where the film
\* finds the point of the series, and two, one after the other, with and without
\* subtitles.
MCWorkloads == {
  [titles |-> {film, series, other}, choices |-> 1, subtitles |-> FALSE, browsers |-> BOOLEAN,
   saved |-> {<<>>, <<PointAt(other, 0), PointAt(series, 1)>>}],
  [titles |-> {film, series}, choices |-> 1, subtitles |-> TRUE, browsers |-> {TRUE},
   saved |-> {<<PointAt(series, 1)>>}],
  [titles |-> {none, film}, choices |-> 2, subtitles |-> TRUE, browsers |-> {TRUE},
   saved |-> {<<>>}],
  [titles |-> {film, series}, choices |-> 2, subtitles |-> FALSE, browsers |-> {TRUE},
   saved |-> {<<>>}]}
===============================================================================
