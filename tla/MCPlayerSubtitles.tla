-------------------------- MODULE MCPlayerSubtitles --------------------------
(* PlayerSubtitles with two embedded tracks and two files. *)
EXTENDS PlayerSubtitles
CONSTANTS x1, x2
MCFiles == {x1, x2}
===============================================================================
