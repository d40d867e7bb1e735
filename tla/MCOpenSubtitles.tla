--------------------------- MODULE MCOpenSubtitles ---------------------------
(* OpenSubtitles with one handler and with two. *)
EXTENDS OpenSubtitles
CONSTANTS h1, h2
MCHandlers == {h1, h2}
MCWorkloads == {{h1}, MCHandlers}
===============================================================================
