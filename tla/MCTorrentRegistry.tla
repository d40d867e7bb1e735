-------------------------- MODULE MCTorrentRegistry --------------------------
(* ReceiverScene with a few torrents and requests; the hash "long" stands for *)
(* a torrent whose pieces are too long.                                        *)
EXTENDS ReceiverScene, TLC

CONSTANTS x1, x2, long, a1, a2, r1
MCHashes == {x1, x2, long}
MCOversized == {long}
MCAdders == {a1, a2}
MCRemovers == {r1}

Load(a, s, h, n, o, l) ==
  [adders |-> a, removers |-> {r1}, scene |-> s, hashes |-> h,
   adds |-> n, openings |-> o, late |-> l]
\* One /add after the other; two at a time; the widget with its receiver, which plays twice
\* what it chooses from two torrents, or one torrent again; cannot play; is opened twice.
MCWorkloads == {Load({a1}, {}, MCHashes, 3, 0, TRUE), Load(MCAdders, {}, {x1, x2}, 3, 0, TRUE),
                Load({a1}, {a1}, {x1, x2}, 2, 1, FALSE), Load({a1}, {a1}, {x1}, 2, 1, TRUE),
                Load({a1}, {a1}, {long}, 2, 1, TRUE), Load({a1}, {a1}, {x1}, 1, 2, FALSE)}
===============================================================================
