---------------------------- MODULE MCPieceCache ----------------------------
(* PieceCache on two torrents whose pieces have different lengths. *)
EXTENDS PieceCache, TLC

CONSTANTS t1, t2, p1, p2, q1, u1, u2, u3

MCTorrents == {t1, t2}
MCPieces == {p1, p2, q1}
\* p2 is the short last piece of t1; q1 is longer than any piece of t1.
MCTorrentOf == (p1 :> t1) @@ (p2 :> t1) @@ (q1 :> t2)
MCSizeOf == (p1 :> 2) @@ (p2 :> 1) @@ (q1 :> 3)
MCBuffers == {u1, u2, u3}
=============================================================================
