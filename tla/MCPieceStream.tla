--------------------------- MODULE MCPieceStream ---------------------------
(***************************************************************************)
(* Instances for TLC.  The blocks are cut for files within a torrent of a  *)
(* few pieces, and reads inside them, over their end, and behind it; a few *)
(* of the reads are followed to the end over a connection.                 *)
(***************************************************************************)
EXTENDS PieceStream

MCWord == 64

\* Files that lie in the torrent's pieces; the last piece may be longer than
\* what is left of the files.
MCReads == {r \in [offset : 0..4, length : 0..7, pieces : 0..4, plen : 1..4,
                  off : 0..9, count : 0..8, bs : 1..5] :
            r.offset + r.length <= r.pieces * r.plen}

\* Blocks of a whole piece and of parts; a read that starts within a block.
MCStreamed ==
    {[offset |-> 1, length |-> 6, pieces |-> 2, plen |-> 4,
      off |-> 0, count |-> 8, bs |-> 5],
     [offset |-> 0, length |-> 7, pieces |-> 4, plen |-> 2,
      off |-> 3, count |-> 3, bs |-> 1]}

\* A have of the wrong length and an identifier of a later protocol.
MCExtras == {Message("unchoke", <<>>, <<>>), Message("keepalive", <<>>, <<>>),
             Message("have", <<258>>, <<>>), Message("unknown", <<4>>, <<1>>),
             Message("unknown", <<20>>, <<>>)}

MCChunks == {1, 4, 17}
=============================================================================
