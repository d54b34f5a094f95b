------------------------------ MODULE Torrent ------------------------------
(***************************************************************************)
(* struct Torrent, as far as it is used once it has been read: the files   *)
(* with their places in the whole, and the pieces.  A size_t goes to       *)
(* SizeWord.                                                               *)
(***************************************************************************)
EXTENDS Integers, Sequences

CONSTANT SizeWord    \* 2^64, of size_t

ASSUME SizeWordAssumption == SizeWord \in Nat \ {0}

NoTorrent == [announce |-> <<>>, info_hash |-> <<>>, files |-> <<>>,
              info_pieces |-> 0, pieceLength |-> 0]

\* How reading one ended, and what it has made of the torrent given to it.
Result(ok, tor) == [ok |-> ok, tor |-> tor]
=============================================================================
