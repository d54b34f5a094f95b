---------------------------- MODULE MCTorSource ----------------------------
(***************************************************************************)
(* Torrent files for TorSource, put together from their parts: one file or *)
(* several, with keys and values the program does not use, and the ways in *)
(* which reading one fails.  A name that two torrents differ in makes them *)
(* two torrents.  Metainfo reads them.                                     *)
(***************************************************************************)
EXTENDS TorSource, Metainfo

\* The text of a string, a number, a list, a dictionary in the order given.
T(s) == Decimal(Len(s)) \o <<Colon>> \o s
N(n) == <<I>> \o Decimal(n) \o <<E>>
Cat(ss) == LET upto[k \in 0..Len(ss)] == IF k = 0 THEN <<>> ELSE upto[k - 1] \o ss[k]
           IN  upto[Len(ss)]
Ls(ss) == <<L>> \o Cat(ss) \o <<E>>
Dc(kvs) == <<D>> \o Cat([k \in 1..Len(kvs) |-> T(kvs[k][1]) \o kvs[k][2]]) \o <<E>>

Hashes(n) == [k \in 1..n |-> 30 + k]
name(n) == <<<<24, 40>>, T(<<40 + n>>)>>
Len1(n) == <<length, N(n)>>
PLen(n) == <<pieceLength, N(n)>>
Pcs(n) == <<pieces, T(Hashes(n))>>
Entry(n) == Dc(<<Len1(n), <<path, Ls(<<T(<<40>>), T(<<41>>)>>)>>>>)
Fls(ns) == <<files, Ls([k \in 1..Len(ns) |-> Entry(ns[k])])>>

\* announce comes first.
Top(i) == Dc(<< <<announce, T(<<40>>)>>, <<info, i>> >>)
Meta(i, plain, lengths) ==
    [text |-> Top(i), info |-> i, plain |-> plain, lengths |-> lengths]
Bad(text) == [text |-> text, info |-> <<0>>, plain |-> FALSE, lengths |-> <<>>]

\* Three files over three pieces, with a number below 0 in a key of its own.
three == Meta(Dc(<< <<<<20>>, N(-7)>>, Fls(<<3, 1, 2>>), name(1), PLen(2), Pcs(6)>>),
            TRUE, <<3, 1, 2>>)
\* One file.
one == Meta(Dc(<<Len1(4), name(2), PLen(2), Pcs(4)>>), TRUE, <<4>>)
\* Keys out of order; a number with zeros in front.
unsorted == Meta(Dc(<<PLen(2), Len1(3), name(2), Pcs(4)>>), FALSE, <<3>>)
zeros == Meta(Dc(<<<<length, <<I, 0, 3, E>>>>, name(2), PLen(2), Pcs(4)>>), FALSE, <<3>>)
\* A file that no pieces cover, and an empty one.
short == Meta(Dc(<<Fls(<<4, 0, 1>>), name(3), PLen(2), Pcs(4)>>), TRUE, <<4, 0, 1>>)
\* A piece length of 0.
flat == Meta(Dc(<<Len1(1), name(4), PLen(0), Pcs(2)>>), TRUE, <<1>>)

\* Failures, each behind more of the torrent: no file, a text cut short, no
\* announce, a value missing in info, a bad second file, a hash cut short.
broken ==
    { Bad(<<>>), Bad(SubSeq(one.text, 1, Len(one.text) - 1)),
      Bad(Dc(<< <<info, one.info>> >>)),
      Bad(Top(Dc(<<Len1(4), name(2), PLen(2), <<pieces, <<E>>>>>>))),
      Bad(Top(Dc(<<<<files, Ls(<<Entry(1), N(1)>>)>>, name(2), PLen(2), Pcs(4)>>))),
      Bad(Top(Dc(<<Len1(4), name(5), PLen(2), Pcs(3)>>))),
      Bad(Top(Dc(<<Len1(4), name(5), Pcs(4)>>))) }

MCDisks ==
    {<<three, one>>, <<short, unsorted>>, <<zeros, flat>>} \union {<<three, b>> : b \in broken}
=============================================================================
