---------------------------- MODULE BlockRequest ----------------------------
(***************************************************************************)
(* What File::read() asks the swarm for (tor.hpp): the range of the        *)
(* torrent that a read covers, cut into blocks by Request's constructor,   *)
(* one turn of its loop per step, and the search of Request::recv() for    *)
(* the block a message belongs to. Numbers have the width of size_t.       *)
(***************************************************************************)
EXTENDS Naturals, Sequences

CONSTANTS
    Reads,   \* the reads: file, torrent, offset and count, see Read
    Word     \* numbers are below this, 2^64 in the program

Read == [offset : Nat, length : Nat,          \* of the file in the torrent
         pieces : Nat, plen : Nat \ {0},      \* the torrent's pieces
         off : Nat, count : Nat,              \* arguments of read()
         bs : Nat \ {0}]                      \* block size

ASSUME BlockRequestAssumption == Reads \subseteq Read /\ Word \in Nat \ {0}

VARIABLES
    q,           \* the read
    beg, end,    \* the range in the torrent
    size,        \* its length as computed
    b,           \* the loop variable of Request's constructor
    sub,         \* the blocks so far
    pc

vars == <<q, beg, end, size, b, sub, pc>>

Init ==
    /\ q \in Reads
    /\ beg = 0 /\ end = 0 /\ size = 0 /\ b = 0
    /\ sub = <<>>
    /\ pc = "range"

Least(x, y) == IF x < y THEN x ELSE y
Minus(x, y) == (x + Word - y) % Word

\* The bytes of all pieces.
totalsize == (q.pieces * q.plen) % Word

\* A wrong variant: the read is not cut at the end of the file.
RangeOfTorrent ==
    /\ pc = "range"
    /\ beg' = (q.offset + q.off) % Word
    /\ end' = Least((q.offset + q.off + q.count) % Word, totalsize)
    /\ size' = Minus(end', beg')
    /\ b' = beg'
    /\ pc' = IF size' = 0 THEN "eof" ELSE "cut"
    /\ UNCHANGED <<q, sub>>

\* A read ends with the file and with the torrent; nothing to read is EOF.
ReadRange ==
    /\ pc = "range"
    /\ beg' = (q.offset + q.off) % Word
    /\ end' = Least(Least((q.offset + q.off + q.count) % Word,
                          (q.offset + q.length) % Word), totalsize)
    /\ size' = Minus(end', beg')
    /\ b' = beg'
    /\ pc' = IF size' = 0 THEN "eof" ELSE "cut"
    /\ UNCHANGED <<q, sub>>

\* A wrong variant: the last block is as long as the others.
BlockEndPastRange == Least(b + Least(q.bs, q.plen), b + q.plen - (b % q.plen))

\* A wrong variant: a block may reach into the next piece.
BlockEndAnywhere == Least(b + Least(q.bs, q.plen), end)

\* The end of a block: bs further, or where the piece or the range ends.
BlockEnd == Least(Least(b + Least(q.bs, q.plen), b + q.plen - (b % q.plen)), end)

Cut ==
    /\ pc = "cut"
    /\ b < end
    /\ sub' = Append(sub, [index |-> b \div q.plen, off |-> b % q.plen,
                           size |-> BlockEnd - b, ptr |-> b - beg])
    /\ b' = BlockEnd
    /\ UNCHANGED <<q, beg, end, size, pc>>

\* A wrong variant: the loop ends behind the range.
MadePast ==
    /\ pc = "cut"
    /\ b > end
    /\ pc' = "made"
    /\ UNCHANGED <<q, beg, end, size, b, sub>>

Made ==
    /\ pc = "cut"
    /\ b >= end
    /\ pc' = "made"
    /\ UNCHANGED <<q, beg, end, size, b, sub>>

Next == ReadRange \/ Cut \/ Made

Spec == Init /\ [][Next]_vars /\ WF_vars(Next)

----------------------------------------------------------------------------
(* Request::recv(): the first block that fits the message, found before    *)
(* the search gives up at a block behind it.                               *)

Fits(r, index, begin, n) == r.index = index /\ r.off = begin /\ r.size = n

\* A wrong variant: the search ends at a block behind in piece or in offset.
BehindEither(r, index, begin) == r.index > index \/ r.off > begin

Behind(r, index, begin) == r.index > index /\ r.off > begin

Found(index, begin, n) ==
    {k \in 1..Len(sub) :
        /\ Fits(sub[k], index, begin, n)
        /\ \A j \in 1..(k - 1) : /\ ~Fits(sub[j], index, begin, n)
                                 /\ ~Behind(sub[j], index, begin)}

----------------------------------------------------------------------------
(* Properties.                                                             *)

Position(k) == sub[k].index * q.plen + sub[k].off

\* The blocks are the range, without gap or overlap, and each one's place in
\* the buffer is its place in the range (tor.hpp:897-907).
BlocksAreRange ==
    /\ \A k \in 1..Len(sub) :
        /\ sub[k].ptr = Position(k) - beg
        /\ Position(k) = IF k = 1 THEN beg ELSE Position(k - 1) + sub[k - 1].size
    /\ pc = "made" /\ sub # <<>> =>
        Position(Len(sub)) + sub[Len(sub)].size = end

\* A peer is asked for part of one piece, and not for more than it would send
\* (tor.hpp:896-902).
BlocksFitPieces ==
    \A k \in 1..Len(sub) : /\ sub[k].off + sub[k].size <= q.plen
                           /\ sub[k].size <= q.bs

\* A message is stored as the block it names, if that was asked for, although
\* the search gives up early (tor.hpp:923-935).
RecvFinds ==
    \A k \in 1..Len(sub) :
        Found(sub[k].index, sub[k].off, sub[k].size) = {k}

\* What read() reports for a read that starts inside the file is the part of
\* it that the file and the torrent have (tor.hpp:1085-1095, 1127). (Behind the
\* end the length wraps around: see the README.)
ReportsFilePart ==
    pc = "made" /\ q.off <= q.length =>
        size = Least(Least(q.count, q.length - q.off),
                     totalsize - (q.offset + q.off))

\* The cutting ends, for blocks and pieces of any size (tor.hpp:897-907).
CutsEnd == <>(pc \in {"made", "eof"})
=============================================================================
