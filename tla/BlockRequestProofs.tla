-------------------------- MODULE BlockRequestProofs --------------------------
(***************************************************************************)
(* Proofs about BlockRequest, for reads of any place and size, pieces and  *)
(* blocks of any length and words of any width.                            *)
(*                                                                         *)
(* The argument: each turn of the loop appends the block at its variable   *)
(* b, which division cuts into a piece and an offset without a rest, and   *)
(* moves b to that block's end; so each block begins where the last one    *)
(* ended, later blocks lie in the same piece or a later one, and the       *)
(* search of recv() cannot give up before the block it looks for.          *)
(***************************************************************************)
EXTENDS BlockRequest, Integers, TLAPS

Block == [index : Nat, off : Nat, size : Nat, ptr : Nat]

BlockTypes ==
    /\ q \in Reads
    /\ beg \in Nat /\ end \in Nat /\ size \in Nat /\ b \in Nat
    /\ sub \in Seq(Block)
    /\ pc \in {"range", "cut", "made", "eof"}

\* What the first step computed.
Ranged ==
    pc # "range" =>
        /\ beg = (q.offset + q.off) % Word
        /\ end = Least(Least((q.offset + q.off + q.count) % Word,
                             (q.offset + q.length) % Word), totalsize)
        /\ size = Minus(end, beg)

\* Where the loop variable is.
Cursor ==
    /\ pc \in {"range", "eof"} => sub = <<>>
    /\ pc = "eof" => size = 0
    /\ pc \in {"cut", "made"} => beg <= b /\ (sub = <<>> => b = beg)
    /\ sub # <<>> => b <= end
    /\ pc = "made" => b >= end

\* The blocks follow each other up to the loop variable.
Chained ==
    \A k \in 1..Len(sub) :
        /\ Position(k) + sub[k].size <= b
        /\ k = Len(sub) => Position(k) + sub[k].size = b
        /\ Position(k) = IF k = 1 THEN beg ELSE Position(k - 1) + sub[k - 1].size
        /\ sub[k].ptr = Position(k) - beg
        /\ \A j \in 1..Len(sub) : j < k => Position(j) < Position(k)

\* Each block is a part of a piece.
PartsOfPieces ==
    \A k \in 1..Len(sub) :
        /\ sub[k].size > 0 /\ sub[k].size <= q.bs
        /\ sub[k].off + sub[k].size <= q.plen

IInv == BlockTypes /\ Ranged /\ Cursor /\ Chained /\ PartsOfPieces

USE BlockRequestAssumption DEF vars

----------------------------------------------------------------------------
(* Arithmetic.                                                             *)

\* Cutting a position into a piece and an offset loses nothing.
LEMMA DivMod ==
    ASSUME NEW n \in Nat, NEW d \in Nat \ {0}
    PROVE  /\ (n \div d) \in Nat /\ (n % d) \in Nat /\ (n % d) \in 0..(d - 1)
           /\ n = (n \div d) * d + (n % d)
  OBVIOUS

LEMMA ProductIsNat ==
    ASSUME NEW i \in Nat, NEW j \in Nat
    PROVE  i * j \in Nat
  OBVIOUS

LEMMA TimesMonotone ==
    ASSUME NEW i \in Nat, NEW j \in Nat, NEW d \in Nat, i <= j
    PROVE  i * d <= j * d
  OBVIOUS

\* The earlier of two positions is not in a later piece.
LEMMA EarlierPiece ==
    ASSUME NEW i \in Nat, NEW j \in Nat, NEW d \in Nat \ {0},
           NEW o \in 0..(d - 1), NEW p \in 0..(d - 1),
           i * d + o < j * d + p
    PROVE  i <= j
  <1> SUFFICES ASSUME j + 1 <= i PROVE FALSE  OBVIOUS
  <1>1. (j + 1) * d <= i * d  OBVIOUS
  <1>2. (j + 1) * d = j * d + d  OBVIOUS
  <1>3. i * d \in Nat /\ j * d \in Nat  OBVIOUS
  <1> QED  OBVIOUS

\* The lengths of a read are numbers, those that divide are not 0.
LEMMA ReadNumbers ==
    ASSUME q \in Reads
    PROVE  /\ q.offset \in Nat /\ q.length \in Nat /\ q.pieces \in Nat
           /\ q.off \in Nat /\ q.count \in Nat
           /\ q.plen \in Nat \ {0} /\ q.bs \in Nat \ {0}
           /\ totalsize \in Nat
  <1>1. q \in Read  OBVIOUS
  <1>2. q.pieces * q.plen \in Nat  BY DEF Read
  <1> QED  BY DEF Read, totalsize

\* A block ends behind its beginning, within its piece, its size and the range.
LEMMA BlockEndBounds ==
    ASSUME q \in Reads, b \in Nat, end \in Nat, b < end
    PROVE  /\ BlockEnd \in Nat /\ b < BlockEnd /\ BlockEnd <= end
           /\ BlockEnd - b <= q.bs
           /\ (b % q.plen) + (BlockEnd - b) <= q.plen
  <1>1. b % q.plen \in 0..(q.plen - 1)  BY ReadNumbers
  <1> QED  BY ReadNumbers DEF BlockEnd, Least

LEMMA PositionIsNumber ==
    ASSUME BlockTypes, NEW k \in 1..Len(sub)
    PROVE  Position(k) \in Nat /\ sub[k] \in Block
  <1>1. sub[k] \in Block  BY DEF BlockTypes
  <1>2. sub[k].index \in Nat /\ q.plen \in Nat
    BY <1>1, ReadNumbers DEF BlockTypes, Block
  <1>3. sub[k].index * q.plen \in Nat  BY <1>2
  <1> QED  BY <1>1, <1>3 DEF Position, Block

----------------------------------------------------------------------------
(* One lemma per action.                                                   *)

LEMMA StepRange ==
    ASSUME IInv, ReadRange
    PROVE  IInv'
  <1>1. beg' \in Nat /\ end' \in Nat
    <2>1. /\ q.offset \in Nat /\ q.length \in Nat /\ q.off \in Nat
          /\ q.count \in Nat /\ totalsize \in Nat
      BY ReadNumbers DEF IInv, BlockTypes
    <2>2. /\ (q.offset + q.off) % Word \in Nat
          /\ (q.offset + q.off + q.count) % Word \in Nat
          /\ (q.offset + q.length) % Word \in Nat  BY <2>1
    <2> HIDE DEF totalsize
    <2> QED  BY <2>1 DEF ReadRange, Least
  <1>2. size' \in Nat  BY <1>1 DEF ReadRange, Minus
  <1>3. BlockTypes'  BY <1>1, <1>2 DEF IInv, BlockTypes, ReadRange
  <1>4. Ranged'  BY DEF Ranged, ReadRange, totalsize
  <1>5. sub' = <<>> /\ b' = beg' /\ pc' \in {"cut", "eof"}
        /\ (pc' = "eof" => size' = 0)  BY DEF IInv, Cursor, ReadRange
  <1>6. Cursor'  BY <1>1, <1>5 DEF Cursor
  <1>7. Chained' /\ PartsOfPieces'  BY <1>5 DEF Chained, PartsOfPieces
  <1> QED  BY <1>3, <1>4, <1>6, <1>7 DEF IInv

LEMMA StepCut ==
    ASSUME IInv, Cut
    PROVE  IInv'
  <1> DEFINE n == Len(sub)
             new == [index |-> b \div q.plen, off |-> b % q.plen,
                     size |-> BlockEnd - b, ptr |-> b - beg]
  <1>1. /\ b < end /\ pc = "cut" /\ pc' = "cut"
        /\ sub' = Append(sub, new) /\ b' = BlockEnd
        /\ q' = q /\ beg' = beg /\ end' = end /\ size' = size  BY DEF Cut
  <1>2. q \in Reads /\ b \in Nat /\ end \in Nat /\ beg \in Nat /\ n \in Nat
        /\ sub \in Seq(Block) /\ size \in Nat  BY DEF IInv, BlockTypes
  <1>3. /\ BlockEnd \in Nat /\ b < BlockEnd /\ BlockEnd <= end
        /\ BlockEnd - b <= q.bs
        /\ (b % q.plen) + (BlockEnd - b) <= q.plen
    BY <1>1, <1>2, BlockEndBounds
  <1>4. beg <= b  BY <1>1 DEF IInv, Cursor
  <1>5. new \in Block
    <2>1. q.plen \in Nat \ {0}  BY <1>2, ReadNumbers
    <2>2. /\ (b \div q.plen) \in Nat
          /\ (b % q.plen) \in Nat  BY <2>1, <1>2
    <2> QED  BY <2>2, <1>2, <1>3, <1>4 DEF Block
  <1>6. /\ Len(sub') = n + 1 /\ sub'[n + 1] = new
        /\ \A k \in 1..n : sub'[k] = sub[k]
        /\ sub' \in Seq(Block)  BY <1>1, <1>2, <1>5
  <1>7. BlockTypes'  BY <1>1, <1>2, <1>3, <1>6 DEF BlockTypes
  <1>8. Ranged'  BY <1>1 DEF IInv, Ranged, totalsize
  <1>9. Cursor'  BY <1>1, <1>3, <1>4, <1>2 DEF Cursor
  <1>10. /\ \A k \in 1..n : Position(k)' = Position(k) /\ Position(k) \in Nat
                            /\ sub[k] \in Block
         /\ \A k \in 1..(n + 1) : k = n + 1 => Position(k)' = b
    <2>1. \A k \in 1..n : Position(k)' = Position(k)  BY <1>1 DEF Position
    <2>2. b = (b \div q.plen) * q.plen + (b % q.plen)
      BY <1>2, ReadNumbers, DivMod
    <2>3. \A k \in 1..(n + 1) : k = n + 1 => Position(k)' = b
      BY <1>1, <2>2 DEF Position
    <2> QED  BY <2>1, <2>3, PositionIsNumber DEF IInv
  <1>11. Chained'
    <2> SUFFICES ASSUME NEW k \in 1..(n + 1)
        PROVE  /\ Position(k)' + sub'[k].size <= b'
               /\ k = n + 1 => Position(k)' + sub'[k].size = b'
               /\ Position(k)' = IF k = 1 THEN beg
                                 ELSE Position(k - 1)' + sub'[k - 1].size
               /\ sub'[k].ptr = Position(k)' - beg
               /\ \A j \in 1..(n + 1) : j < k => Position(j)' < Position(k)'
      BY <1>1 DEF Chained
    <2>1. CASE k \in 1..n
      <3>1. \A j \in 1..(n + 1) : j < k => j \in 1..n  OBVIOUS
      <3>2. sub'[k] = sub[k] /\ Position(k)' = Position(k)  BY <2>1, <1>6, <1>10
      <3>3. k # 1 => k - 1 \in 1..n  OBVIOUS
      <3>4. k # 1 => sub'[k - 1] = sub[k - 1] /\ Position(k - 1)' = Position(k - 1)
        BY <1>6, <1>10
      <3>5. Position(k) \in Nat /\ sub[k].size \in Nat  BY <2>1, <1>10 DEF Block
      <3>6. /\ Position(k) + sub[k].size <= b
            /\ Position(k) = IF k = 1 THEN beg
                             ELSE Position(k - 1) + sub[k - 1].size
            /\ sub[k].ptr = Position(k) - beg
            /\ \A j \in 1..n : j < k => Position(j) < Position(k)
        BY <2>1 DEF IInv, Chained
      <3>7. Position(k)' + sub'[k].size <= b' /\ k # n + 1
        BY <3>2, <3>5, <3>6, <1>1, <1>2, <1>3
      <3>8. \A j \in 1..(n + 1) : j < k => Position(j)' < Position(k)'
        BY <2>1, <3>6, <1>10
      <3> QED  BY <3>2, <3>4, <3>6, <3>7, <3>8
    <2>2. CASE k = n + 1
      <3>1. Position(k)' = b /\ sub'[k] = new  BY <2>2, <1>6, <1>10
      <3>2. Position(k)' + sub'[k].size = b'  BY <3>1, <1>1, <1>2, <1>3
      <3>3. sub'[k].ptr = Position(k)' - beg  BY <3>1
      <3>4. Position(k)' = IF k = 1 THEN beg ELSE Position(k - 1)' + sub'[k - 1].size
        <4>1. CASE n = 0
          <5>1. sub = <<>>  BY <4>1
          <5> QED  BY <4>1, <3>1, <1>1 DEF IInv, Cursor
        <4>2. CASE n # 0
          <5>1. n \in 1..n /\ k - 1 = n /\ k # 1  BY <4>2, <2>2
          <5>2. Position(n) + sub[n].size = b  BY <5>1 DEF IInv, Chained
          <5> QED  BY <5>1, <5>2, <1>6, <1>10
        <4> QED  BY <4>1, <4>2
      <3>5. \A j \in 1..(n + 1) : j < k => Position(j)' < Position(k)'
        <4> SUFFICES ASSUME NEW j \in 1..n PROVE Position(j) < b  BY <2>2, <1>10
        <4>1. Position(j) + sub[j].size <= b /\ sub[j].size > 0
          BY DEF IInv, Chained, PartsOfPieces
        <4>2. Position(j) \in Nat /\ sub[j].size \in Nat  BY <1>10 DEF Block
        <4> QED  BY <4>1, <4>2, <1>2
      <3> QED  BY <3>1, <3>2, <3>4, <3>5, <1>1, <1>3
    <2> QED  BY <2>1, <2>2
  <1>12. PartsOfPieces'
    <2>1. \A k \in 1..n : /\ sub[k].size > 0 /\ sub[k].size <= q.bs
                          /\ sub[k].off + sub[k].size <= q.plen
      BY DEF IInv, PartsOfPieces
    <2>2. /\ new.size > 0 /\ new.size <= q.bs
          /\ new.off + new.size <= q.plen  BY <1>2, <1>3
    <2> HIDE DEF new
    <2>3. \A k \in 1..(n + 1) : k \in 1..n \/ k = n + 1  OBVIOUS
    <2> QED  BY <2>1, <2>2, <1>1 DEF PartsOfPieces
  <1> QED  BY <1>7, <1>8, <1>9, <1>11, <1>12 DEF IInv

LEMMA StepMade ==
    ASSUME IInv, Made
    PROVE  IInv'
  <1>1. BlockTypes' /\ Ranged'  BY DEF IInv, BlockTypes, Ranged, totalsize, Made
  <1>2. Cursor'  BY DEF IInv, Cursor, Made
  <1>3. \A k : Position(k)' = Position(k)  BY DEF Position, Made
  <1>4. Chained' /\ PartsOfPieces'  BY <1>3 DEF IInv, Chained, PartsOfPieces, Made
  <1> QED  BY <1>1, <1>2, <1>4 DEF IInv

LEMMA Initially == Init => IInv
  BY DEF Init, IInv, BlockTypes, Ranged, Cursor, Chained, PartsOfPieces

LEMMA Stutters ==
    ASSUME IInv, UNCHANGED vars
    PROVE  IInv'
  <1>1. BlockTypes' /\ Ranged' /\ Cursor'
    BY DEF IInv, BlockTypes, Ranged, totalsize, Cursor
  <1>2. \A k : Position(k)' = Position(k)  BY DEF Position
  <1>3. Chained' /\ PartsOfPieces'  BY <1>2 DEF IInv, Chained, PartsOfPieces
  <1> QED  BY <1>1, <1>3 DEF IInv

LEMMA NextKeeps ==
    ASSUME IInv, [Next]_vars
    PROVE  IInv'
  BY StepRange, StepCut, StepMade, Stutters DEF Next

\* Nothing comes after the last block.
LEMMA MadeIsLast ==
    ASSUME Next
    PROVE  pc # "made"
  BY DEF Next, ReadRange, Cut, Made

\* A later block has another place: the search passes over those before the
\* one it looks for, and does not end at any of them.
LEMMA FoundIsBlock ==
    ASSUME IInv, NEW k \in 1..Len(sub)
    PROVE  Found(sub[k].index, sub[k].off, sub[k].size) = {k}
  <1>1. BlockTypes  BY DEF IInv
  <1>2. \A m \in 1..Len(sub) :
          /\ sub[m].index \in Nat /\ sub[m].off \in 0..(q.plen - 1)
          /\ Position(m) \in Nat
    <2> SUFFICES ASSUME NEW m \in 1..Len(sub)
        PROVE  /\ sub[m].index \in Nat /\ sub[m].off \in 0..(q.plen - 1)
               /\ Position(m) \in Nat
      OBVIOUS
    <2>1. sub[m] \in Block /\ Position(m) \in Nat  BY <1>1, PositionIsNumber
    <2>2. sub[m].size > 0 /\ sub[m].off + sub[m].size <= q.plen
      BY DEF IInv, PartsOfPieces
    <2>3. q.plen \in Nat  BY <1>1, ReadNumbers DEF BlockTypes
    <2> QED  BY <2>1, <2>2, <2>3 DEF Block
  <1>3. ASSUME NEW i \in 1..Len(sub), NEW j \in 1..Len(sub), i < j
        PROVE  sub[i].index <= sub[j].index /\ ~(sub[i].index = sub[j].index
                                                /\ sub[i].off = sub[j].off)
    <2>1. Position(i) < Position(j)  BY <1>1, <1>3 DEF IInv, Chained
    <2>2. sub[i].index <= sub[j].index
      BY <1>1, <1>2, <2>1, EarlierPiece, ReadNumbers DEF BlockTypes, Position
    <2>3. ASSUME sub[i].index = sub[j].index, sub[i].off = sub[j].off PROVE FALSE
      <3>1. Position(i) = Position(j)  BY <2>3 DEF Position
      <3> QED  BY <3>1, <2>1, <1>2
    <2> QED  BY <2>2, <2>3
  <1>4. \A j \in 1..Len(sub) :
          j # k => ~Fits(sub[j], sub[k].index, sub[k].off, sub[k].size)
    BY <1>3 DEF Fits
  <1>5. \A j \in 1..(k - 1) : ~Behind(sub[j], sub[k].index, sub[k].off)
    BY <1>2, <1>3 DEF Behind
  <1>6. Fits(sub[k], sub[k].index, sub[k].off, sub[k].size)  BY DEF Fits
  <1> QED  BY <1>4, <1>5, <1>6 DEF Found

----------------------------------------------------------------------------
(* The theorems.                                                           *)

\* What the blocks, the loop variable and the range have to do with each other
\* at every turn of Request's constructor (tor.hpp:893-908).
THEOREM Invariance == Spec => []IInv
  <1>1. IInv /\ [Next]_vars => IInv'  BY NextKeeps
  <1> QED  BY <1>1, Initially, PTL DEF Spec

\* The blocks are the range, without gap or overlap, and each one's place in
\* the buffer is its place in the range, for pieces and blocks of any length
\* (tor.hpp:897-907).
THEOREM CutIntoBlocks == Spec => []BlocksAreRange
  <1>1. ASSUME IInv PROVE BlocksAreRange
    <2>1. \A k \in 1..Len(sub) :
            /\ sub[k].ptr = Position(k) - beg
            /\ Position(k) = IF k = 1 THEN beg ELSE Position(k - 1) + sub[k - 1].size
      BY <1>1 DEF IInv, Chained
    <2>2. ASSUME pc = "made", sub # <<>>
          PROVE  Position(Len(sub)) + sub[Len(sub)].size = end
      <3>1. b = end  BY <1>1, <2>2 DEF IInv, BlockTypes, Cursor
      <3>2. Len(sub) \in 1..Len(sub)  BY <2>2
      <3> QED  BY <1>1, <3>1, <3>2 DEF IInv, Chained
    <2> QED  BY <2>1, <2>2 DEF BlocksAreRange
  <1> QED  BY <1>1, Invariance, PTL

\* No block reaches into the next piece, and none is longer than what a peer
\* sends (tor.hpp:896-902).
THEOREM BlocksFit == Spec => []BlocksFitPieces
  <1>1. IInv => BlocksFitPieces  BY DEF IInv, PartsOfPieces, BlocksFitPieces
  <1> QED  BY <1>1, Invariance, PTL

\* The search for the block of a message finds it and no other, although it
\* ends at the first block that is behind in piece and offset
\* (tor.hpp:923-935).
THEOREM SearchFinds == Spec => []RecvFinds
  <1>1. IInv => RecvFinds  BY FoundIsBlock DEF RecvFinds
  <1> QED  BY <1>1, Invariance, PTL

\* A read that starts in the file starts in the torrent, and no sum overflows.
Sane ==
    \A r \in Reads :
        /\ r.off <= r.length => r.offset + r.off <= r.pieces * r.plen
        /\ r.pieces * r.plen < Word
        /\ r.offset + r.length < Word
        /\ r.offset + r.off + r.count < Word

\* The size that read() reports is that of the part of the file it was asked
\* for, when the read starts in the file (tor.hpp:1085-1095, 1127).
THEOREM ReportsPart ==
    ASSUME Sane
    PROVE  Spec => []ReportsFilePart
  <1>1. ASSUME IInv, pc = "made", q.off <= q.length
        PROVE  size = Least(Least(q.count, q.length - q.off),
                            totalsize - (q.offset + q.off))
    <2>1. q \in Reads  BY <1>1 DEF IInv, BlockTypes
    <2>2. /\ q.offset \in Nat /\ q.length \in Nat /\ q.off \in Nat
          /\ q.count \in Nat /\ q.pieces * q.plen \in Nat  BY <2>1, ReadNumbers
    <2>3. totalsize = q.pieces * q.plen
      <3>1. q.pieces * q.plen < Word  BY <2>1 DEF Sane
      <3>2. \A n \in Nat : n < Word => n % Word = n  OBVIOUS
      <3> QED  BY <3>1, <2>2 DEF totalsize
    <2>4. /\ q.offset + q.off <= totalsize /\ totalsize < Word
          /\ q.offset + q.off + q.count < Word /\ q.offset + q.length < Word
          /\ totalsize \in Nat  BY <1>1, <2>1, <2>2, <2>3 DEF Sane
    <2>5. /\ beg = q.offset + q.off
          /\ end = Least(Least(q.offset + q.off + q.count, q.offset + q.length),
                         totalsize)
          /\ size = Minus(end, beg)
      <3>1. \A n \in Nat : n < Word => n % Word = n  OBVIOUS
      <3>2. /\ q.offset + q.off \in Nat /\ q.offset + q.off < Word
            /\ q.offset + q.off + q.count \in Nat
            /\ q.offset + q.length \in Nat /\ q.offset + q.length < Word
        BY <2>2, <2>4
      <3>3. /\ (q.offset + q.off) % Word = q.offset + q.off
            /\ (q.offset + q.off + q.count) % Word = q.offset + q.off + q.count
            /\ (q.offset + q.length) % Word = q.offset + q.length  BY <3>2, <2>4
      <3> QED  BY <1>1, <3>3 DEF IInv, Ranged
    <2>6. beg <= end /\ end < Word /\ end \in Nat /\ beg \in Nat
      BY <1>1, <2>2, <2>4, <2>5 DEF Least
    <2>7. size = end - beg
      <3>1. end + Word - beg = (end - beg) + Word /\ end - beg \in Nat
            /\ end - beg < Word  BY <2>6
      <3>2. \A n \in Nat : n < Word => (n + Word) % Word = n  OBVIOUS
      <3> QED  BY <2>5, <3>1 DEF Minus
    <2> QED  BY <2>2, <2>4, <2>5, <2>7 DEF Least
  <1>2. IInv => ReportsFilePart  BY <1>1 DEF ReportsFilePart
  <1> QED  BY <1>2, Invariance, PTL
=============================================================================
