--------------------------- MODULE TorSourceProofs ---------------------------
(***************************************************************************)
(* What TorSource promises of the bytes it pushes, whatever torrents it    *)
(* reads, and in whatever order it is started, set, sought in, pulled and  *)
(* stopped; and that they are those of the torrent at the path, if what    *)
(* reads it makes of a text what the text describes.                       *)
(***************************************************************************)
EXTENDS TorSource, TLAPS

(***************************************************************************)
(* Reading a text leaves a torrent a torrent, whether it succeeds or not.  *)
(***************************************************************************)
TorrentFile == [length : 0..(SizeWord - 1), offset : 0..(SizeWord - 1)]

IsTorrent(t) ==
    /\ t.info_hash \in Seq(Nat)
    /\ t.files \in Seq(TorrentFile)
    /\ t.info_pieces \in Nat
    /\ t.pieceLength \in Nat

ReadsTorrents ==
    \A d \in Disks : \A p \in DOMAIN d : \A t :
        IsTorrent(t) => IsTorrent(Loaded(d[p].text, t).tor)

(***************************************************************************)
(* The torrent's pieces, and a buffer behind them, are counted in a        *)
(* size_t.  A piece length is a number of 32 bits, so a torrent of 2^64    *)
(* bytes would need 2^32 hashes, more than one metainfo can have.          *)
(***************************************************************************)
Small ==
    tor.info_pieces * tor.pieceLength + tor.pieceLength + Ahead + BlockSize < SizeWord

-----------------------------------------------------------------------------
(***************************************************************************)
(* The inductive invariant.  While fileno stays as it was at the last seek *)
(* or start, the offset is the end of what was pushed, in the file; and a  *)
(* buffer that is being filled ends below the range of a size_t.           *)
(***************************************************************************)
Buffer == [tag : Nat, n : Nat, at : Nat, room : Nat, hash : Seq(Nat)]

Types ==
    /\ disk \in Disks /\ location \in DOMAIN disk
    /\ fileno \in Nat /\ offset \in Nat
    /\ IsTorrent(tor)
    /\ count \in Nat \union {NoBuffer}
    /\ origin \in Nat
    /\ pushed \in Seq(Buffer)

Chained ==
    \A k \in 1..Len(pushed) :
        /\ pushed[k].n \in 1..pushed[k].room
        /\ pushed[k].tag = IF k = 1 THEN origin
                           ELSE pushed[k - 1].tag + pushed[k - 1].n

\* The byte of the file that comes after what was pushed.
Reached(bs) == IF bs = <<>> THEN origin ELSE bs[Len(bs)].tag + bs[Len(bs)].n

InFile ==
    /\ offset = Reached(pushed)
    /\ HasFile => offset <= TheFile.length
    /\ HasFile /\ count # NoBuffer => count >= 1 /\ Begin + count < SizeWord
    /\ flow = "eos" /\ base = "ready" => HasFile /\ offset = TheFile.length

IInv ==
    /\ Types
    /\ base = "null" => count = NoBuffer
    /\ fixed /\ Covered => Chained /\ InFile

-----------------------------------------------------------------------------
(* Arithmetic.                                                             *)

LEMMA SizeIsNat == SizeWord \in Nat \ {0}  BY SizeWordAssumption

LEMMA Remainder ==
  ASSUME NEW a \in Nat
  PROVE  /\ a % SizeWord \in Nat /\ a % SizeWord < SizeWord /\ a % SizeWord <= a
         /\ a < SizeWord => a % SizeWord = a  BY SizeWordAssumption

LEMMA LeastOfThree ==
  ASSUME NEW x \in Nat, NEW y \in Nat, NEW z \in Nat
  PROVE  /\ Least({x, y, z}) \in {x, y, z}
         /\ Least({x, y, z}) <= x /\ Least({x, y, z}) <= y /\ Least({x, y, z}) <= z
  <1> DEFINE S == {x, y, z}
  <1>1. \E m \in S : \A l \in S : m <= l  OBVIOUS
  <1>2. Least(S) \in S /\ \A l \in S : Least(S) <= l
    <2> HIDE DEF S
    <2> QED  BY <1>1 DEF Least
  <1> QED  BY <1>2

\* Rounding up to a multiple adds less than one.
LEMMA RoundedUp ==
  ASSUME NEW e \in Nat, NEW p \in Nat \ {0}
  PROVE  /\ p * ((e + p - 1) \div p) \in Nat
         /\ p * ((e + p - 1) \div p) < e + p
  <1> DEFINE q == (e + p - 1) \div p
             r == (e + p - 1) % p
  <1>1. e + p - 1 \in Nat  OBVIOUS
  <1>2. q \in Nat /\ r \in Nat /\ e + p - 1 = p * q + r  OBVIOUS
  <1>3. p * q \in Nat  OBVIOUS
  <1> DEFINE x == p * q
  <1> HIDE DEF q, r
  <1>4. x \in Nat /\ e + p - 1 = x + r  BY <1>2
  <1>5. x < e + p
    <2> HIDE DEF x
    <2> QED  BY <1>2, <1>4
  <1> QED  OBVIOUS

-----------------------------------------------------------------------------
(* The numbers of a read.                                                  *)

\* The file's place.
LEMMA FilePlace ==
  ASSUME Types, HasFile
  PROVE  /\ TheFile \in TorrentFile
         /\ TheFile.length \in Nat /\ TheFile.length < SizeWord
         /\ TheFile.offset \in Nat /\ TheFile.offset < SizeWord
         /\ totalsize \in Nat /\ totalsize < SizeWord
         /\ Begin \in Nat /\ Begin < SizeWord
  <1>1. TheFile \in TorrentFile  BY DEF Types, IsTorrent, HasFile, TheFile
  <1>2. /\ TheFile.length \in Nat /\ TheFile.length < SizeWord
        /\ TheFile.offset \in Nat /\ TheFile.offset < SizeWord
    BY <1>1, SizeIsNat DEF TorrentFile
  <1>3. tor.info_pieces * tor.pieceLength \in Nat  BY DEF Types, IsTorrent
  <1>4. totalsize \in Nat /\ totalsize < SizeWord
    BY <1>3, Remainder DEF totalsize
  <1>5. TheFile.offset + offset \in Nat  BY <1>2 DEF Types
  <1>6. Begin \in Nat /\ Begin < SizeWord  BY <1>5, Remainder DEF Begin
  <1> QED  BY <1>1, <1>2, <1>4, <1>6

\* Where it begins in the torrent, when the offset is in the file.
LEMMA BeginIs ==
  ASSUME Types, HasFile, Covered, offset <= TheFile.length
  PROVE  /\ Begin = TheFile.offset + offset
         /\ (TheFile.offset + TheFile.length) % SizeWord = TheFile.offset + TheFile.length
         /\ Begin <= TheFile.offset + TheFile.length
         /\ TheFile.offset + TheFile.length <= totalsize
  <1>1. /\ TheFile.length \in Nat /\ TheFile.offset \in Nat /\ offset \in Nat
        /\ totalsize \in Nat /\ totalsize < SizeWord  BY FilePlace DEF Types
  <1>2. TheFile.offset + TheFile.length <= totalsize  BY DEF Covered
  <1>3. TheFile.offset + offset \in Nat /\ TheFile.offset + offset < SizeWord
    BY <1>1, <1>2, SizeIsNat
  <1>4. /\ TheFile.offset + TheFile.length \in Nat
        /\ TheFile.offset + TheFile.length < SizeWord  BY <1>1, <1>2, SizeIsNat
  <1>5. Begin = TheFile.offset + offset  BY <1>3, Remainder DEF Begin
  <1>6. (TheFile.offset + TheFile.length) % SizeWord = TheFile.offset + TheFile.length
    BY <1>4, Remainder
  <1> QED  BY <1>1, <1>2, <1>5, <1>6

\* The size of a buffer is a number, and not 0.
LEMMA BestsizeIsNat ==
  ASSUME Types, HasFile => tor.pieceLength # 0
  PROVE  bestsize \in Nat /\ bestsize >= 1
  <1>1. BlockSize \in Nat \ {0} /\ Ahead \in Nat  BY TorSourceAssumption
  <1>2. CASE ~HasFile  BY <1>1, <1>2 DEF bestsize
  <1>3. CASE HasFile
    <2> DEFINE b == (TheFile.offset + offset) % SizeWord
               x == (b + Ahead) % SizeWord
               y == (TheFile.offset + TheFile.length) % SizeWord
               e == Least({x, y, totalsize})
               up == tor.pieceLength * ((e + tor.pieceLength - 1) \div tor.pieceLength)
    <2>1. b \in Nat  BY <1>3, FilePlace DEF Begin
    <2>2. x \in Nat /\ y \in Nat /\ totalsize \in Nat
      <3>1. b + Ahead \in Nat  BY <1>1, <2>1
      <3>2. TheFile.offset + TheFile.length \in Nat  BY <1>3, FilePlace
      <3> HIDE DEF b
      <3> QED  BY <1>3, <3>1, FilePlace, Remainder
    <2> HIDE DEF x, y
    <2>3. e \in Nat  BY <2>2, LeastOfThree
    <2> HIDE DEF e
    <2>4. up \in Nat  BY <1>3, <2>3, RoundedUp DEF Types, IsTorrent
    <2>5. bestsize = IF b >= up THEN BlockSize ELSE up - b
      BY <1>3 DEF bestsize, e, x, y
    <2> HIDE DEF b, up
    <2> QED  BY <1>1, <2>1, <2>4, <2>5
  <1> QED  BY <1>2, <1>3

\* It ends below the range of a size_t: behind the last piece of the file, or
\* a block behind its end.
LEMMA BestsizeFits ==
  ASSUME Types, Small, HasFile, Covered, offset <= TheFile.length,
         tor.pieceLength # 0
  PROVE  Begin + bestsize < SizeWord
  <1> DEFINE b == Begin
             x == (b + Ahead) % SizeWord
             y == (TheFile.offset + TheFile.length) % SizeWord
             t == tor.info_pieces * tor.pieceLength
             p == tor.pieceLength
             e == Least({x, y, totalsize})
             up == p * ((e + p - 1) \div p)
  <1>1. BlockSize \in Nat /\ Ahead \in Nat /\ SizeWord \in Nat
    BY TorSourceAssumption, SizeIsNat
  <1>2. b \in Nat /\ b <= totalsize  BY BeginIs, FilePlace
  <1>3. t \in Nat /\ p \in Nat \ {0}  BY DEF Types, IsTorrent
  <1>4. totalsize \in Nat /\ totalsize <= t  BY <1>3, Remainder DEF totalsize
  <1>5. t + p + Ahead + BlockSize < SizeWord  BY DEF Small
  <1>6. x \in Nat /\ y \in Nat
    <2>1. b + Ahead \in Nat  BY <1>1, <1>2
    <2>2. TheFile.offset + TheFile.length \in Nat  BY FilePlace
    <2> HIDE DEF b
    <2> QED  BY <2>1, <2>2, Remainder
  <1>7. bestsize = IF b >= up THEN BlockSize ELSE up - b  BY DEF bestsize, Begin
  <1> HIDE DEF x, y, t, p, b
  <1>8. e \in Nat /\ e <= totalsize  BY <1>4, <1>6, LeastOfThree
  <1> HIDE DEF e
  <1>9. up \in Nat /\ up < e + p  BY <1>3, <1>8
  <1> HIDE DEF up
  <1>10. b + bestsize < SizeWord
    BY <1>1, <1>2, <1>3, <1>4, <1>5, <1>7, <1>8, <1>9
  <1> QED  BY <1>10 DEF b

LEMMA ToReadIsNat ==
  ASSUME Types, HasFile, count # NoBuffer PROVE ToRead \in Nat
  <1> DEFINE x == (Begin + count) % SizeWord
             y == (TheFile.offset + TheFile.length) % SizeWord
             l == Least({x, y, totalsize})
  <1>1. Begin \in Nat /\ Begin < SizeWord /\ totalsize \in Nat  BY FilePlace
  <1>2. Begin + count \in Nat /\ TheFile.offset + TheFile.length \in Nat
    BY FilePlace DEF Types
  <1>3. x \in Nat /\ y \in Nat  BY <1>2, Remainder
  <1>4. ToRead = (l + SizeWord - Begin) % SizeWord  BY DEF ToRead
  <1> HIDE DEF x, y
  <1>5. l \in Nat  BY <1>1, <1>3, LeastOfThree
  <1> HIDE DEF l
  <1>6. l + SizeWord - Begin \in Nat  BY <1>1, <1>5, SizeIsNat
  <1> QED  BY <1>4, <1>6, Remainder

\* What is read is not more than the buffer and the rest of the file, and
\* nothing only at the end of the file.
LEMMA ToReadIs ==
  ASSUME Types, HasFile, Covered, offset <= TheFile.length,
         count # NoBuffer, count >= 1, Begin + count < SizeWord
  PROVE  /\ ToRead \in Nat
         /\ ToRead <= count
         /\ offset + ToRead <= TheFile.length
         /\ ToRead = 0 => offset = TheFile.length
         /\ ~Backward
  <1> DEFINE b == Begin
             f == TheFile.offset
             n == TheFile.length
             w == SizeWord
             x == Least({b + count, f + n, totalsize})
  <1>1. count \in Nat  BY DEF Types
  <1>2. /\ b = f + offset /\ b <= f + n /\ f + n <= totalsize
        /\ (f + n) % w = f + n  BY BeginIs
  <1>3. /\ b \in Nat /\ f \in Nat /\ n \in Nat /\ offset \in Nat
        /\ totalsize \in Nat /\ totalsize < w /\ w \in Nat \ {0}
    BY FilePlace, SizeIsNat DEF Types
  <1>4. (b + count) % w = b + count
    <2>1. b + count \in Nat /\ b + count < w  BY <1>1, <1>3
    <2> QED  BY <2>1, Remainder
  <1>5. ToRead = (x + w - b) % w  BY <1>2, <1>4 DEF ToRead
  <1> HIDE DEF b, f, n
  <1>6. /\ x \in {b + count, f + n, totalsize}
        /\ x <= b + count /\ x <= f + n
    <2>1. b + count \in Nat /\ f + n \in Nat  BY <1>1, <1>3
    <2> QED  BY <1>3, <2>1, LeastOfThree
  <1> HIDE DEF x
  <1>7. x \in Nat /\ b <= x /\ x < w  BY <1>1, <1>2, <1>3, <1>6
  <1>8. (x + w - b) % w = x - b
    <2>1. x - b \in Nat /\ x - b < w  BY <1>3, <1>7
    <2> DEFINE l == x - b
    <2>2. x + w - b = 1 * w + l  BY <1>3, <1>7
    <2>3. l \in Nat /\ l < w  BY <2>1
    <2> HIDE DEF l
    <2>4. (1 * w + l) % w = l  BY <1>3, <2>3
    <2> QED  BY <2>2, <2>4 DEF l
  <1>9. ToRead = x - b  BY <1>5, <1>8
  <1>10. /\ ToRead \in Nat /\ ToRead <= count /\ offset + ToRead <= n
         /\ ToRead = 0 => offset = n
         /\ b + ToRead < w  BY <1>1, <1>2, <1>3, <1>6, <1>9
  <1>11. ~Backward  BY <1>3, <1>10 DEF Backward, b
  <1> QED  BY <1>10, <1>11 DEF n

-----------------------------------------------------------------------------
(* Each step preserves the invariant.                                      *)

LEMMA Initially == Init => IInv
  <1> SUFFICES ASSUME Init PROVE IInv  OBVIOUS
  <1>1. IsTorrent(NoTorrent)  BY DEF IsTorrent, NoTorrent
  <1>2. Types  BY <1>1, TorSourceAssumption DEF Init, Types
  <1>3. ~HasFile
    <2>1. tor.files = <<>> /\ fileno \in Nat  BY <1>2 DEF Init, NoTorrent, Types
    <2> QED  BY <2>1 DEF HasFile
  <1> QED  BY <1>2, <1>3 DEF Init, IInv, Chained, InFile, Reached

\* A step that leaves what was pushed, and the file, alone.
LEMMA Kept ==
  ASSUME IInv, Types', UNCHANGED <<fileno, offset, tor, origin, fixed, pushed, count>>,
         base' = "null" => count = NoBuffer,
         flow' = "eos" /\ base' = "ready" => flow = "eos" /\ base = "ready"
  PROVE  IInv'
  BY DEF IInv, Covered, Chained, InFile, Reached, HasFile, TheFile,
         Begin, totalsize

LEMMA StepSetPath == ASSUME IInv, SetPath PROVE IInv'
  <1>1. Types'  BY DEF IInv, Types, SetPath, hist
  <1> QED  BY <1>1, Kept DEF IInv, SetPath, hist

LEMMA StepSetFileno == ASSUME IInv, SetFileno PROVE IInv'
  <1>1. Types'  BY TorSourceAssumption DEF IInv, Types, SetFileno
  <1> QED  BY <1>1 DEF IInv, SetFileno

LEMMA StepStart == ASSUME ReadsTorrents, IInv, Start PROVE IInv'
  <1>1. tor' = Loaded(disk[location].text, tor).tor  BY DEF Start
  <1>2. /\ offset' = 0 /\ origin' = 0 /\ pushed' = <<>> /\ flow' = "none"
        /\ UNCHANGED <<disk, location, fileno, count>> /\ base = "null"
    BY DEF Start
  <1>3. count = NoBuffer  BY <1>2 DEF IInv
  <1>4. Types'
    <2>1. IsTorrent(tor)'
      <3>1. IsTorrent(Loaded(disk[location].text, tor).tor)
        BY DEF ReadsTorrents, IInv, Types
      <3> QED  BY <1>1, <3>1
    <2> QED  BY <1>2, <2>1 DEF IInv, Types
  <1>5. HasFile' => offset' <= TheFile'.length
    <2> SUFFICES ASSUME HasFile' PROVE 0 <= TheFile'.length  BY <1>2
    <2>1. TheFile' \in TorrentFile
      BY <1>4 DEF Types, IsTorrent, HasFile, TheFile
    <2> QED  BY <2>1 DEF TorrentFile
  <1> QED  BY <1>2, <1>4, <1>5 DEF IInv, Chained, InFile, Reached

LEMMA StepStop == ASSUME IInv, Stop PROVE IInv'
  <1>1. Types'  BY DEF IInv, Types, Stop, hist
  <1> QED  BY <1>1, Kept DEF Stop, hist

LEMMA StepGetSize == ASSUME IInv, GetSize PROVE IInv'
  <1>1. Types'  BY DEF IInv, Types, GetSize, elem, hist
  <1> QED  BY <1>1, Kept DEF GetSize, elem, hist

LEMMA StepSeek == ASSUME IInv, Seek PROVE IInv'
  <1>1. /\ count = NoBuffer /\ fsize > 0 /\ offset' \in 0..fsize
        /\ origin' = offset' /\ pushed' = <<>> /\ flow' = "none" /\ base = "ready"
        /\ UNCHANGED <<disk, location, fileno, tor, base, count>>  BY DEF Seek
  <1>2. HasFile /\ fsize = TheFile.length  BY <1>1 DEF fsize
  <1>3. fsize \in Nat  BY <1>2, FilePlace DEF IInv
  <1>4. offset' \in Nat /\ offset' <= fsize  BY <1>1
  <1>5. Types'  BY <1>1 DEF IInv, Types
  <1>6. offset' <= TheFile'.length  BY <1>1, <1>2 DEF TheFile
  <1> QED  BY <1>1, <1>5, <1>6 DEF IInv, Chained, InFile, Reached

LEMMA StepCreate == ASSUME IInv, Small, Create PROVE IInv'
  <1>1. UNCHANGED <<disk, location, fileno, offset, tor, base, origin, fixed, pushed>>
        /\ count = NoBuffer /\ base = "ready" /\ flow \in {"none", "ok"}
    BY DEF Create, elem, hist
  <1>2. CASE HasFile /\ tor.pieceLength = 0
    <2>1. flow' = "crashed" /\ count' = count  BY <1>2 DEF Create
    <2>2. Types'  BY <1>1, <2>1 DEF IInv, Types
    <2> QED  BY <1>1, <2>1, <2>2, Kept
  <1>3. CASE ~(HasFile /\ tor.pieceLength = 0)
    <2>1. flow' = flow /\ count' = bestsize  BY <1>3 DEF Create
    <2>2. bestsize \in Nat /\ bestsize >= 1  BY <1>3, BestsizeIsNat DEF IInv
    <2>3. Types'  BY <1>1, <2>1, <2>2 DEF IInv, Types
    <2>4. ASSUME fixed, Covered, HasFile PROVE Begin + bestsize < SizeWord
      BY <1>3, <2>4, BestsizeFits DEF IInv, InFile
    <2>5. Covered' = Covered /\ HasFile' = HasFile /\ TheFile' = TheFile /\ Begin' = Begin
      BY <1>1 DEF Covered, HasFile, TheFile, totalsize, Begin
    <2>6. Chained' = Chained /\ Reached(pushed)' = Reached(pushed)
      BY <1>1 DEF Chained, Reached
    <2>7. ASSUME fixed, Covered PROVE InFile'
      BY <1>1, <2>1, <2>2, <2>4, <2>5, <2>6, <2>7 DEF IInv, InFile
    <2> QED  BY <1>1, <2>3, <2>5, <2>6, <2>7 DEF IInv
  <1> QED  BY <1>2, <1>3

\* A buffer that was pushed goes on where the last one ended.
LEMMA PushKeeps ==
  ASSUME IInv, count # NoBuffer, HasFile, NEW n \in 1..ToRead, Push(n)
  PROVE  IInv'
  <1>1. /\ offset' = (offset + n) % SizeWord
        /\ pushed' = Append(pushed, [tag |-> offset, n |-> n, at |-> Begin, room |-> count,
                                     hash |-> tor.info_hash])
        /\ flow' = "ok" /\ count' = NoBuffer
        /\ UNCHANGED <<disk, location, fileno, tor, base, origin, fixed>>
    BY DEF Push
  <1> DEFINE new == [tag |-> offset, n |-> n, at |-> Begin, room |-> count,
                     hash |-> tor.info_hash]
  <1>2. n \in Nat /\ offset \in Nat /\ Begin \in Nat /\ count \in Nat
    <2>1. ToRead \in Nat  BY ToReadIsNat DEF IInv
    <2> QED  BY FilePlace DEF IInv, Types
  <1>3. new \in Buffer  BY <1>2 DEF Buffer, IInv, Types, IsTorrent
  <1>4. pushed \in Seq(Buffer)  BY DEF IInv, Types
  <1> HIDE DEF new
  <1>5. /\ pushed' \in Seq(Buffer) /\ Len(pushed') = Len(pushed) + 1
        /\ pushed' # <<>> /\ pushed'[Len(pushed) + 1] = new
        /\ \A k \in 1..Len(pushed) : pushed'[k] = pushed[k]
    BY <1>1, <1>3, <1>4 DEF new
  <1>6. offset' \in Nat  BY <1>1, <1>2, Remainder
  <1>7. Types'  BY <1>1, <1>5, <1>6 DEF IInv, Types
  <1>8. Covered' = Covered /\ HasFile' = HasFile /\ TheFile' = TheFile
    BY <1>1 DEF Covered, HasFile, TheFile, totalsize
  <1>9. ASSUME fixed, Covered PROVE Chained' /\ InFile'
    <2>1. Chained /\ InFile  BY <1>9 DEF IInv
    <2>2. /\ n <= ToRead /\ ToRead <= count /\ offset + ToRead <= TheFile.length
          /\ ToRead \in Nat /\ n >= 1  BY <1>9, ToReadIs DEF IInv, InFile
    <2>3. offset + n \in Nat /\ offset + n <= TheFile.length
          /\ TheFile.length < SizeWord /\ TheFile.length \in Nat
      BY <1>2, <2>2, FilePlace DEF IInv
    <2>4. offset' = offset + n
      <3>1. offset + n < SizeWord  BY <2>3, SizeIsNat
      <3> QED  BY <1>1, <2>3, <3>1, Remainder
    <2>5. new.tag = offset /\ new.n = n /\ new.room = count  BY DEF new
    <2>6. n \in 1..count  BY <1>2, <2>2
    <2>7. Chained'
      <3> SUFFICES ASSUME NEW k \in 1..Len(pushed')
                   PROVE  /\ pushed'[k].n \in 1..pushed'[k].room
                          /\ pushed'[k].tag =
                                IF k = 1 THEN origin
                                ELSE pushed'[k - 1].tag + pushed'[k - 1].n
        BY <1>1 DEF Chained
      <3>1. CASE k = Len(pushed) + 1
        <4>1. offset = Reached(pushed)  BY <2>1 DEF InFile
        <4>2. CASE pushed = <<>>  BY <1>5, <2>5, <2>6, <3>1, <4>1 DEF Reached
        <4>3. CASE pushed # <<>>
          <5>1. Len(pushed) \in 1..Len(pushed) /\ k # 1 /\ k - 1 = Len(pushed)
            BY <3>1, <4>3
          <5>2. pushed'[k - 1] = pushed[Len(pushed)]  BY <1>5, <5>1
          <5> QED  BY <1>5, <2>5, <2>6, <3>1, <4>1 DEF Reached
        <4> QED  BY <4>2, <4>3
      <3>2. CASE k # Len(pushed) + 1
        <4>1. Len(pushed) \in Nat  OBVIOUS
        <4>2. k \in 1..Len(pushed) /\ (k # 1 => k - 1 \in 1..Len(pushed))
          BY <1>5, <3>2
        <4> QED  BY <1>5, <2>1, <4>2 DEF Chained
      <3> QED  BY <3>1, <3>2
    <2>8. InFile'
      <3>1. Reached(pushed)' = offset + n  BY <1>5, <2>5 DEF Reached
      <3> QED  BY <1>1, <1>8, <2>3, <2>4, <3>1 DEF InFile
    <2> QED  BY <2>7, <2>8
  <1> QED  BY <1>1, <1>7, <1>8, <1>9 DEF IInv

LEMMA StepFill == ASSUME IInv, Fill PROVE IInv'
  <1>1. count # NoBuffer  BY DEF Fill
  <1>2. ASSUME NEW result, Ends(result), result # "eos" PROVE IInv'
    <2>1. /\ flow' = result /\ count' = NoBuffer
          /\ UNCHANGED <<disk, location, fileno, offset, tor, base, origin, fixed, pushed>>
      BY <1>2 DEF Ends, elem, hist
    <2>2. Types'  BY <2>1 DEF IInv, Types
    <2>3. Covered' = Covered /\ HasFile' = HasFile /\ TheFile' = TheFile
          /\ Chained' = Chained /\ Reached(pushed)' = Reached(pushed)
      BY <2>1 DEF Covered, HasFile, TheFile, totalsize, Chained, Reached
    <2> QED  BY <1>2, <2>1, <2>2, <2>3 DEF IInv, InFile
  <1>3. CASE ~Valid \/ ~HasFile
    <2>1. Ends("error")  BY <1>3 DEF Fill
    <2> QED  BY <1>2, <2>1
  <1>4. CASE Valid /\ HasFile /\ ToRead = 0
    <2>1. Ends("eos")  BY <1>4 DEF Fill
    <2>2. /\ flow' = "eos" /\ count' = NoBuffer
          /\ UNCHANGED <<disk, location, fileno, offset, tor, base, origin, fixed, pushed>>
      BY <2>1 DEF Ends, elem, hist
    <2>3. Types'  BY <2>2 DEF IInv, Types
    <2>4. Covered' = Covered /\ HasFile' = HasFile /\ TheFile' = TheFile
          /\ Chained' = Chained /\ Reached(pushed)' = Reached(pushed)
      BY <2>2 DEF Covered, HasFile, TheFile, totalsize, Chained, Reached
    <2>5. ASSUME fixed, Covered PROVE offset = TheFile.length
      BY <1>1, <1>4, <2>5, ToReadIs DEF IInv, InFile
    <2> QED  BY <1>4, <2>2, <2>3, <2>4, <2>5 DEF IInv, InFile
  <1>5. CASE Valid /\ HasFile /\ ToRead # 0
    <2>1. PICK n \in 1..ToRead : Push(n) \/ Ends("error") \/ StayOut
      <3>1. ToRead \in 1..ToRead
        <4>1. ToRead \in Nat  BY <1>1, <1>5, ToReadIsNat DEF IInv
        <4> QED  BY <1>5, <4>1
      <3> QED  BY <3>1 DEF Fill
    <2>2. CASE StayOut
      <3>1. /\ flow' = "waiting"
            /\ UNCHANGED <<disk, location, fileno, offset, tor, base, count,
                            origin, fixed, pushed>>
        BY <2>2 DEF StayOut, elem, hist
      <3>2. Types'  BY <3>1 DEF IInv, Types
      <3>3. /\ Covered' = Covered /\ HasFile' = HasFile /\ TheFile' = TheFile
            /\ Chained' = Chained /\ Reached(pushed)' = Reached(pushed)
            /\ Begin' = Begin
        BY <3>1 DEF Covered, HasFile, TheFile, totalsize, Chained, Reached, Begin
      <3> QED  BY <3>1, <3>2, <3>3 DEF IInv, InFile
    <2> QED  BY <1>1, <1>2, <1>5, <2>1, <2>2, PushKeeps
  <1> QED  BY <1>3, <1>4, <1>5

LEMMA NextKeeps == ASSUME ReadsTorrents, IInv, Small, [Next]_vars PROVE IInv'
  <1>1. CASE UNCHANGED vars
    <2>1. Types'  BY <1>1 DEF IInv, Types, vars, elem, hist
    <2> QED  BY <1>1, <2>1, Kept DEF IInv, vars, elem, hist
  <1> QED
    BY <1>1, StepSetPath, StepSetFileno, StepStart, StepSeek, StepGetSize,
       StepCreate, StepFill, StepStop
       DEF Next, Quit, Leave

-----------------------------------------------------------------------------
(* The theorems.                                                           *)

\* The inductive invariant, as long as no torrent comes near 2^64 bytes.
THEOREM Invariance ==
  ASSUME ReadsTorrents
  PROVE  Spec /\ []Small => []IInv
  <1> QED  BY Initially, NextKeeps, PTL DEF Spec

\* The element pushes the file from the last seek on, byte after byte, however
\* little a read brings and whenever the path is set, for every torrent whose
\* pieces cover the file.
THEOREM BytesInOrder ==
  ASSUME ReadsTorrents
  PROVE  Spec /\ []Small => []PushesInOrder
  <1>1. IInv => PushesInOrder  BY DEF IInv, Chained, PushesInOrder
  <1> QED  BY <1>1, Invariance, PTL

\* It tells the end of the stream only when it has pushed the file to its end.
THEOREM EndIsEnd ==
  ASSUME ReadsTorrents
  PROVE  Spec /\ []Small => []EosAfterAll
  <1>1. IInv => EosAfterAll  BY DEF IInv, InFile, Reached, EosAfterAll
  <1> QED  BY <1>1, Invariance, PTL

-----------------------------------------------------------------------------
(***************************************************************************)
(* The torrent at the path.  A text puts the files it describes, each at   *)
(* its place, behind those that the torrent has already, and its hash in   *)
(* place of the old one.                                                   *)
(***************************************************************************)
Described(m) ==
    [k \in 1..Len(m.lengths) |-> [length |-> m.lengths[k], offset |-> Places(m)[k - 1]]]

ReadsDescribed ==
    \A d \in Disks : \A p \in DOMAIN d : \A t :
        IsTorrent(t) /\ d[p].plain =>
            LET r == Loaded(d[p].text, t)
            IN  /\ r.tor.info_hash = d[p].info
                /\ r.tor.files = t.files \o Described(d[p])

\* Files end, and a buffer behind them, within a size_t too, although pieces
\* need not cover them.
Roomy ==
    \A k \in 1..Len(tor.files) :
        tor.files[k].offset + tor.files[k].length + tor.pieceLength + Ahead + BlockSize
            < SizeWord

(***************************************************************************)
(* The invariant: a torrent that was started from one path only begins     *)
(* with its files; what was pushed since the last seek lies in them; and   *)
(* the offset is in the file, or where nothing more can be read.           *)
(***************************************************************************)
StartedFrom(p) == starts # <<>> /\ \A k \in 1..Len(starts) : starts[k] = p

Placed(files, m) ==
    /\ Len(m.lengths) <= Len(files)
    /\ \A k \in 1..Len(m.lengths) : files[k].offset = Places(m)[k - 1]

Holds(m) == tor.info_hash = m.info /\ Placed(tor.files, m)

InPlace(m) ==
    \A k \in 1..Len(pushed) :
        /\ pushed[k].hash = m.info
        /\ fileno < Len(m.lengths) => pushed[k].at = Places(m)[fileno] + pushed[k].tag

FileEnd == TheFile.offset + TheFile.length

\* Where a file ends that its pieces do not cover, a backward range leads.
AtEnd ==
    /\ Begin \in {FileEnd, totalsize}
    /\ Begin <= FileEnd /\ Begin <= totalsize

AtPlace ==
    fixed /\ HasFile =>
        /\ count # NoBuffer => Begin + count < SizeWord
        /\ offset <= TheFile.length \/ AtEnd

PInv ==
    /\ starts \in Seq(DOMAIN disk)
    /\ starts = <<>> => tor = NoTorrent /\ pushed = <<>> /\ base = "null"
    /\ \A p \in DOMAIN disk :
           disk[p].plain /\ StartedFrom(p) =>
               Holds(disk[p]) /\ (fixed => InPlace(disk[p]))
    /\ AtPlace

\* The file at fileno, and its end.
LEMMA Room ==
  ASSUME Types, Roomy, HasFile
  PROVE  /\ FileEnd \in Nat
         /\ FileEnd + tor.pieceLength + Ahead + BlockSize < SizeWord
         /\ FileEnd % SizeWord = FileEnd
         /\ tor.pieceLength \in Nat /\ Ahead \in Nat \ {0} /\ BlockSize \in Nat \ {0}
  <1>1. /\ TheFile.length \in Nat /\ TheFile.offset \in Nat
        /\ tor.pieceLength \in Nat /\ Ahead \in Nat \ {0} /\ BlockSize \in Nat \ {0}
    BY FilePlace, TorSourceAssumption DEF Types, IsTorrent
  <1>2. fileno + 1 \in 1..Len(tor.files)  BY DEF Types, HasFile
  <1>3. FileEnd + tor.pieceLength + Ahead + BlockSize < SizeWord
    BY <1>2 DEF Roomy, FileEnd, TheFile
  <1>4. FileEnd \in Nat /\ FileEnd < SizeWord
    BY <1>1, <1>3, SizeIsNat DEF FileEnd
  <1> QED  BY <1>1, <1>3, <1>4, Remainder

\* An offset in the file is where the file is.
LEMMA InFileBegins ==
  ASSUME Types, Roomy, HasFile, offset <= TheFile.length
  PROVE  /\ Begin = TheFile.offset + offset
         /\ Begin <= FileEnd
  <1>1. /\ TheFile.length \in Nat /\ TheFile.offset \in Nat /\ offset \in Nat
    BY FilePlace DEF Types
  <1>2. TheFile.offset + offset \in Nat /\ TheFile.offset + offset <= FileEnd
    BY <1>1 DEF FileEnd
  <1>3. TheFile.offset + offset < SizeWord  BY <1>2, Room, SizeIsNat
  <1> QED  BY <1>2, <1>3, Remainder DEF Begin

\* A buffer ends behind the last piece of the file at most.
LEMMA BestsizeFitsAnywhere ==
  ASSUME Types, Roomy, HasFile, offset <= TheFile.length \/ AtEnd, tor.pieceLength # 0
  PROVE  Begin + bestsize < SizeWord
  <1> DEFINE b == Begin
             x == (b + Ahead) % SizeWord
             p == tor.pieceLength
             e == Least({x, FileEnd, totalsize})
             up == p * ((e + p - 1) \div p)
  <1>1. /\ BlockSize \in Nat /\ Ahead \in Nat /\ p \in Nat \ {0} /\ FileEnd \in Nat
        /\ FileEnd + p + Ahead + BlockSize < SizeWord
        /\ SizeWord \in Nat  BY Room, SizeIsNat
  <1>2. b \in Nat /\ b <= FileEnd  BY InFileBegins, FilePlace DEF AtEnd
  <1>3. bestsize = IF b >= up THEN BlockSize ELSE up - b
    BY Room DEF bestsize, Begin, FileEnd
  <1>4. x \in Nat /\ totalsize \in Nat
    <2>1. b + Ahead \in Nat  BY <1>1, <1>2
    <2> HIDE DEF b
    <2> QED  BY <2>1, FilePlace, Remainder
  <1> HIDE DEF x, b, p
  <1>5. e \in Nat /\ e <= FileEnd  BY <1>1, <1>4, LeastOfThree
  <1> HIDE DEF e
  <1>6. up \in Nat /\ up < e + p  BY <1>1, <1>5
  <1> HIDE DEF up
  <1>7. b + bestsize < SizeWord  BY <1>1, <1>2, <1>3, <1>5, <1>6
  <1> QED  BY <1>7 DEF b

\* What a read is to bring, by where its range ends.
LEMMA RangeIs ==
  ASSUME Types, Roomy, HasFile, count # NoBuffer, Begin + count < SizeWord
  PROVE  \E e \in Nat :
            /\ e \in {Begin + count, FileEnd, totalsize}
            /\ e <= Begin + count /\ e <= FileEnd /\ e <= totalsize
            /\ e < SizeWord
            /\ ToRead = IF Begin <= e THEN e - Begin ELSE e + SizeWord - Begin
  <1> DEFINE b == Begin
             e == Least({b + count, FileEnd, totalsize})
  <1>1. /\ b \in Nat /\ b < SizeWord /\ count \in Nat /\ FileEnd \in Nat
        /\ totalsize \in Nat /\ SizeWord \in Nat \ {0}
        /\ FileEnd % SizeWord = FileEnd /\ b + count < SizeWord
    BY FilePlace, Room, SizeIsNat DEF Types
  <1>2. (b + count) % SizeWord = b + count
    <2>1. b + count \in Nat  BY <1>1
    <2> QED  BY <1>1
  <1>3. ToRead = (e + SizeWord - b) % SizeWord
    BY <1>1, <1>2 DEF ToRead, FileEnd
  <1> HIDE DEF b
  <1>4. /\ e \in {b + count, FileEnd, totalsize}
        /\ e <= b + count /\ e <= FileEnd /\ e <= totalsize
    <2>1. b + count \in Nat  BY <1>1
    <2> QED  BY <1>1, LeastOfThree
  <1> HIDE DEF e
  <1>5. e \in Nat /\ e < SizeWord  BY <1>1, <1>4
  <1>6. ToRead = IF b <= e THEN e - b ELSE e + SizeWord - b
    <2>1. CASE b <= e
      <3> DEFINE l == e - b
                 w == SizeWord
      <3>1. l \in Nat /\ l < w /\ w \in Nat \ {0}  BY <1>1, <1>5, <2>1
      <3>2. e + w - b = 1 * w + l  BY <1>1, <1>5
      <3> HIDE DEF l, w
      <3>3. (1 * w + l) % w = l  BY <3>1
      <3> QED  BY <1>3, <2>1, <3>2, <3>3 DEF l, w
    <2>2. CASE ~(b <= e)
      <3>1. e + SizeWord - b \in Nat /\ e + SizeWord - b < SizeWord
        BY <1>1, <1>5, <2>2
      <3> QED  BY <1>3, <2>2, <3>1, Remainder
    <2> QED  BY <2>1, <2>2
  <1> QED  BY <1>4, <1>5, <1>6 DEF b

-----------------------------------------------------------------------------
(* Each step preserves it.                                                 *)

\* What an action that leaves the offset and the file alone keeps.
LEMMA PlaceKept ==
  ASSUME AtPlace, UNCHANGED <<fileno, offset, tor, fixed>>,
         fixed /\ HasFile /\ count' # NoBuffer => Begin + count' < SizeWord
  PROVE  AtPlace'
  <1>1. /\ HasFile' = HasFile /\ TheFile' = TheFile /\ Begin' = Begin
        /\ FileEnd' = FileEnd /\ totalsize' = totalsize
    BY DEF HasFile, TheFile, Begin, FileEnd, totalsize
  <1>2. AtEnd' = AtEnd  BY <1>1 DEF AtEnd
  <1> QED  BY <1>1, <1>2 DEF AtPlace

\* And what one that leaves the torrent and the buffers alone keeps.
LEMMA TorrentKept ==
  ASSUME PInv, AtPlace', UNCHANGED <<disk, tor, starts, pushed>>,
         base' = "null" \/ starts # <<>>,
         fixed' => fixed /\ fileno' = fileno
  PROVE  PInv'
  <1>1. ASSUME NEW p \in DOMAIN disk, disk[p].plain, StartedFrom(p)
        PROVE  Holds(disk[p])' /\ (fixed' => InPlace(disk[p])')
    <2>1. Holds(disk[p]) /\ (fixed => InPlace(disk[p]))  BY <1>1 DEF PInv
    <2>2. Holds(disk[p])'  BY <2>1 DEF Holds
    <2> QED  BY <2>1, <2>2 DEF InPlace
  <1>2. \A p \in DOMAIN disk : StartedFrom(p)' = StartedFrom(p)
    BY DEF StartedFrom
  <1> QED  BY <1>1, <1>2 DEF PInv

LEMMA PInitially == ASSUME Init PROVE PInv
  <1>1. IInv  BY Initially
  <1>2. tor.files = <<>> /\ fileno \in Nat
    BY <1>1 DEF Init, NoTorrent, IInv, Types
  <1>3. ~HasFile  BY <1>2 DEF HasFile
  <1> QED  BY <1>3 DEF Init, PInv, StartedFrom, AtPlace

LEMMA PSetPath == ASSUME IInv, PInv, SetPath PROVE PInv'
  <1>1. UNCHANGED <<disk, fileno, offset, tor, base, count, starts, fixed, pushed>>
    BY DEF SetPath, hist
  <1>2. AtPlace'  BY <1>1, PlaceKept DEF PInv, AtPlace
  <1> QED  BY <1>1, <1>2, TorrentKept DEF PInv

LEMMA PSetFileno == ASSUME IInv, PInv, SetFileno PROVE PInv'
  <1>1. UNCHANGED <<disk, tor, base, starts, pushed>> /\ ~fixed'
    BY DEF SetFileno
  <1>2. AtPlace'  BY <1>1 DEF AtPlace
  <1> QED  BY <1>1, <1>2, TorrentKept DEF PInv

LEMMA PStop == ASSUME IInv, PInv, Stop PROVE PInv'
  <1>1. UNCHANGED <<disk, fileno, offset, tor, count, starts, fixed, pushed>>
        /\ base' = "null"  BY DEF Stop, hist
  <1>2. AtPlace'  BY <1>1, PlaceKept DEF PInv, AtPlace
  <1> QED  BY <1>1, <1>2, TorrentKept

LEMMA PGetSize == ASSUME IInv, PInv, GetSize PROVE PInv'
  <1>1. UNCHANGED <<disk, fileno, offset, tor, base, count, starts, fixed, pushed>>
    BY DEF GetSize, elem, hist
  <1>2. AtPlace'  BY <1>1, PlaceKept DEF PInv, AtPlace
  <1> QED  BY <1>1, <1>2, TorrentKept DEF PInv

LEMMA PCreate == ASSUME IInv, PInv, Roomy, Create PROVE PInv'
  <1>1. UNCHANGED <<disk, fileno, offset, tor, base, starts, fixed, pushed>>
        /\ count = NoBuffer  BY DEF Create, elem, hist
  <1>2. ASSUME fixed, HasFile, count' # NoBuffer PROVE Begin + count' < SizeWord
    <2>1. count' = bestsize /\ tor.pieceLength # 0  BY <1>2 DEF Create
    <2>2. offset <= TheFile.length \/ AtEnd  BY <1>2 DEF PInv, AtPlace
    <2> QED  BY <1>2, <2>1, <2>2, BestsizeFitsAnywhere DEF IInv
  <1>3. AtPlace'  BY <1>1, <1>2, PlaceKept DEF PInv
  <1> QED  BY <1>1, <1>3, TorrentKept DEF PInv

\* A file is read from its beginning, or from a place in it.
LEMMA PlaceInFile ==
  ASSUME count' = NoBuffer, HasFile' => offset' <= TheFile'.length
  PROVE  AtPlace'  BY DEF AtPlace

LEMMA PSeek == ASSUME IInv, PInv, Seek PROVE PInv'
  <1>1. /\ count = NoBuffer /\ fsize > 0 /\ offset' \in 0..fsize
        /\ pushed' = <<>> /\ base = "ready"
        /\ UNCHANGED <<disk, fileno, tor, base, count, starts>>  BY DEF Seek
  <1>2. HasFile /\ fsize = TheFile.length  BY <1>1 DEF fsize
  <1>3. fsize \in Nat  BY <1>2, FilePlace DEF IInv
  <1>4. TheFile' = TheFile /\ offset' <= TheFile.length
    BY <1>1, <1>2 DEF TheFile
  <1>5. AtPlace'  BY <1>1, <1>4, PlaceInFile
  <1>6. starts # <<>>  BY <1>1 DEF PInv
  <1>7. ASSUME NEW p \in DOMAIN disk, disk[p].plain, StartedFrom(p)
        PROVE  Holds(disk[p])' /\ InPlace(disk[p])'
    <2>1. Holds(disk[p])  BY <1>7 DEF PInv
    <2> QED  BY <1>1, <2>1 DEF Holds, InPlace
  <1>8. \A p \in DOMAIN disk : StartedFrom(p)' = StartedFrom(p)
    BY <1>1 DEF StartedFrom
  <1> QED  BY <1>1, <1>5, <1>7, <1>8 DEF PInv

LEMMA DescribedIsSeq ==
  ASSUME NEW m, m.lengths \in Seq(Nat)
  PROVE  /\ Described(m) \in Seq({Described(m)[k] : k \in 1..Len(m.lengths)})
         /\ Len(Described(m)) = Len(m.lengths)
         /\ \A k \in 1..Len(m.lengths) : Described(m)[k].offset = Places(m)[k - 1]
  <1> DEFINE n == Len(m.lengths)
             f == Described(m)
             S == {f[k] : k \in 1..n}
  <1>1. n \in Nat  OBVIOUS
  <1>2. f = [k \in 1..n |-> [length |-> m.lengths[k], offset |-> Places(m)[k - 1]]]
    BY DEF Described
  <1>3. f \in [1..n -> S]  BY <1>2
  <1>4. \A k \in 1..n : f[k].offset = Places(m)[k - 1]  BY <1>2
  <1> HIDE DEF f, n, S
  <1>5. f \in Seq(S) /\ Len(f) = n  BY <1>1, <1>3
  <1> QED  BY <1>4, <1>5 DEF f, n

\* A sequence stays as it is in front of another.
LEMMA Appended ==
  ASSUME NEW S, NEW T, NEW u \in Seq(S), NEW v \in Seq(T)
  PROVE  /\ Len(u \o v) = Len(u) + Len(v)
         /\ \A k \in 1..Len(u) : (u \o v)[k] = u[k]
  <1> DEFINE R == S \cup T
  <1>1. u \in Seq(R) /\ v \in Seq(R)  OBVIOUS
  <1> HIDE DEF R
  <1> QED  OBVIOUS

LEMMA DescribedComes ==
  ASSUME NEW m, m.lengths \in Seq(Nat),
         NEW files \in Seq(TorrentFile), files = <<>> \/ Placed(files, m)
  PROVE  Placed(files \o Described(m), m)
  <1> DEFINE n == Len(m.lengths)
             f == Described(m)
             S == {f[k] : k \in 1..n}
             all == files \o f
             at == Places(m)
  <1>1. n \in Nat /\ Len(files) \in Nat  OBVIOUS
  <1>2. f \in Seq(S) /\ Len(f) = n /\ \A k \in 1..n : f[k].offset = at[k - 1]
    BY DescribedIsSeq
  <1> HIDE DEF S, f
  <1>3. Len(all) = Len(files) + n /\ \A k \in 1..Len(files) : all[k] = files[k]
    <2> HIDE DEF n
    <2>1. f \in Seq(S)  BY <1>2
    <2>2. Len(files \o f) = Len(files) + Len(f)
          /\ \A k \in 1..Len(files) : (files \o f)[k] = files[k]  OBVIOUS
    <2> QED  BY <1>2, <2>2
  <1>4. CASE files = <<>>
    <2>1. \A k \in 1..n : all[k] = f[k]  BY <1>4
    <2> HIDE DEF all, n, at
    <2>2. Len(all) = n  BY <1>1, <1>3, <1>4
    <2>3. \A k \in 1..n : all[k].offset = at[k - 1]  BY <1>2, <2>1
    <2> QED  BY <2>2, <2>3 DEF Placed, all, n, at, f
  <1>5. CASE Placed(files, m)
    <2>1. n <= Len(files) /\ \A k \in 1..n : files[k].offset = at[k - 1]
      BY <1>5 DEF Placed
    <2> HIDE DEF all, n, at
    <2>2. n <= Len(all) /\ 1..n \subseteq 1..Len(files)  BY <1>1, <1>3, <2>1
    <2>3. \A k \in 1..n : all[k].offset = at[k - 1]  BY <1>3, <2>1, <2>2
    <2> QED  BY <2>2, <2>3 DEF Placed, all, n
  <1> QED  BY <1>4, <1>5

LEMMA PStart ==
  ASSUME ReadsDescribed, IInv, IInv', PInv, Start
  PROVE  PInv'
  <1>1. /\ tor' = Loaded(disk[location].text, tor).tor
        /\ starts' = Append(starts, location)
        /\ offset' = 0 /\ pushed' = <<>> /\ base = "null"
        /\ UNCHANGED <<disk, location, fileno, count>>  BY DEF Start
  <1>2. count' = NoBuffer  BY <1>1 DEF IInv
  <1>3. AtPlace'
    <2>1. HasFile' => TheFile'.length \in Nat
      <3>1. ASSUME HasFile' PROVE TheFile' \in TorrentFile
        BY <3>1 DEF IInv, Types, IsTorrent, HasFile, TheFile
      <3> QED  BY <3>1 DEF TorrentFile
    <2> QED  BY <1>1, <1>2, <2>1, PlaceInFile
  <1>4. /\ disk \in Disks /\ location \in DOMAIN disk /\ IsTorrent(tor)
        /\ starts \in Seq(DOMAIN disk)  BY DEF IInv, PInv, Types
  <1>5. starts' \in Seq(DOMAIN disk) /\ starts' # <<>>  BY <1>1, <1>4
  <1>6. ASSUME NEW p \in DOMAIN disk, disk[p].plain, StartedFrom(p)'
        PROVE  Holds(disk[p])'
    <2> DEFINE m == disk[p]
    <2>1. p = location
      <3>1. starts'[Len(starts) + 1] = location /\ Len(starts) + 1 \in 1..Len(starts')
        BY <1>1
      <3> QED  BY <3>1, <1>6 DEF StartedFrom
    <2>2. /\ tor'.info_hash = m.info
          /\ tor'.files = tor.files \o Described(m)
      BY <1>1, <1>4, <1>6, <2>1 DEF ReadsDescribed
    <2>3. m.lengths \in Seq(Nat)  BY <1>4, TorSourceAssumption DEF Metafile
    <2>4. tor.files \in Seq(TorrentFile)  BY <1>4 DEF IsTorrent
    <2>5. tor.files = <<>> \/ Placed(tor.files, m)
      <3>1. CASE starts = <<>>  BY <3>1 DEF PInv, NoTorrent
      <3>2. CASE starts # <<>>
        <4>1. \A k \in 1..Len(starts) : starts'[k] = starts[k] /\ k \in 1..Len(starts')
          BY <1>1
        <4>2. StartedFrom(p)  BY <1>6, <3>2, <4>1 DEF StartedFrom
        <4> QED  BY <1>6, <4>2 DEF PInv, Holds
      <3> QED  BY <3>1, <3>2
    <2>6. Placed(tor.files \o Described(m), m)
      <3> HIDE DEF m
      <3> QED  BY <2>3, <2>4, <2>5, DescribedComes
    <2> QED  BY <1>1, <2>2, <2>6 DEF Holds
  <1>7. \A p \in DOMAIN disk : InPlace(disk[p])'  BY <1>1 DEF InPlace
  <1> QED  BY <1>1, <1>3, <1>5, <1>6, <1>7 DEF PInv

\* A read moves the offset to the end of what it brought, which is in the file;
\* or, where the file begins behind the pieces, back to their end.
LEMMA PushPlaces ==
  ASSUME IInv, PInv, Roomy, fixed, HasFile, count # NoBuffer, ToRead # 0,
         NEW n \in 1..ToRead, Backward => n = ToRead, Push(n)
  PROVE  Begin = TheFile.offset + offset /\ AtPlace'
  <1> DEFINE b == Begin
             w == SizeWord
             f == TheFile.offset
  <1>1. Types  BY DEF IInv
  <1>2. /\ offset' = (offset + n) % w /\ count' = NoBuffer
        /\ UNCHANGED <<fileno, tor>>  BY DEF Push
  <1>3. b + count < w /\ (offset <= TheFile.length \/ AtEnd)
    BY DEF PInv, AtPlace
  <1>4. /\ b \in Nat /\ b < w /\ w \in Nat \ {0} /\ f \in Nat /\ offset \in Nat
        /\ FileEnd = f + TheFile.length /\ TheFile.length \in Nat /\ count \in Nat
        /\ FileEnd < w  BY <1>1, FilePlace, Room, SizeIsNat DEF Types, FileEnd
  <1>5. PICK e \in Nat :
            /\ e \in {b + count, FileEnd, totalsize}
            /\ e <= b + count /\ e <= FileEnd /\ e <= totalsize /\ e < w
            /\ ToRead = IF b <= e THEN e - b ELSE e + w - b
    BY <1>1, <1>3, RangeIs
  <1>6. offset <= TheFile.length
    <2> SUFFICES ASSUME AtEnd PROVE FALSE  BY <1>3
    <2>1. b <= e  BY <1>4, <1>5 DEF AtEnd
    <2>2. e <= b  BY <1>5 DEF AtEnd
    <2> QED  BY <1>4, <1>5, <2>1, <2>2
  <1>7. b = f + offset  BY <1>1, <1>6, InFileBegins
  <1>8. /\ TheFile' = TheFile /\ HasFile' = HasFile /\ FileEnd' = FileEnd
        /\ totalsize' = totalsize /\ Begin' = (f + offset') % w
    BY <1>2 DEF TheFile, HasFile, FileEnd, totalsize, Begin
  <1>9. n \in Nat /\ ToRead \in Nat /\ n <= ToRead  BY <1>5
  <1>10. CASE b <= e
    <2>1. offset + n <= TheFile.length /\ offset + n \in Nat /\ offset + n < w
      BY <1>4, <1>5, <1>7, <1>10
    <2>2. offset' = offset + n  BY <1>2, <2>1, Remainder
    <2> QED  BY <1>2, <1>7, <1>8, <2>1, <2>2, PlaceInFile
  <1>11. CASE ~(b <= e)
    <2>1. ToRead = e + w - b  BY <1>5, <1>11
    <2>2. n = e + w - b  BY <1>4, <2>1 DEF Backward
    <2>3. e \in {FileEnd, totalsize}  BY <1>4, <1>5, <1>11
    <2>4. Begin' = e
      <3>1. CASE offset + n < w
        <4>1. offset' = offset + n  BY <1>2, <1>4, <3>1, Remainder
        <4>2. f + offset' = 1 * w + e  BY <1>4, <1>7, <2>2, <4>1
        <4>3. (1 * w + e) % w = e  BY <1>4, <1>5
        <4> QED  BY <1>8, <4>2, <4>3
      <3>2. CASE ~(offset + n < w)
        <4> DEFINE o == offset + n - w
        <4>1. o \in Nat /\ o < w /\ offset + n = 1 * w + o
          BY <1>4, <1>5, <1>7, <3>2
        <4>2. offset' = o
          <5> HIDE DEF o
          <5>1. (1 * w + o) % w = o  BY <1>4, <4>1
          <5> QED  BY <1>2, <4>1, <5>1
        <4>3. f + offset' = e  BY <1>4, <1>7, <2>2, <4>2
        <4> QED  BY <1>5, <1>8, <4>3, Remainder
      <3> QED  BY <3>1, <3>2
    <2>5. AtEnd'  BY <1>5, <1>8, <2>3, <2>4 DEF AtEnd
    <2> QED  BY <1>2, <1>7, <2>5 DEF AtPlace
  <1> QED  BY <1>10, <1>11

LEMMA PPush ==
  ASSUME IInv, PInv, Roomy, HasFile, count # NoBuffer, ToRead # 0,
         NEW n \in 1..ToRead, Backward => n = ToRead, Push(n)
  PROVE  PInv'
  <1> DEFINE new == [tag |-> offset, n |-> n, at |-> Begin, room |-> count,
                     hash |-> tor.info_hash]
  <1>1. /\ pushed' = Append(pushed, new)
        /\ UNCHANGED <<disk, location, fileno, tor, base, starts, fixed>>
    BY DEF Push
  <1>2. AtPlace' /\ (fixed => Begin = TheFile.offset + offset)
    <2>1. CASE fixed  BY <2>1, PushPlaces
    <2>2. CASE ~fixed  BY <1>1, <2>2 DEF AtPlace
    <2> QED  BY <2>1, <2>2
  <1>3. starts # <<>>  BY DEF IInv, PInv
  <1>4. pushed \in Seq(Buffer)  BY DEF IInv, Types
  <1>5. ASSUME NEW p \in DOMAIN disk, disk[p].plain, StartedFrom(p)
        PROVE  Holds(disk[p])' /\ (fixed => InPlace(disk[p])')
    <2> DEFINE m == disk[p]
    <2>1. Holds(m) /\ (fixed => InPlace(m))  BY <1>5 DEF PInv
    <2>2. Holds(m)'  BY <1>1, <2>1 DEF Holds
    <2>3. ASSUME fixed PROVE InPlace(m)'
      <3> SUFFICES ASSUME NEW k \in 1..Len(pushed')
                   PROVE  /\ pushed'[k].hash = m.info
                          /\ fileno < Len(m.lengths) =>
                                 pushed'[k].at = Places(m)[fileno] + pushed'[k].tag
        BY <1>1 DEF InPlace
      <3> HIDE DEF m
      <3>1. CASE k \in 1..Len(pushed)
        <4>1. pushed'[k] = pushed[k]
          <5> HIDE DEF new
          <5> QED  BY <1>1, <3>1
        <4> QED  BY <2>1, <2>3, <3>1, <4>1 DEF InPlace
      <3>2. CASE k \notin 1..Len(pushed)
        <4>1. pushed'[k] = new
          <5> HIDE DEF new
          <5> QED  BY <1>1, <3>2
        <4>2. ASSUME fileno < Len(m.lengths) PROVE TheFile.offset = Places(m)[fileno]
          <5>1. m.lengths \in Seq(Nat)
            BY TorSourceAssumption DEF IInv, Types, Metafile, m
          <5>2. fileno \in Nat  BY DEF IInv, Types
          <5>3. fileno + 1 \in 1..Len(m.lengths) /\ (fileno + 1) - 1 = fileno
            BY <4>2, <5>2
          <5> QED  BY <2>1, <5>3 DEF Holds, Placed, TheFile
        <4> QED  BY <1>2, <2>1, <2>3, <4>1, <4>2 DEF Holds
      <3> QED  BY <3>1, <3>2
    <2> QED  BY <2>2, <2>3
  <1>6. \A p \in DOMAIN disk : StartedFrom(p)' = StartedFrom(p)
    BY <1>1 DEF StartedFrom
  <1> QED  BY <1>1, <1>2, <1>3, <1>5, <1>6 DEF PInv

LEMMA PFill == ASSUME IInv, PInv, Roomy, Fill PROVE PInv'
  <1>1. count # NoBuffer /\ base # "null"  BY DEF Fill, IInv
  <1>2. ASSUME NEW result, Ends(result) PROVE PInv'
    <2>1. UNCHANGED <<disk, fileno, offset, tor, base, starts, fixed, pushed>>
          /\ count' = NoBuffer  BY <1>2 DEF Ends, elem, hist
    <2>2. AtPlace'  BY <2>1, PlaceKept DEF PInv
    <2> QED  BY <2>1, <2>2, TorrentKept DEF PInv
  <1>3. CASE StayOut
    <2>1. UNCHANGED <<disk, fileno, offset, tor, base, count, starts, fixed, pushed>>
      BY <1>3 DEF StayOut, elem, hist
    <2>2. AtPlace'  BY <2>1, PlaceKept DEF PInv, AtPlace
    <2> QED  BY <2>1, <2>2, TorrentKept DEF PInv
  <1>4. ASSUME ~(\E result : Ends(result)), ~StayOut PROVE PInv'
    <2>1. HasFile /\ ToRead # 0  BY <1>4 DEF Fill
    <2>2. ToRead \in Nat  BY <1>1, <2>1, ToReadIsNat DEF IInv
    <2>3. ToRead \in 1..ToRead  BY <2>1, <2>2
    <2>4. PICK n \in 1..ToRead : Push(n) /\ (Backward => n = ToRead)
      BY <1>4, <2>3 DEF Fill
    <2> QED  BY <1>1, <2>1, <2>4, PPush
  <1> QED  BY <1>2, <1>3, <1>4

LEMMA PNext ==
  ASSUME ReadsDescribed, IInv, IInv', PInv, Roomy, [Next]_vars PROVE PInv'
  <1>1. CASE UNCHANGED vars
    <2>1. UNCHANGED <<disk, fileno, offset, tor, base, count, starts, fixed, pushed>>
      BY <1>1 DEF vars, elem, hist
    <2>2. AtPlace'  BY <2>1, PlaceKept DEF PInv, AtPlace
    <2> QED  BY <2>1, <2>2, TorrentKept DEF PInv
  <1> QED
    BY <1>1, PSetPath, PSetFileno, PStart, PSeek, PGetSize, PCreate, PFill,
       PStop
       DEF Next, Quit, Leave

\* What is pushed comes from the torrent at the path and the file at fileno,
\* through stops, new starts and seeks, also of torrents whose pieces do not
\* cover their files (tor.hpp:1149-1229, 714-776).
THEOREM PathIsServed ==
  ASSUME ReadsTorrents, ReadsDescribed
  PROVE  Spec /\ [](Small /\ Roomy) => []ServesPath
  <1>1. Init => PInv  BY PInitially
  <1>2. IInv /\ IInv' /\ PInv /\ Roomy /\ [Next]_vars => PInv'  BY PNext
  <1>3. IInv /\ PInv => ServesPath
    <2> SUFFICES ASSUME IInv, PInv, disk[location].plain, fixed,
                        \A k \in 1..Len(starts) : starts[k] = location
                 PROVE  InPlace(disk[location])  BY DEF ServesPath, InPlace
    <2>1. location \in DOMAIN disk  BY DEF IInv, Types
    <2>2. CASE starts = <<>>  BY <2>2 DEF PInv, InPlace
    <2>3. CASE starts # <<>>  BY <2>3 DEF PInv, StartedFrom
    <2> QED  BY <2>2, <2>3
  <1> QED  BY <1>1, <1>2, <1>3, Invariance, PTL DEF Spec
=============================================================================
