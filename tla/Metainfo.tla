------------------------------ MODULE Metainfo ------------------------------
(***************************************************************************)
(* The file that describes a torrent (tor.hpp): bencode as read() parses   *)
(* it and operator<< writes it, and what Torrent::readT() takes of it.     *)
(*                                                                         *)
(* A text is a sequence of characters.  A digit is its value; the rest are *)
(* numbers from Colon on, in the order of the alphabet.  The keys of the   *)
(* metainfo have one character here: it is their order that counts.        *)
(***************************************************************************)
EXTENDS Torrent, TLC

CONSTANTS
    HashLen,    \* characters of a piece's hash, 20 in the program
    IntWord     \* 2^32: an int goes from -IntWord/2

ASSUME MetainfoAssumption == {HashLen, IntWord} \subseteq Nat \ {0}

Colon == 10
Minus == 11
Plus == 12
D == 20
E == 21
I == 23
L == 24

\* "announce", "info"; in info "files", "length", "piece length", "pieces";
\* in a file "length" and "path".
announce == <<19>>
info == <<I>>
files == <<22>>
length == <<L>>
pieceLength == <<25>>
pieces == <<27>>
path == <<26>>

\* Value: a dictionary is a function of its keys, None the default value.
Num(n)  == [t |-> "i", i |-> n]
Text(s) == [t |-> "s", s |-> s]
List(l) == [t |-> "l", l |-> l]
Dict(d) == [t |-> "d", d |-> d]
None    == [t |-> "none"]

Field(v, k) == IF k \in DOMAIN v.d THEN v.d[k] ELSE None

Wrap(n) == ((n + IntWord \div 2) % IntWord) - IntWord \div 2

(***************************************************************************)
(* read(): a value and the place behind it, or an exception.               *)
(***************************************************************************)
Read(v, p) == [ok |-> TRUE, v |-> v, p |-> p]
Thrown     == [ok |-> FALSE]

\* A wrong variant: the sign is lost.
RECURSIVE readIntStrict(_, _, _, _, _)
readIntStrict(x, p, n, sign, eoi) ==
    IF p > Len(x) THEN Thrown
    ELSE IF x[p] = Plus /\ sign = 0 THEN readIntStrict(x, p + 1, n, 1, eoi)
    ELSE IF x[p] = Minus /\ sign = 0 THEN readIntStrict(x, p + 1, n, 1, eoi)
    ELSE IF x[p] \in 0..9 THEN readIntStrict(x, p + 1, Wrap(n * 10 + x[p]), sign, eoi)
    ELSE IF x[p] = eoi THEN Read(Num(n), p + 1)
    ELSE Thrown

\* Digits go on from n; the sign may stand anywhere, once.
RECURSIVE readInt(_, _, _, _, _)
readInt(x, p, n, sign, eoi) ==
    IF p > Len(x) THEN Thrown
    ELSE IF x[p] = Plus /\ sign = 0 THEN readInt(x, p + 1, n, 1, eoi)
    ELSE IF x[p] = Minus /\ sign = 0 THEN readInt(x, p + 1, n, -1, eoi)
    ELSE IF x[p] \in 0..9 THEN readInt(x, p + 1, Wrap(n * 10 + x[p]), sign, eoi)
    ELSE IF x[p] = eoi THEN Read(Num(IF sign = -1 THEN Wrap(-n) ELSE n), p + 1)
    ELSE Thrown

\* A negative length is one that no string can have.
readStr(x, p, b) ==
    LET n == readInt(x, p, b, 0, Colon) IN
    IF n.ok /\ n.v.i >= 0 /\ n.p + n.v.i <= Len(x) + 1
    THEN Read(Text(SubSeq(x, n.p, n.p + n.v.i - 1)), n.p + n.v.i)
    ELSE Thrown

RECURSIVE read(_, _), readList(_, _, _), readDict(_, _, _)

\* An 'e' is the default value, which ends a list or a dictionary.
read(x, p) ==
    IF p > Len(x) THEN Thrown
    ELSE IF x[p] = I THEN readInt(x, p + 1, 0, 0, E)
    ELSE IF x[p] \in 0..9 THEN readStr(x, p + 1, x[p])
    ELSE IF x[p] = L THEN readList(x, p + 1, <<>>)
    ELSE IF x[p] = D THEN readDict(x, p + 1, <<>>)
    ELSE IF x[p] = E THEN Read(None, p + 1)
    ELSE Thrown

readList(x, p, l) ==
    LET v == read(x, p) IN
    IF ~v.ok THEN Thrown
    ELSE IF v.v = None THEN Read(List(l), v.p)
    ELSE readList(x, v.p, Append(l, v.v))

\* The last value of a key counts; a value may be the default one.
readDict(x, p, d) ==
    LET k == read(x, p) IN
    IF ~k.ok THEN Thrown
    ELSE IF k.v = None THEN Read(Dict(d), k.p)
    ELSE IF k.v.t # "s" THEN Thrown
    ELSE LET v == read(x, k.p)
         IN  IF v.ok THEN readDict(x, v.p, (k.v.s :> v.v) @@ d) ELSE Thrown

(***************************************************************************)
(* operator<<: the text of a value.  It throws at a default value.         *)
(***************************************************************************)
RECURSIVE Decimal(_)
Decimal(n) == IF n < 0 THEN <<Minus>> \o Decimal(-n)
              ELSE IF n < 10 THEN <<n>> ELSE Decimal(n \div 10) \o <<n % 10>>

\* The order of std::map.
RECURSIVE Less(_, _)
Less(a, b) == IF a = <<>> \/ b = <<>> THEN a = <<>> /\ b # <<>>
              ELSE Head(a) < Head(b) \/ (Head(a) = Head(b) /\ Less(Tail(a), Tail(b)))

RECURSIVE Printable(_)
Printable(v) == CASE v.t = "l" -> \A k \in DOMAIN v.l : Printable(v.l[k])
                  [] v.t = "d" -> \A k \in DOMAIN v.d : Printable(v.d[k])
                  [] OTHER     -> v # None

RECURSIVE Write(_), WriteList(_), WriteDict(_)
Write(v) == CASE v.t = "s" -> Decimal(Len(v.s)) \o <<Colon>> \o v.s
              [] v.t = "i" -> <<I>> \o Decimal(v.i) \o <<E>>
              [] v.t = "l" -> <<L>> \o WriteList(v.l) \o <<E>>
              [] v.t = "d" -> <<D>> \o WriteDict(v.d) \o <<E>>

WriteList(l) == IF l = <<>> THEN <<>> ELSE Write(Head(l)) \o WriteList(Tail(l))

WriteDict(d) ==
    IF DOMAIN d = {} THEN <<>>
    ELSE LET k == CHOOSE k \in DOMAIN d : \A j \in DOMAIN d \ {k} : Less(k, j)
         IN  Write(Text(k)) \o Write(d[k]) \o WriteDict([j \in DOMAIN d \ {k} |-> d[j]])

(***************************************************************************)
(* Torrent::readT().  It fills the torrent as it goes, so an exception     *)
(* leaves what was read before it, and a torrent that was read before      *)
(* keeps its files and pieces in front of the new ones.                    *)
(***************************************************************************)
\* What a file of the list needs; its path is otherwise only printed.
IsFile(v) == /\ v.t = "d" /\ Field(v, length).t = "i" /\ Field(v, path).t = "l"
             /\ \A k \in DOMAIN Field(v, path).l : Field(v, path).l[k].t = "s"

\* A wrong variant: a file starts at the length of the one before it.
AfterOne(at, len) == len

\* Where the next file starts.
After(at, len) == (at + len) % SizeWord

\* The files of the list before the first that throws.
FilesOf(l) ==
    LET upto[k \in 0..Len(l)] ==
            IF k = 0 THEN [ok |-> TRUE, at |-> 0, files |-> <<>>]
            ELSE LET before == upto[k - 1] IN
                 IF ~before.ok \/ ~IsFile(l[k]) THEN [before EXCEPT !.ok = FALSE]
                 ELSE LET len == Field(l[k], length).i % SizeWord
                      IN  [ok |-> TRUE, at |-> After(before.at, len),
                           files |-> Append(before.files,
                                            [length |-> len, offset |-> before.at])]
    IN  upto[Len(l)]

\* The only file of a torrent without a list.
OneFile(v) ==
    IF Field(v, length).t = "i"
    THEN [ok |-> TRUE, files |-> <<[length |-> Field(v, length).i % SizeWord, offset |-> 0]>>]
    ELSE [ok |-> FALSE, files |-> <<>>]

readT(x, tor) ==
    LET r == read(x, 1)
        isd == r.ok /\ r.v.t = "d"
        named == [tor EXCEPT !.announce = Field(r.v, announce).s]
        v == Field(r.v, info)
        hashed == [named EXCEPT !.info_hash = Write(v)]
        fs == IF Field(v, files).t = "l" THEN FilesOf(Field(v, files).l) ELSE OneFile(v)
        filed == [hashed EXCEPT !.files = @ \o fs.files]
        s == Field(v, pieces)
        cut == [filed EXCEPT !.info_pieces = @ + Len(s.s) \div HashLen]
    IN  IF ~isd THEN Result(FALSE, tor)
        ELSE IF Field(r.v, announce).t # "s" THEN Result(FALSE, tor)
        ELSE IF v.t # "d" \/ ~Printable(v) THEN Result(FALSE, named)
        ELSE IF ~fs.ok THEN Result(FALSE, filed)
        ELSE IF s.t # "s" \/ Len(s.s) % HashLen # 0 THEN Result(FALSE, filed)
        ELSE IF Field(v, pieceLength).t # "i" THEN Result(FALSE, cut)
        ELSE Result(TRUE, [cut EXCEPT !.pieceLength = Field(v, pieceLength).i % IntWord])
=============================================================================
