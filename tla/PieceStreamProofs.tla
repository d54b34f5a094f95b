--------------------------- MODULE PieceStreamProofs ---------------------------
(***************************************************************************)
(* Proofs about PieceStream: whatever way a peer's bytes are cut, the      *)
(* messages unpack() returns are those the peer said, and the reader's     *)
(* buffer ends up with the bytes that were asked for.                      *)
(*                                                                         *)
(* A stream is messages laid end to end (Laid), and Places says where each *)
(* begins.                                                                 *)
(* CutMessage: unpack() takes one whole message off the front of its       *)
(* input, or nothing of an incomplete one, for each message of the         *)
(* protocol.  UnpackStream: its turns give all whole messages in order     *)
(* and leave the rest.  The invariant says of every state that what was    *)
(* said and not yet heard is what lies in the input and on the wire        *)
(* (OnItsWay), that the buffer has the right bytes where a block is done   *)
(* and nothing elsewhere (Working), and how a connection closes (Closes).  *)
(***************************************************************************)
EXTENDS PieceStream, BlockRequestProofs, Induction

----------------------------------------------------------------------------
(* Numbers on the wire.                                                    *)

LEMMA OctetsAreNumbers ==
    ASSUME NEW s \in Seq(Octet)
    PROVE  s \in Seq(Nat)
  <1>1. Octet \subseteq Nat  BY DEF Octet
  <1> QED  BY <1>1, WiderSequence

\* Four bytes hold what they were written from.
LEMMA FourBytes ==
    ASSUME NEW n, Uint32(n)
    PROVE  /\ hton32(n) \in Seq(Octet) /\ Len(hton32(n)) = 4
           /\ ntoh32(hton32(n), 0) = n
  <1> DEFINE a == n \div 256
             c == n \div 65536
             d == n \div 16777216
  <1>1. n \in Nat /\ d < 256  BY SMT DEF Uint32
  <1>2. a \in Nat /\ c \in Nat /\ d \in Nat  BY SMT, <1>1
  <1>3. n = 256 * a + (n % 256)  BY SMT, <1>1
  <1>4. a = 256 * c + (a % 256)  BY SMT, <1>1
  <1>5. c = 256 * d + (c % 256)  BY SMT, <1>1
  <1>6. d % 256 = d  BY SMT, <1>1, <1>2
  <1>7. n % 256 \in 0..255 /\ a % 256 \in 0..255 /\ c % 256 \in 0..255 /\ d % 256 \in 0..255
    BY SMT, <1>1, <1>2
  <1>8. hton32(n) = <<d % 256, c % 256, a % 256, n % 256>>  BY DEF hton32
  <1> HIDE DEF a, c, d
  <1>9. hton32(n) \in Seq(Octet) /\ Len(hton32(n)) = 4
    BY SMT, <1>7, <1>8 DEF Octet
  <1>10. ntoh32(hton32(n), 0) = n
    BY SMT, <1>2, <1>3, <1>4, <1>5, <1>6, <1>8 DEF ntoh32
  <1> QED  BY <1>9, <1>10

LEMMA TwoBytes ==
    ASSUME NEW n \in Nat, n < 65536
    PROVE  /\ hton16(n) \in Seq(Octet) /\ Len(hton16(n)) = 2
           /\ ntoh16(hton16(n), 0) = n
  <1> DEFINE a == n \div 256
  <1>1. n = 256 * a + (n % 256) /\ a \in 0..255 /\ n % 256 \in 0..255  BY SMT
  <1>2. hton16(n) = <<a % 256, n % 256>>  BY DEF hton16
  <1>3. a % 256 = a  BY SMT, <1>1
  <1> HIDE DEF a
  <1> QED  BY SMT, <1>1, <1>2, <1>3 DEF ntoh16, Octet

----------------------------------------------------------------------------
(* One message, and what has come of it.                                   *)

\* What has come is so far what was sent.
Agrees(s, w) == \A i \in 1..Len(s) : i <= Len(w) => s[i] = w[i]

\* s is cut as w, from which it reads m.
CutAs(s, w, m) ==
    /\ Complete(s) <=> Len(s) >= Len(w)
    /\ Len(s) >= Len(w) => Size(s) = Len(w) /\ First(s) = m

\* The first four elements of a sequence.
LEMMA FirstFour ==
    ASSUME NEW S, NEW s \in Seq(S), Len(s) >= 4
    PROVE  /\ Len(SubSeq(s, 1, 4)) = 4
           /\ \A i \in 1..4 : SubSeq(s, 1, 4)[i] = s[i]
           /\ SubSeq(s, 1, 4) \in Seq(S)
  <1>1. Len(s) \in Nat  OBVIOUS
  <1>2. /\ SubSeq(s, 0 + 1, 4) \in Seq(S) /\ Len(SubSeq(s, 0 + 1, 4)) = 4 - 0
        /\ \A i \in 1..(4 - 0) : SubSeq(s, 0 + 1, 4)[i] = s[0 + i]
    BY <1>1, Part
  <1> QED  BY <1>2

\* unpack() takes what begins with these bytes for a handshake.
LEMMA ProtoBegins ==
    /\ proto \in Seq(Octet) /\ Len(proto) = 19
    /\ <<19>> \o proto \in Seq(Octet) /\ Len(<<19>> \o proto) = 20
    /\ (<<19>> \o proto)[1] = 19 /\ (<<19>> \o proto)[2] = 66
    /\ (<<19>> \o proto)[3] = 105 /\ (<<19>> \o proto)[4] = 116
  <1>1. /\ proto \in [1..19 -> Octet]
        /\ proto[1] = 66 /\ proto[2] = 105 /\ proto[3] = 116
    BY DEF proto, resize, Octet
  <1>2. proto \in Seq(Octet) /\ Len(proto) = 19
    <2>1. \A S, f : f \in [1..19 -> S] => f \in Seq(S) /\ Len(f) = 19
      BY FunctionIsSequence
    <2> QED  BY <1>1, <2>1
  <1> DEFINE n == <<19>>
  <1>3. n \in Seq(Octet)  BY DEF Octet
  <1>4. Len(n) = 1 /\ n[1] = 19  OBVIOUS
  <1> HIDE DEF n
  <1>5. proto \in Seq(Octet)  BY <1>2
  <1>6. /\ n \o proto \in Seq(Octet) /\ Len(n \o proto) = Len(n) + Len(proto)
        /\ \A i \in 1..Len(n) : (n \o proto)[i] = n[i]
        /\ \A i \in 1..Len(proto) : (n \o proto)[Len(n) + i] = proto[i]
    BY <1>3, <1>5, Joined
  <1>7. (n \o proto)[1] = 19  BY <1>4, <1>6
  <1>8. \A i \in 1..19 : (n \o proto)[1 + i] = proto[i]  BY <1>2, <1>4, <1>6
  <1> DEFINE w == n \o proto
  <1> HIDE DEF w
  <1>9. \A i \in 1..19 : w[1 + i] = proto[i]  BY <1>8 DEF w
  <1>10. Len(n \o proto) = 20  BY <1>2, <1>4, <1>6
  <1>11. w[2] = 66 /\ w[3] = 105 /\ w[4] = 116
    <2>1. w[1 + 1] = proto[1] /\ w[1 + 2] = proto[2] /\ w[1 + 3] = proto[3]  BY <1>9
    <2> QED  BY <1>1, <2>1
  <1> QED  BY <1>2, <1>6, <1>7, <1>10, <1>11 DEF n, w

LEMMA LookalikeIs ==
    /\ Lookalike = 19 * 16777216 + 66 * 65536 + 105 * 256 + 116
    /\ Lookalike \in Nat /\ Lookalike > 68 /\ Lookalike \div 16777216 = 19
  <1>1. Lookalike = 19 * 16777216 + 66 * 65536 + 105 * 256 + 116
    BY SMT, ProtoBegins DEF ntoh32, Lookalike
  <1> QED  BY SMT, <1>1

LEMMA HandshakeBegins ==
    ASSUME NEW s \in Seq(Nat), Len(s) >= 4
    PROVE  /\ IsHandshake(s) <=> /\ Len(s) >= 68
                                 /\ s[1] = 19 /\ s[2] = 66 /\ s[3] = 105 /\ s[4] = 116
           /\ IsHandshake(s) => ntoh32(s, 0) = Lookalike
  <1> DEFINE w == <<19>> \o proto
  <1>1. /\ w \in Seq(Octet) /\ Len(w) = 20
        /\ w[1] = 19 /\ w[2] = 66 /\ w[3] = 105 /\ w[4] = 116  BY ProtoBegins
  <1> HIDE DEF w
  <1>2. w \in Seq(Nat)  BY <1>1, OctetsAreNumbers
  <1>3. /\ Len(SubSeq(s, 1, 4)) = 4 /\ SubSeq(s, 1, 4) \in Seq(Nat)
        /\ \A i \in 1..4 : SubSeq(s, 1, 4)[i] = s[i]
        /\ Len(SubSeq(w, 1, 4)) = 4 /\ SubSeq(w, 1, 4) \in Seq(Nat)
        /\ \A i \in 1..4 : SubSeq(w, 1, 4)[i] = w[i]
    BY <1>1, <1>2, FirstFour
  <1>4. SubSeq(s, 1, 4) = SubSeq(w, 1, 4) <=> \A i \in 1..4 : s[i] = w[i]
    <2> DEFINE x == SubSeq(s, 1, 4)  y == SubSeq(w, 1, 4)
    <2>1. /\ x \in Seq(Nat) /\ y \in Seq(Nat) /\ Len(x) = 4 /\ Len(y) = 4
          /\ \A i \in 1..4 : x[i] = s[i] /\ y[i] = w[i]  BY <1>3
    <2> HIDE DEF x, y
    <2>2. (\A i \in 1..Len(x) : x[i] = y[i]) => x = y  BY <2>1, SameSequence
    <2>3. x = y <=> \A i \in 1..4 : s[i] = w[i]  BY <2>1, <2>2
    <2> QED  BY <2>3 DEF x, y
  <1>5. (\A i \in 1..4 : s[i] = w[i])
           <=> s[1] = 19 /\ s[2] = 66 /\ s[3] = 105 /\ s[4] = 116  BY <1>1
  <1>6. IsHandshake(s) <=> /\ Len(s) >= 68
                           /\ s[1] = 19 /\ s[2] = 66 /\ s[3] = 105 /\ s[4] = 116
    BY <1>4, <1>5 DEF IsHandshake, w
  <1>7. IsHandshake(s) => ntoh32(s, 0) = Lookalike
    <2> SUFFICES ASSUME IsHandshake(s) PROVE ntoh32(s, 0) = Lookalike  OBVIOUS
    <2>1. s[0 + 1] = 19 /\ s[0 + 2] = 66 /\ s[0 + 3] = 105 /\ s[0 + 4] = 116  BY <1>6
    <2> QED  BY SMT, <2>1, LookalikeIs DEF ntoh32
  <1> QED  BY <1>6, <1>7

LEMMA FrameBytes ==
    ASSUME NEW id \in 0..255, NEW p \in Seq(Nat), FrameLength(1 + Len(p))
    PROVE  LET w == Framed(id, p) IN
           /\ w \in Seq(Nat) /\ Len(w) = 5 + Len(p)
           /\ ntoh32(w, 0) = 1 + Len(p) /\ w[5] = id
           /\ \A i \in 1..Len(p) : w[5 + i] = p[i]
  <1> DEFINE h == hton32(1 + Len(p))
             k == <<id>>
             w == (h \o k) \o p
  <1>1. h \in Seq(Octet) /\ Len(h) = 4 /\ ntoh32(h, 0) = 1 + Len(p)
    BY FourBytes DEF FrameLength
  <1>2. h \in Seq(Nat)  BY <1>1, OctetsAreNumbers
  <1>3. k \in Seq(Nat) /\ Len(k) = 1 /\ k[1] = id  OBVIOUS
  <1>4. Framed(id, p) = w  BY DEF Framed
  <1> HIDE DEF h, k
  <1>5. k \in Seq(Nat)  BY <1>3
  <1> DEFINE x == h \o k
  <1>6. /\ x \in Seq(Nat) /\ Len(x) = Len(h) + Len(k)
        /\ \A i \in 1..Len(h) : x[i] = h[i]
        /\ \A i \in 1..Len(k) : x[Len(h) + i] = k[i]
    BY <1>2, <1>5, Joined
  <1> HIDE DEF x
  <1>7. x \in Seq(Nat)  BY <1>6
  <1>8. /\ x \o p \in Seq(Nat) /\ Len(x \o p) = Len(x) + Len(p)
        /\ \A i \in 1..Len(x) : (x \o p)[i] = x[i]
        /\ \A i \in 1..Len(p) : (x \o p)[Len(x) + i] = p[i]
    BY <1>7, Joined
  <1>9. w = x \o p  BY DEF x
  <1> HIDE DEF w
  <1>10. Len(x) = 5 /\ x[4 + 1] = id /\ \A i \in 1..4 : x[i] = h[i]
    BY <1>1, <1>3, <1>6
  <1>11. /\ w \in Seq(Nat) /\ Len(w) = Len(x) + Len(p)
         /\ \A i \in 1..Len(x) : w[i] = x[i]
         /\ \A i \in 1..Len(p) : w[Len(x) + i] = p[i]
    BY <1>8, <1>9
  <1>12. Len(w) = 5 + Len(p) /\ \A i \in 1..Len(p) : w[5 + i] = p[i]
    BY <1>10, <1>11
  <1>13. \A i \in 1..5 : w[i] = x[i]  BY <1>10, <1>11
  <1>14. w[5] = id  BY <1>10, <1>13
  <1>15. \A i \in 1..4 : w[i] = h[i]  BY <1>10, <1>13
  <1>16. ntoh32(w, 0) = ntoh32(h, 0)
    <2>1. w[0 + 1] = h[0 + 1] /\ w[0 + 2] = h[0 + 2] /\ w[0 + 3] = h[0 + 3]
          /\ w[0 + 4] = h[0 + 4]  BY <1>15
    <2> QED  BY <2>1 DEF ntoh32
  <1> QED  BY <1>1, <1>4, <1>11, <1>12, <1>14, <1>16

LEMMA CutFrame ==
    ASSUME NEW id \in 0..255, NEW p \in Seq(Nat), FrameLength(1 + Len(p)),
           NEW s \in Seq(Nat), Agrees(s, Framed(id, p))
    PROVE  CutAs(s, Framed(id, p), Parsed(id, p))
  <1> DEFINE w == Framed(id, p)
  <1>1. /\ w \in Seq(Nat) /\ Len(w) = 5 + Len(p)
        /\ ntoh32(w, 0) = 1 + Len(p) /\ w[5] = id
        /\ \A i \in 1..Len(p) : w[5 + i] = p[i]
    BY FrameBytes
  <1>2. CASE Len(s) < 4  BY <1>1, <1>2 DEF CutAs, Complete
  <1>3. CASE Len(s) >= 4
    <2> HIDE DEF w
    <2>1. \A i \in 1..4 : s[i] = w[i]
      <3>1. \A i \in 1..Len(s) : i <= Len(w) => s[i] = w[i]  BY DEF Agrees, w
      <3>2. Len(w) >= 4 /\ Len(w) \in Nat /\ Len(s) \in Nat  BY <1>1
      <3> QED  BY <1>3, <3>1, <3>2
    <2>2. ntoh32(s, 0) = ntoh32(w, 0)
      <3>1. s[0 + 1] = w[0 + 1] /\ s[0 + 2] = w[0 + 2] /\ s[0 + 3] = w[0 + 3]
            /\ s[0 + 4] = w[0 + 4]  BY <2>1
      <3> QED  BY <3>1 DEF ntoh32
    <2>3. ~IsHandshake(s)
      <3>1. 1 + Len(p) # Lookalike  BY DEF FrameLength
      <3> QED  BY <1>1, <1>3, <2>2, <3>1, HandshakeBegins
    <2>4. Size(s) = Len(w)  BY <1>1, <2>2, <2>3 DEF Size
    <2>5. ASSUME Len(s) >= Len(w) PROVE First(s) = Parsed(id, p)
      <3>1. \A i \in 1..Len(s) : i <= Len(w) => s[i] = w[i]  BY DEF Agrees, w
      <3>2. Len(p) \in Nat /\ Len(s) \in Nat /\ Len(w) = 5 + Len(p)  BY <1>1
      <3>3. ASSUME NEW i \in 1..Len(p) PROVE s[5 + i] = w[5 + i]
        <4>1. 5 + i \in 1..Len(s) /\ 5 + i <= Len(w)  BY <2>5, <3>2
        <4> QED  BY <3>1, <4>1
      <3>4. \A i \in 1..Len(p) : s[5 + i] = p[i]  BY <1>1, <3>3
      <3>5. s[5] = w[5]  BY <2>5, <3>1, <3>2
      <3>6. SubSeq(s, 6, Len(w)) = p
        <4> DEFINE x == SubSeq(s, 5 + 1, Len(w))
        <4>1. /\ x \in Seq(Nat) /\ Len(x) = Len(w) - 5
              /\ \A i \in 1..(Len(w) - 5) : x[i] = s[5 + i]
          BY <2>5, <3>2, Part
        <4> HIDE DEF x
        <4>2. Len(x) = Len(p) /\ \A i \in 1..Len(x) : x[i] = p[i]
          BY <3>2, <3>4, <4>1
        <4>3. x = p  BY <4>1, <4>2, SameSequence
        <4> QED  BY <4>3 DEF x
      <3>7. Size(s) # 4  BY <2>4, <3>2
      <3> QED  BY <1>1, <2>3, <2>4, <3>5, <3>6, <3>7 DEF First
    <2> QED  BY <1>3, <2>4, <2>5 DEF CutAs, Complete, w
  <1> QED  BY <1>2, <1>3

LEMMA Resized ==
    ASSUME NEW s \in Seq(Nat), NEW n \in Nat
    PROVE  /\ resize(s, n) \in Seq(Nat) /\ Len(resize(s, n)) = n
           /\ Len(s) = n => resize(s, n) = s
  <1> DEFINE x == resize(s, n)
  <1>1. x \in [1..n -> Nat] /\ \A i \in 1..n : x[i] = IF i <= Len(s) THEN s[i] ELSE 0
    BY DEF resize
  <1> HIDE DEF x
  <1>2. x \in Seq(Nat) /\ Len(x) = n  BY <1>1, FunctionIsSequence
  <1>3. ASSUME Len(s) = n PROVE x = s
    <2>1. \A i \in 1..Len(x) : x[i] = s[i]  BY <1>1, <1>2, <1>3
    <2> QED  BY <1>2, <1>3, <2>1, SameSequence
  <1> QED  BY <1>2, <1>3 DEF x

LEMMA HandshakeBytes ==
    ASSUME NEW m, m.data \in Seq(Octet), Len(m.data) = 20
    PROVE  LET w == HandshakeStr(m) IN
           /\ w \in Seq(Nat) /\ Len(w) = 68
           /\ w[1] = 19 /\ w[2] = 66 /\ w[3] = 105 /\ w[4] = 116
           /\ \A i \in 1..20 : w[28 + i] = m.data[i]
  <1> DEFINE a == <<19>> \o proto
             c == resize(<<>>, 8)
             d == resize(m.data, 20)
             e == resize(<<>>, 20)
             ac == a \o c
             acd == ac \o d
             w == acd \o e
  <1>1. HandshakeStr(m) = w
    <2>1. Len(proto) = 19  BY ProtoBegins
    <2> QED  BY <2>1 DEF HandshakeStr
  <1>2. a \in Seq(Octet) /\ Len(a) = 20
        /\ a[1] = 19 /\ a[2] = 66 /\ a[3] = 105 /\ a[4] = 116  BY ProtoBegins
  <1>3. <<>> \in Seq(Nat)  OBVIOUS
  <1>4. m.data \in Seq(Nat)  BY OctetsAreNumbers
  <1>5. c \in Seq(Nat) /\ Len(c) = 8  BY <1>3, Resized
  <1>6. d \in Seq(Nat) /\ Len(d) = 20 /\ d = m.data  BY <1>4, Resized
  <1>7. e \in Seq(Nat) /\ Len(e) = 20  BY <1>3, Resized
  <1> HIDE DEF a, c, d, e
  <1>8. a \in Seq(Nat)  BY <1>2, OctetsAreNumbers
  <1>9. c \in Seq(Nat) /\ d \in Seq(Nat) /\ e \in Seq(Nat)  BY <1>5, <1>6, <1>7
  <1>10. /\ ac \in Seq(Nat) /\ Len(ac) = Len(a) + Len(c)
         /\ \A i \in 1..Len(a) : ac[i] = a[i]  BY <1>8, <1>9, Joined
  <1> HIDE DEF ac
  <1>11. /\ acd \in Seq(Nat) /\ Len(acd) = Len(ac) + Len(d)
         /\ \A i \in 1..Len(ac) : acd[i] = ac[i]
         /\ \A i \in 1..Len(d) : acd[Len(ac) + i] = d[i]
    <2>1. ac \in Seq(Nat)  BY <1>10
    <2> QED  BY <1>9, <2>1, Joined
  <1> HIDE DEF acd
  <1>12. /\ w \in Seq(Nat) /\ Len(w) = Len(acd) + Len(e)
         /\ \A i \in 1..Len(acd) : w[i] = acd[i]
    <2>1. acd \in Seq(Nat)  BY <1>11
    <2> QED  BY <1>9, <2>1, Joined
  <1> HIDE DEF w
  <1>13. Len(ac) = 28 /\ Len(acd) = 48 /\ Len(w) = 68
    BY <1>2, <1>5, <1>6, <1>7, <1>10, <1>11, <1>12
  <1>14. \A i \in 1..4 : w[i] = a[i]
    <2> TAKE i \in 1..4
    <2>1. i \in 1..Len(a) /\ i \in 1..Len(ac) /\ i \in 1..Len(acd)  BY <1>2, <1>13
    <2> QED  BY <2>1, <1>10, <1>11, <1>12
  <1>15. \A i \in 1..20 : w[28 + i] = d[i]
    <2> TAKE i \in 1..20
    <2>1. i \in 1..Len(d) /\ 28 + i \in 1..Len(acd)  BY <1>6, <1>13
    <2>2. acd[28 + i] = d[i]  BY <2>1, <1>11, <1>13
    <2> QED  BY <2>1, <2>2, <1>12
  <1>16. w[1] = 19 /\ w[2] = 66 /\ w[3] = 105 /\ w[4] = 116  BY <1>2, <1>14
  <1> QED  BY <1>1, <1>6, <1>12, <1>13, <1>15, <1>16

LEMMA CutHandshake ==
    ASSUME NEW m, m.data \in Seq(Octet), Len(m.data) = 20,
           NEW s \in Seq(Nat), Agrees(s, HandshakeStr(m))
    PROVE  CutAs(s, HandshakeStr(m), Message("handshake", <<>>, m.data))
  <1> DEFINE w == HandshakeStr(m)
  <1>1. /\ w \in Seq(Nat) /\ Len(w) = 68
        /\ w[1] = 19 /\ w[2] = 66 /\ w[3] = 105 /\ w[4] = 116
        /\ \A i \in 1..20 : w[28 + i] = m.data[i]
    BY HandshakeBytes
  <1>2. \A i \in 1..Len(s) : i <= 68 => s[i] = w[i]  BY <1>1 DEF Agrees
  <1> HIDE DEF w
  <1>3. Len(s) \in Nat  OBVIOUS
  <1>4. CASE Len(s) < 4
    <2> DEFINE n == Len(s)
    <2>1. n \in Nat /\ n < 4  BY <1>4
    <2> HIDE DEF n
    <2>2. ~(n >= 4) /\ ~(n >= 68)  BY <2>1
    <2>3. ~(Len(s) >= 4) /\ ~(Len(s) >= Len(w))  BY <1>1, <2>2 DEF n
    <2> QED  BY <2>3 DEF CutAs, Complete, w
  <1>5. CASE Len(s) >= 4
    <2>1. \A i \in 1..4 : s[i] = w[i]  BY <1>2, <1>3, <1>5
    <2>2. s[1] = 19 /\ s[2] = 66 /\ s[3] = 105 /\ s[4] = 116  BY <1>1, <2>1
    <2>3. IsHandshake(s) <=> Len(s) >= 68  BY <1>5, <2>2, HandshakeBegins
    <2>4. CASE Len(s) >= 68
      <3>1. Size(s) = 68  BY <2>3, <2>4, ProtoBegins DEF Size
      <3>2. SubSeq(s, 29, 48) = m.data
        <4> DEFINE x == SubSeq(s, 28 + 1, 48)
        <4>1. /\ x \in Seq(Nat) /\ Len(x) = 48 - 28
              /\ \A i \in 1..(48 - 28) : x[i] = s[28 + i]
          <5>1. 28 \in Nat /\ 48 \in Nat /\ 28 <= 48 /\ 48 <= Len(s)  BY <1>3, <2>4
          <5>2. \A k, n \in Nat : k <= n /\ n <= Len(s) =>
                  /\ SubSeq(s, k + 1, n) \in Seq(Nat) /\ Len(SubSeq(s, k + 1, n)) = n - k
                  /\ \A i \in 1..(n - k) : SubSeq(s, k + 1, n)[i] = s[k + i]
            BY Part
          <5> QED  BY <5>1, <5>2
        <4> HIDE DEF x
        <4>2. \A i \in 1..20 : s[28 + i] = w[28 + i]
          <5> TAKE i \in 1..20
          <5>1. 28 + i \in 1..Len(s) /\ 28 + i <= 68  BY <1>3, <2>4
          <5> QED  BY <1>2, <5>1
        <4>3. 48 - 28 = 20  OBVIOUS
        <4>4. Len(x) = 20 /\ \A i \in 1..20 : x[i] = s[28 + i]  BY <4>1, <4>3
        <4>5. \A i \in 1..20 : x[i] = m.data[i]
          <5>1. \A i \in 1..20 : w[28 + i] = m.data[i]  BY <1>1
          <5> QED  BY <4>2, <4>4, <5>1
        <4>6. m.data \in Seq(Nat)  BY OctetsAreNumbers
        <4>7. x \in Seq(Nat) /\ Len(x) = Len(m.data)  BY <4>1, <4>4
        <4>8. \A i \in 1..Len(x) : x[i] = m.data[i]  BY <4>4, <4>5
        <4>9. x = m.data  BY <4>6, <4>7, <4>8, SameSequence
        <4>10. 28 + 1 = 29  OBVIOUS
        <4> QED  BY <4>9, <4>10 DEF x
      <3>3. First(s) = Message("handshake", <<>>, m.data)
        BY <2>3, <2>4, <3>2 DEF First
      <3> QED  BY <1>1, <1>5, <2>4, <3>1, <3>3 DEF CutAs, Complete, w
    <2>5. CASE ~(Len(s) >= 68)
      <3>1. ~IsHandshake(s)  BY <2>3, <2>5
      <3>2. ntoh32(s, 0) = Lookalike
        <4>1. s[0 + 1] = 19 /\ s[0 + 2] = 66 /\ s[0 + 3] = 105 /\ s[0 + 4] = 116  BY <2>2
        <4> QED  BY SMT, <4>1, LookalikeIs DEF ntoh32
      <3>3. Size(s) = Lookalike + 4  BY <3>1, <3>2 DEF Size
      <3>4. ~(Len(s) >= Size(s))  BY <1>3, <2>5, <3>3, LookalikeIs
      <3> QED  BY <1>1, <2>5, <3>4 DEF CutAs, Complete, w
    <2> QED  BY <2>4, <2>5
  <1> QED  BY <1>3, <1>4, <1>5

----------------------------------------------------------------------------
(* Each kind of message.                                                   *)

LEMMA FewElements ==
    ASSUME NEW S, NEW s \in Seq(S)
    PROVE  /\ Len(s) = 0 => s = <<>>
           /\ Len(s) = 1 => s = <<s[1]>>
           /\ Len(s) = 2 => s = <<s[1], s[2]>>
           /\ Len(s) = 3 => s = <<s[1], s[2], s[3]>>
  OBVIOUS

\* No two identifiers have the same name.
LEMMA TypeNames ==
    /\ Len(Types) = 10
    /\ Types[1] = "choke" /\ Types[2] = "unchoke" /\ Types[3] = "interested"
    /\ Types[4] = "notinterested" /\ Types[5] = "have" /\ Types[6] = "bitfield"
    /\ Types[7] = "request" /\ Types[8] = "piece" /\ Types[9] = "cancel"
    /\ Types[10] = "port"
  BY DEF Types

LEMMA TypeOfId ==
    ASSUME NEW k \in 1..10, NEW t, t = Types[k]
    PROVE  (CHOOSE j \in 1..10 : Types[j] = t) = k
  <1>1. ASSUME NEW j \in 1..10, Types[j] = Types[k] PROVE j = k
    BY <1>1, TypeNames
  <1> QED  BY <1>1

LEMMA StrFrames ==
    ASSUME NEW k \in 1..10, NEW m, m.type = Types[k]
    PROVE  Str(m) = Framed(k - 1, Payload(m))
  <1>1. Types[k] # "handshake" /\ Types[k] # "keepalive"  BY TypeNames
  <1>2. (CHOOSE j \in 1..10 : Types[j] = m.type) = k  BY TypeOfId
  <1> QED  BY <1>1, <1>2 DEF Str

LEMMA CutKeepalive ==
    ASSUME NEW s \in Seq(Nat), Agrees(s, hton32(0))
    PROVE  /\ hton32(0) \in Seq(Nat) /\ Len(hton32(0)) = 4
           /\ CutAs(s, hton32(0), Message("keepalive", <<>>, <<>>))
  <1> DEFINE w == hton32(0)
  <1>1. w \in Seq(Octet) /\ Len(w) = 4 /\ ntoh32(w, 0) = 0
    <2>1. Uint32(0)  BY SMT DEF Uint32
    <2> QED  BY <2>1, FourBytes
  <1>2. w \in Seq(Nat)  BY <1>1, OctetsAreNumbers
  <1>3. Len(s) \in Nat  OBVIOUS
  <1>4. \A i \in 1..Len(s) : i <= 4 => s[i] = w[i]  BY <1>1 DEF Agrees
  <1> HIDE DEF w
  <1>5. ASSUME Len(s) >= 4
        PROVE  ~IsHandshake(s) /\ Size(s) = 4 /\ First(s) = Message("keepalive", <<>>, <<>>)
    <2>1. s[0 + 1] = w[0 + 1] /\ s[0 + 2] = w[0 + 2] /\ s[0 + 3] = w[0 + 3]
          /\ s[0 + 4] = w[0 + 4]
      <3>1. \A i \in 1..4 : s[i] = w[i]  BY <1>3, <1>4, <1>5
      <3> QED  BY <3>1
    <2>2. ntoh32(s, 0) = ntoh32(w, 0)  BY <2>1 DEF ntoh32
    <2>3. ~IsHandshake(s)
      <3>1. Lookalike # 0  BY LookalikeIs
      <3> QED  BY <1>1, <1>5, <2>2, <3>1, HandshakeBegins
    <2>4. Size(s) = 4  BY <1>1, <2>2, <2>3 DEF Size
    <2> QED  BY <2>3, <2>4 DEF First
  <1>6. CutAs(s, w, Message("keepalive", <<>>, <<>>))
    BY <1>1, <1>5 DEF CutAs, Complete
  <1> QED  BY <1>1, <1>2, <1>6 DEF w

\* A number is read from where it was written.
LEMMA ReadAt ==
    ASSUME NEW n, Uint32(n), NEW w, NEW o \in Nat,
           \A i \in 1..4 : w[o + i] = hton32(n)[i]
    PROVE  ntoh32(w, o) = n
  <1> DEFINE h == hton32(n)
  <1>1. ntoh32(h, 0) = n  BY FourBytes
  <1> HIDE DEF h
  <1>2. \A i \in 1..4 : w[o + i] = h[i]  BY DEF h
  <1>3. w[o + 1] = h[1] /\ w[o + 2] = h[2] /\ w[o + 3] = h[3] /\ w[o + 4] = h[4]
    BY <1>2
  <1>4. 0 + 1 = 1 /\ 0 + 2 = 2 /\ 0 + 3 = 3 /\ 0 + 4 = 4  OBVIOUS
  <1> QED  BY <1>1, <1>3, <1>4 DEF ntoh32

Numbers(x, y, d) == hton32(x) \o hton32(y) \o d

LEMMA TwoNumbers ==
    ASSUME NEW x, Uint32(x), NEW y, Uint32(y), NEW d \in Seq(Nat)
    PROVE  /\ Numbers(x, y, d) \in Seq(Nat) /\ Len(Numbers(x, y, d)) = 8 + Len(d)
           /\ ntoh32(Numbers(x, y, d), 0) = x /\ ntoh32(Numbers(x, y, d), 4) = y
           /\ \A i \in 1..Len(d) : Numbers(x, y, d)[8 + i] = d[i]
           /\ SubSeq(Numbers(x, y, d), 9, Len(Numbers(x, y, d))) = d
  <1> DEFINE a == hton32(x)
             c == hton32(y)
             ac == a \o c
             w == ac \o d
  <1>1. a \in Seq(Octet) /\ Len(a) = 4 /\ c \in Seq(Octet) /\ Len(c) = 4  BY FourBytes
  <1>2. a \in Seq(Nat) /\ c \in Seq(Nat)  BY <1>1, OctetsAreNumbers
  <1>3. Len(a) = 4 /\ Len(c) = 4  BY <1>1
  <1> HIDE DEF a, c
  <1>4. /\ ac \in Seq(Nat) /\ Len(ac) = Len(a) + Len(c)
        /\ \A i \in 1..Len(a) : ac[i] = a[i]
        /\ \A i \in 1..Len(c) : ac[Len(a) + i] = c[i]
    BY <1>2, Joined
  <1> HIDE DEF ac
  <1>5. Len(ac) = 8  BY <1>3, <1>4
  <1>6. /\ w \in Seq(Nat) /\ Len(w) = Len(ac) + Len(d)
        /\ \A i \in 1..Len(ac) : w[i] = ac[i]
        /\ \A i \in 1..Len(d) : w[Len(ac) + i] = d[i]
    <2>1. ac \in Seq(Nat)  BY <1>4
    <2> QED  BY <2>1, Joined
  <1>0. Numbers(x, y, d) = w  BY DEF Numbers, a, c, ac
  <1> HIDE DEF w
  <1>7. Len(w) = 8 + Len(d) /\ \A i \in 1..Len(d) : w[8 + i] = d[i]  BY <1>5, <1>6
  <1>8. ntoh32(w, 0) = x
    <2>1. ASSUME NEW i \in 1..4 PROVE w[0 + i] = a[i]
      <3>1. 0 + i = i /\ i \in 1..Len(a) /\ i \in 1..Len(ac)  BY <1>3, <1>5
      <3> QED  BY <3>1, <1>4, <1>6
    <2> QED  BY <2>1, ReadAt DEF a
  <1>9. ntoh32(w, 4) = y
    <2>1. ASSUME NEW i \in 1..4 PROVE w[4 + i] = c[i]
      <3>1. 4 + i \in 1..Len(ac) /\ i \in 1..Len(c) /\ Len(a) + i = 4 + i  BY <1>3, <1>5
      <3>2. ac[4 + i] = c[i]  BY <3>1, <1>4
      <3> QED  BY <3>1, <3>2, <1>6
    <2> QED  BY <2>1, ReadAt DEF c
  <1>10. SubSeq(w, 9, Len(w)) = d
    <2> DEFINE z == SubSeq(w, 8 + 1, Len(w))
    <2>1. Len(w) \in Nat /\ 8 \in Nat /\ 8 <= Len(w) /\ Len(w) - 8 = Len(d)  BY <1>7
    <2>2. /\ z \in Seq(Nat) /\ Len(z) = Len(w) - 8
          /\ \A i \in 1..(Len(w) - 8) : z[i] = w[8 + i]
      <3>1. w \in Seq(Nat)  BY <1>6
      <3>2. 8 \in Nat /\ 8 <= Len(w)  BY <2>1
      <3> QED  BY <3>1, <3>2, Suffix
    <2> HIDE DEF z
    <2>3. Len(z) = Len(d) /\ \A i \in 1..Len(z) : z[i] = d[i]  BY <1>7, <2>1, <2>2
    <2>4. z = d  BY <2>2, <2>3, SameSequence
    <2>5. 8 + 1 = 9  OBVIOUS
    <2> QED  BY <2>4, <2>5 DEF z
  <1> QED  BY <1>0, <1>6, <1>7, <1>8, <1>9, <1>10

\* What unpack() makes of a frame that Payload() wrote for this message.
LEMMA ParsedFrame ==
    ASSUME NEW k \in 1..10, NEW m, m.type = Types[k], Speakable(m)
    PROVE  Payload(m) \in Seq(Nat) /\ Parsed(k - 1, Payload(m)) = m
  <1> DEFINE p == Payload(m)
             nums == m.nums
             data == m.data
  <1>1. /\ m = Message(m.type, nums, data)
        /\ nums \in Seq(Nat) /\ data \in Seq(Octet)
        /\ \A i \in 1..Len(nums) : Uint32(nums[i])
    BY DEF Speakable
  <1>2. data \in Seq(Nat)  BY <1>1, OctetsAreNumbers
  <1>3. k - 1 \in 0..9 /\ ~(k - 1 >= Len(Types)) /\ (k - 1) + 1 = k  BY TypeNames
  <1>4. Parsed(k - 1, p) =
          IF ~Fitting(m.type, Len(p)) THEN Message("unknown", <<k - 1>>, <<>>)
          ELSE CASE m.type = "have" -> Message(m.type, <<ntoh32(p, 0)>>, <<>>)
                 [] m.type \in {"request", "cancel"} ->
                       Message(m.type, <<ntoh32(p, 0), ntoh32(p, 4), ntoh32(p, 8)>>, <<>>)
                 [] m.type = "piece" ->
                       Message(m.type, <<ntoh32(p, 0), ntoh32(p, 4)>>, SubSeq(p, 9, Len(p)))
                 [] m.type = "port" -> Message(m.type, <<ntoh16(p, 0)>>, <<>>)
                 [] m.type = "bitfield" -> Message(m.type, <<>>, p)
                 [] OTHER -> Message(m.type, <<>>, <<>>)
    <2> HIDE DEF p
    <2> QED  BY <1>3 DEF Parsed
  <1>5. CASE m.type \in {"choke", "unchoke", "interested", "notinterested"}
    <2>1. nums = <<>> /\ data = <<>>  BY <1>1, <1>5, FewElements DEF Speakable
    <2>2. p = data  BY <1>5 DEF Payload
    <2>3. Fitting(m.type, Len(p))  BY <1>5 DEF Fitting
    <2>4. Parsed(k - 1, p) = Message(m.type, <<>>, <<>>)
      <3> HIDE DEF p
      <3> QED  BY <1>4, <1>5, <2>3
    <2> QED  BY <1>1, <1>2, <2>1, <2>2, <2>4
  <1>6. CASE m.type = "have"
    <2>1. Len(nums) = 1 /\ Len(data) = 0  BY <1>6 DEF Speakable
    <2>2. nums = <<nums[1]>> /\ data = <<>> /\ Uint32(nums[1])
      BY <1>1, <2>1, FewElements
    <2>3. p = hton32(nums[1])  BY <1>6 DEF Payload
    <2>4. p \in Seq(Octet) /\ Len(p) = 4 /\ ntoh32(p, 0) = nums[1]  BY <2>2, <2>3, FourBytes
    <2> HIDE DEF p
    <2>5. Fitting(m.type, Len(p))  BY <1>6, <2>4 DEF Fitting
    <2>6. Parsed(k - 1, p) = Message(m.type, <<nums[1]>>, <<>>)  BY <1>4, <1>6, <2>4, <2>5
    <2>7. p \in Seq(Nat)  BY <2>4, OctetsAreNumbers
    <2> QED  BY <1>1, <2>2, <2>6, <2>7 DEF p
  <1>7. CASE m.type = "bitfield"
    <2>1. nums = <<>>  BY <1>1, <1>7, FewElements DEF Speakable
    <2>2. p = data  BY <1>7 DEF Payload
    <2> HIDE DEF p
    <2>3. Fitting(m.type, Len(p))  BY <1>7 DEF Fitting
    <2>4. Parsed(k - 1, p) = Message(m.type, <<>>, p)  BY <1>4, <1>7, <2>3
    <2> QED  BY <1>1, <1>2, <2>1, <2>2, <2>4 DEF p
  <1>8. CASE m.type \in {"request", "cancel"}
    <2>1. Len(nums) = 3 /\ Len(data) = 0  BY <1>8 DEF Speakable
    <2>2. /\ nums = <<nums[1], nums[2], nums[3]>> /\ data = <<>>
          /\ Uint32(nums[1]) /\ Uint32(nums[2]) /\ Uint32(nums[3])
      BY <1>1, <2>1, FewElements
    <2> DEFINE z == hton32(nums[3])
    <2>3. p = Numbers(nums[1], nums[2], z)  BY <1>8 DEF Payload, Numbers
    <2>4. z \in Seq(Octet) /\ Len(z) = 4  BY <2>2, FourBytes
    <2>5. z \in Seq(Nat)  BY <2>4, OctetsAreNumbers
    <2> HIDE DEF p, z
    <2>6. /\ p \in Seq(Nat) /\ Len(p) = 8 + Len(z)
          /\ ntoh32(p, 0) = nums[1] /\ ntoh32(p, 4) = nums[2]
          /\ \A i \in 1..Len(z) : p[8 + i] = z[i]
      <3> DEFINE x == nums[1]  y == nums[2]
      <3>1. Uint32(x) /\ Uint32(y) /\ z \in Seq(Nat) /\ p = Numbers(x, y, z)
        BY <2>2, <2>3, <2>5
      <3> HIDE DEF x, y
      <3>2. /\ p \in Seq(Nat) /\ Len(p) = 8 + Len(z)
            /\ ntoh32(p, 0) = x /\ ntoh32(p, 4) = y
            /\ \A i \in 1..Len(z) : p[8 + i] = z[i]
        <4>1. p \in Seq(Nat)  BY <3>1, TwoNumbers
        <4>2. Len(p) = 8 + Len(z)  BY <3>1, TwoNumbers
        <4>3. ntoh32(p, 0) = x  BY <3>1, TwoNumbers
        <4>4. ntoh32(p, 4) = y  BY <3>1, TwoNumbers
        <4>5. \A i \in 1..Len(z) : p[8 + i] = z[i]  BY <3>1, TwoNumbers
        <4> QED  BY <4>1, <4>2, <4>3, <4>4, <4>5
      <3> QED  BY <3>2 DEF x, y
    <2>7. Len(p) = 12  BY <2>4, <2>6
    <2>8. ntoh32(p, 8) = nums[3]
      <3>1. \A i \in 1..4 : p[8 + i] = hton32(nums[3])[i]  BY <2>4, <2>6 DEF z
      <3> QED  BY <2>2, <3>1, ReadAt
    <2>9. Fitting(m.type, Len(p))  BY <1>8, <2>7 DEF Fitting
    <2>10. Parsed(k - 1, p) = Message(m.type, <<nums[1], nums[2], nums[3]>>, <<>>)
      BY <1>4, <1>8, <2>6, <2>8, <2>9
    <2> QED  BY <1>1, <2>2, <2>6, <2>10 DEF p
  <1>9. CASE m.type = "piece"
    <2>1. Len(nums) = 2  BY <1>9 DEF Speakable
    <2>2. nums = <<nums[1], nums[2]>> /\ Uint32(nums[1]) /\ Uint32(nums[2])
      BY <1>1, <2>1, FewElements
    <2>3. p = Numbers(nums[1], nums[2], data)  BY <1>9 DEF Payload, Numbers
    <2> HIDE DEF p
    <2>4. /\ p \in Seq(Nat) /\ Len(p) = 8 + Len(data)
          /\ ntoh32(p, 0) = nums[1] /\ ntoh32(p, 4) = nums[2]
          /\ SubSeq(p, 9, Len(p)) = data
      <3> DEFINE x == nums[1]  y == nums[2]
      <3>1. Uint32(x) /\ Uint32(y) /\ data \in Seq(Nat) /\ p = Numbers(x, y, data)
        BY <2>2, <1>2, <2>3
      <3> HIDE DEF x, y
      <3>2. /\ p \in Seq(Nat) /\ Len(p) = 8 + Len(data)
            /\ ntoh32(p, 0) = x /\ ntoh32(p, 4) = y
            /\ SubSeq(p, 9, Len(p)) = data
        <4>1. p \in Seq(Nat)  BY <3>1, TwoNumbers
        <4>2. Len(p) = 8 + Len(data)  BY <3>1, TwoNumbers
        <4>3. ntoh32(p, 0) = x  BY <3>1, TwoNumbers
        <4>4. ntoh32(p, 4) = y  BY <3>1, TwoNumbers
        <4>5. SubSeq(p, 9, Len(p)) = data  BY <3>1, TwoNumbers
        <4> QED  BY <4>1, <4>2, <4>3, <4>4, <4>5
      <3> QED  BY <3>2 DEF x, y
    <2>5. Len(p) >= 8  BY <1>2, <2>4
    <2>6. Fitting(m.type, Len(p))  BY <1>9, <2>5 DEF Fitting
    <2>7. Parsed(k - 1, p) = Message(m.type, <<nums[1], nums[2]>>, data)
      BY <1>4, <1>9, <2>4, <2>6
    <2> QED  BY <1>1, <2>2, <2>4, <2>7 DEF p
  <1>10. CASE m.type = "port"
    <2>1. Len(nums) = 1 /\ Len(data) = 0 /\ nums[1] < 65536  BY <1>10 DEF Speakable
    <2>2. nums = <<nums[1]>> /\ data = <<>> /\ nums[1] \in Nat
      BY <1>1, <2>1, FewElements
    <2>3. p = hton16(nums[1])  BY <1>10 DEF Payload
    <2>4. p \in Seq(Octet) /\ Len(p) = 2 /\ ntoh16(p, 0) = nums[1]
      BY <2>1, <2>2, <2>3, TwoBytes
    <2> HIDE DEF p
    <2>5. Fitting(m.type, Len(p))  BY <1>10, <2>4 DEF Fitting
    <2>6. Parsed(k - 1, p) = Message(m.type, <<nums[1]>>, <<>>)  BY <1>4, <1>10, <2>4, <2>5
    <2>7. p \in Seq(Nat)  BY <2>4, OctetsAreNumbers
    <2> QED  BY <1>1, <2>2, <2>6, <2>7 DEF p
  <1>11. m.type \in {"choke", "unchoke", "interested", "notinterested", "have", "bitfield",
                     "request", "piece", "cancel", "port"}
    BY TypeNames
  <1> QED  BY <1>5, <1>6, <1>7, <1>8, <1>9, <1>10, <1>11

\* A message has the bytes it was sent as, however many of them have come: it
\* is complete when the last one has, and is then read as what was said.
LEMMA CutMessage ==
    ASSUME NEW m, Speakable(m), NEW s \in Seq(Nat), Agrees(s, Sent(m))
    PROVE  /\ Sent(m) \in Seq(Nat) /\ Len(Sent(m)) >= 4
           /\ CutAs(s, Sent(m), Understood(m))
  <1>1. /\ m = Message(m.type, m.nums, m.data)
        /\ m.nums \in Seq(Nat) /\ m.data \in Seq(Octet)
        /\ FrameLength(1 + Len(IF m.type = "unknown" THEN m.data ELSE Payload(m)))
    BY DEF Speakable
  <1>2. m.data \in Seq(Nat)  BY <1>1, OctetsAreNumbers
  <1>3. CASE m.type = "handshake"
    <2>1. Len(m.nums) = 0 /\ Len(m.data) = 20  BY <1>3 DEF Speakable
    <2>2. m.nums = <<>>  BY <1>1, <2>1, FewElements
    <2>3. Sent(m) = HandshakeStr(m)  BY <1>3 DEF Sent, Str
    <2>4. Understood(m) = Message("handshake", <<>>, m.data)
      BY <1>1, <1>3, <2>2 DEF Understood
    <2>5. Sent(m) \in Seq(Nat) /\ Len(Sent(m)) = 68
      BY <1>1, <2>1, <2>3, HandshakeBytes
    <2>6. CutAs(s, Sent(m), Understood(m))
      BY <1>1, <2>1, <2>3, <2>4, CutHandshake
    <2>7. Len(Sent(m)) >= 4  BY <2>5
    <2> QED  BY <2>5, <2>6, <2>7
  <1>4. CASE m.type = "keepalive"
    <2>1. Len(m.nums) = 0 /\ Len(m.data) = 0  BY <1>4 DEF Speakable
    <2>2. m.nums = <<>> /\ m.data = <<>>  BY <1>1, <2>1, FewElements
    <2>3. Sent(m) = hton32(0)  BY <1>4 DEF Sent, Str
    <2>4. Understood(m) = Message("keepalive", <<>>, <<>>)
      BY <1>1, <1>4, <2>2 DEF Understood
    <2>5. Sent(m) \in Seq(Nat) /\ Len(Sent(m)) = 4 /\ CutAs(s, Sent(m), Understood(m))
      BY <2>3, <2>4, CutKeepalive
    <2>6. Len(Sent(m)) >= 4  BY <2>5
    <2> QED  BY <2>5, <2>6
  <1>5. CASE m.type = "unknown"
    <2> DEFINE id == m.nums[1]
    <2>1. Len(m.nums) = 1 /\ id < 256
          /\ (id >= Len(Types) \/ ~Fitting(Types[id + 1], Len(m.data)))
      BY <1>5 DEF Speakable
    <2>2. m.nums = <<id>> /\ id \in 0..255
      <3>1. Len(m.nums) = 1  BY <2>1
      <3>2. m.nums = <<m.nums[1]>>  BY <1>1, <3>1, FewElements
      <3>3. m.nums[1] \in Nat  BY <1>1, <3>1
      <3>4. id < 256 /\ id \in Nat  BY <2>1, <3>3
      <3>5. m.nums = <<id>>  BY <3>2
      <3> HIDE DEF id
      <3>6. id \in 0..255  BY <3>4
      <3> QED  BY <3>5, <3>6
    <2>3. Sent(m) = Framed(id, m.data)  BY <1>5 DEF Sent
    <2>4. FrameLength(1 + Len(m.data))  BY <1>1, <1>5
    <2> HIDE DEF id
    <2>5. Parsed(id, m.data) = Message("unknown", <<id>>, <<>>)  BY <2>1 DEF Parsed
    <2>6. Understood(m) = Message("unknown", <<id>>, <<>>)
      BY <1>1, <1>5, <2>2 DEF Understood, Message
    <2>7. Sent(m) \in Seq(Nat) /\ Len(Sent(m)) = 5 + Len(m.data)
      <3>1. id \in 0..255 /\ m.data \in Seq(Nat)  BY <1>2, <2>2
      <3>2. Framed(id, m.data) \in Seq(Nat)  BY <2>4, <3>1, FrameBytes
      <3>3. Len(Framed(id, m.data)) = 5 + Len(m.data)  BY <2>4, <3>1, FrameBytes
      <3> QED  BY <2>3, <3>2, <3>3
    <2>8. CutAs(s, Sent(m), Parsed(id, m.data))
      BY <1>2, <2>2, <2>3, <2>4, CutFrame
    <2>9. Len(Sent(m)) >= 4  BY <1>2, <2>7
    <2> QED  BY <2>5, <2>6, <2>7, <2>8, <2>9
  <1>6. CASE m.type \notin {"handshake", "keepalive", "unknown"}
    <2>1. PICK k \in 1..10 : m.type = Types[k]
      BY <1>6, TypeNames DEF Speakable
    <2> DEFINE p == Payload(m)
    <2>2. p \in Seq(Nat) /\ Parsed(k - 1, p) = m  BY <2>1, ParsedFrame
    <2>3. Sent(m) = Framed(k - 1, p)  BY <1>6, <2>1, StrFrames DEF Sent
    <2>4. FrameLength(1 + Len(p))  BY <1>1, <1>6
    <2>5. Understood(m) = m  BY <1>6 DEF Understood
    <2>6. k - 1 \in 0..255  OBVIOUS
    <2> HIDE DEF p
    <2>7. Sent(m) \in Seq(Nat) /\ Len(Sent(m)) = 5 + Len(p)
      <3>1. k - 1 \in 0..255 /\ p \in Seq(Nat)  BY <2>2, <2>6
      <3>2. Framed(k - 1, p) \in Seq(Nat)  BY <2>4, <3>1, FrameBytes
      <3>3. Len(Framed(k - 1, p)) = 5 + Len(p)  BY <2>4, <3>1, FrameBytes
      <3> QED  BY <2>3, <3>2, <3>3
    <2>8. CutAs(s, Sent(m), Parsed(k - 1, p))
      BY <2>2, <2>3, <2>4, <2>6, CutFrame
    <2>9. Len(Sent(m)) >= 4  BY <2>2, <2>7
    <2> QED  BY <2>2, <2>5, <2>7, <2>8, <2>9
  <1> QED  BY <1>3, <1>4, <1>5, <1>6

----------------------------------------------------------------------------
(* unpack().  Its recursive function exists: a turn only asks for the      *)
(* places behind its own.                                                  *)

Left(s, n) == SubSeq(s, n + 1, Len(s))

Turn(s, from, n) ==
    IF ~Complete(Left(s, n)) THEN [msgs |-> <<>>, rest |-> Left(s, n)]
    ELSE [from[n + Size(Left(s, n))] EXCEPT !.msgs = <<First(Left(s, n))>> \o @]

LEMMA LeftIs ==
    ASSUME NEW s \in Seq(Nat), NEW n \in 0..Len(s)
    PROVE  /\ Left(s, n) \in Seq(Nat) /\ Len(Left(s, n)) = Len(s) - n
           /\ \A i \in 1..(Len(s) - n) : Left(s, n)[i] = s[n + i]
  <1>1. n \in Nat /\ n <= Len(s)  OBVIOUS
  <1> QED  BY <1>1, Suffix DEF Left

LEMMA SizeIsPositive ==
    ASSUME NEW s \in Seq(Nat), Complete(s)
    PROVE  Size(s) \in Nat /\ Size(s) >= 1 /\ Size(s) <= Len(s)
  <1>1. Len(s) \in Nat /\ Len(s) >= 4 /\ Len(s) >= Size(s)  BY DEF Complete
  <1>2. CASE IsHandshake(s)
    <2>1. Size(s) = 68  BY <1>2, ProtoBegins DEF Size
    <2> QED  BY <1>1, <2>1
  <1>3. CASE ~IsHandshake(s)
    <2>1. s[0 + 1] \in Nat /\ s[0 + 2] \in Nat /\ s[0 + 3] \in Nat /\ s[0 + 4] \in Nat
      BY <1>1
    <2>2. ntoh32(s, 0) \in Nat
      <3> DEFINE a == s[0 + 1]  c == s[0 + 2]  d == s[0 + 3]  e == s[0 + 4]
      <3>1. a \in Nat /\ c \in Nat /\ d \in Nat /\ e \in Nat  BY <2>1
      <3>2. ntoh32(s, 0) = a * 16777216 + c * 65536 + d * 256 + e  BY DEF ntoh32
      <3> HIDE DEF a, c, d, e
      <3>3. a * 16777216 + c * 65536 + d * 256 + e \in Nat  BY SMT, <3>1
      <3> QED  BY SMT, <3>2, <3>3
    <2>3. Size(s) = ntoh32(s, 0) + 4  BY <1>3 DEF Size
    <2> QED  BY <1>1, <2>2, <2>3
  <1> QED  BY <1>2, <1>3

LEMMA TurnGoesOn ==
    ASSUME NEW s \in Seq(Nat), NEW n \in 0..Len(s), Complete(Left(s, n))
    PROVE  n + Size(Left(s, n)) \in (n + 1)..Len(s)
  <1> DEFINE l == Left(s, n)
  <1>1. l \in Seq(Nat) /\ Len(l) = Len(s) - n  BY LeftIs
  <1>2. Len(s) \in Nat  OBVIOUS
  <1> HIDE DEF l
  <1>3. Size(l) \in Nat /\ Size(l) >= 1 /\ Size(l) <= Len(l)
    BY <1>1, SizeIsPositive DEF l
  <1>4. n + Size(l) \in (n + 1)..Len(s)  BY <1>1, <1>2, <1>3
  <1> QED  BY <1>4 DEF l

\* The function from some place on.
TurnsFrom(s, f, lo) == f = [n \in lo..Len(s) |-> Turn(s, f, n)]

LEMMA TurnsExist ==
    ASSUME NEW s \in Seq(Nat)
    PROVE  \E f : TurnsFrom(s, f, 0)
  <1> DEFINE L == Len(s)
             Far == {a \in Nat : a <= L => \E f : TurnsFrom(s, f, L - a)}
  <1>1. L \in Nat  OBVIOUS
  <1> HIDE DEF L
  <1>2. 0 \in Far
    <2> DEFINE f == [n \in L..L |-> [msgs |-> <<>>, rest |-> Left(s, n)]]
    <2>1. Len(Left(s, L)) = L - L  BY <1>1, LeftIs DEF L
    <2>2. ~Complete(Left(s, L))  BY <1>1, <2>1 DEF Complete
    <2>3. \A n \in L..L : f[n] = Turn(s, f, n)  BY <1>1, <2>2 DEF Turn
    <2>4. f = [n \in L..L |-> f[n]]  OBVIOUS
    <2> HIDE DEF f
    <2>5. f = [n \in L..L |-> Turn(s, f, n)]  BY <2>3, <2>4
    <2>6. L - 0 = L  BY <1>1
    <2> QED  BY <2>5, <2>6 DEF TurnsFrom, L
  <1>3. ASSUME NEW a \in Nat, a \in Far PROVE a + 1 \in Far
    <2> SUFFICES ASSUME a + 1 <= L PROVE \E g : TurnsFrom(s, g, L - (a + 1))
      OBVIOUS
    <2>1. PICK f : TurnsFrom(s, f, L - a)  BY <1>1, <1>3
    <2> DEFINE lo == L - (a + 1)
               g == [n \in lo..L |-> IF n = lo THEN Turn(s, f, n) ELSE f[n]]
    <2>2. lo \in Nat /\ L - a = lo + 1 /\ lo <= L  BY <1>1
    <2> HIDE DEF lo
    <2>3. \A n \in (lo + 1)..L : f[n] = Turn(s, f, n)
      BY <2>1, <2>2 DEF TurnsFrom, L
    <2>4. \A n \in (lo + 1)..L : g[n] = f[n]  BY <1>1, <2>2
    <2>5. \A n \in lo..L : Turn(s, g, n) = Turn(s, f, n)
      <3> TAKE n \in lo..L
      <3>1. n \in 0..Len(s)  BY <1>1, <2>2 DEF L
      <3>2. CASE ~Complete(Left(s, n))  BY <3>2 DEF Turn
      <3>3. CASE Complete(Left(s, n))
        <4> DEFINE k == n + Size(Left(s, n))
        <4>1. k \in (n + 1)..L  BY <3>1, <3>3, TurnGoesOn DEF L
        <4> HIDE DEF k
        <4>2. k \in (lo + 1)..L  BY <1>1, <2>2, <4>1
        <4>3. g[k] = f[k]  BY <2>4, <4>2
        <4> HIDE DEF g
        <4> QED  BY <3>3, <4>3 DEF Turn, k
      <3> QED  BY <3>2, <3>3
    <2>6. \A n \in lo..L : g[n] = Turn(s, f, n)
      <3> TAKE n \in lo..L
      <3>1. CASE n = lo  BY <3>1
      <3>2. CASE n # lo
        <4>1. n \in (lo + 1)..L  BY <1>1, <2>2, <3>2
        <4> HIDE DEF g
        <4> QED  BY <2>3, <2>4, <4>1
      <3> QED  BY <3>1, <3>2
    <2>7. g = [n \in lo..L |-> g[n]]  OBVIOUS
    <2> HIDE DEF g
    <2>8. g = [n \in lo..L |-> Turn(s, g, n)]  BY <2>5, <2>6, <2>7
    <2> QED  BY <2>8 DEF TurnsFrom, L, lo
  <1>4. L \in Far
    <2> HIDE DEF Far
    <2> QED  BY <1>1, <1>2, <1>3, AllNaturals
  <1>5. L <= L /\ L - L = 0  BY <1>1
  <1> QED  BY <1>4, <1>5

LEMMA UnpackTurns ==
    ASSUME NEW s \in Seq(Nat)
    PROVE  \E from : /\ unpack(s) = from[0]
                     /\ \A n \in 0..Len(s) : from[n] = Turn(s, from, n)
  <1> DEFINE from == CHOOSE f : TurnsFrom(s, f, 0)
  <1>1. TurnsFrom(s, from, 0)  BY TurnsExist
  <1>2. unpack(s) = from[0]  BY DEF unpack, TurnsFrom, Turn, Left
  <1> HIDE DEF from
  <1>3. \A n \in 0..Len(s) : from[n] = Turn(s, from, n)  BY <1>1 DEF TurnsFrom
  <1> QED  BY <1>2, <1>3

----------------------------------------------------------------------------
(* Messages one after the other.                                           *)

Kinds == {"handshake", "keepalive", "choke", "unchoke", "interested", "notinterested",
          "have", "bitfield", "request", "piece", "cancel", "port", "unknown"}

Spoken == {m \in [type : Kinds, nums : Seq(Nat), data : Seq(Octet)] : Speakable(m)}

\* Where each of the messages ms ends.
Places(ms, at) ==
    /\ at \in [0..Len(ms) -> Nat] /\ at[0] = 0
    /\ \A k \in 1..Len(ms) : at[k] = at[k - 1] + Len(Sent(ms[k]))

\* The bytes t are those the messages ms were sent as.
Laid(ms, t, at) ==
    /\ Places(ms, at) /\ at[Len(ms)] = Len(t)
    /\ \A k \in 1..Len(ms) :
         \A i \in 1..Len(Sent(ms[k])) : t[at[k - 1] + i] = Sent(ms[k])[i]

\* s is the beginning of t.
Begins(s, t) == Len(s) <= Len(t) /\ \A i \in 1..Len(s) : s[i] = t[i]

LEMMA SentBytes ==
    ASSUME NEW m, Speakable(m)
    PROVE  Sent(m) \in Seq(Nat) /\ Len(Sent(m)) \in Nat /\ Len(Sent(m)) >= 4
  <1> DEFINE e == <<>>
  <1>1. e \in Seq(Nat) /\ Len(e) = 0  OBVIOUS
  <1>2. Agrees(e, Sent(m))  BY <1>1 DEF Agrees
  <1> HIDE DEF e
  <1>3. Sent(m) \in Seq(Nat) /\ Len(Sent(m)) >= 4  BY <1>1, <1>2, CutMessage
  <1> QED  BY <1>3

\* Later messages end further on.
LEMMA PlacesAscend ==
    ASSUME NEW ms \in Seq(Spoken), NEW at, Places(ms, at),
           NEW j \in 0..Len(ms), NEW k \in 0..Len(ms), j <= k
    PROVE  at[j] \in Nat /\ at[k] \in Nat /\ at[j] <= at[k]
  <1> DEFINE Above == {d \in Nat : j + d <= Len(ms) => at[j] <= at[j + d]}
  <1>1. Len(ms) \in Nat /\ at \in [0..Len(ms) -> Nat]
        /\ \A n \in 1..Len(ms) : at[n] = at[n - 1] + Len(Sent(ms[n]))
    BY DEF Places
  <1>2. 0 \in Above  BY <1>1
  <1>3. ASSUME NEW d \in Nat, d \in Above PROVE d + 1 \in Above
    <2> SUFFICES ASSUME j + (d + 1) <= Len(ms) PROVE at[j] <= at[j + (d + 1)]
      OBVIOUS
    <2> DEFINE n == j + (d + 1)
    <2>1. n \in 1..Len(ms) /\ n - 1 = j + d /\ j + d <= Len(ms) /\ j + d \in 0..Len(ms)
      BY <1>1
    <2> HIDE DEF n
    <2>2. ms[n] \in Spoken  BY <2>1
    <2>3. Len(Sent(ms[n])) \in Nat  BY <2>2, SentBytes DEF Spoken
    <2>4. at[n] = at[n - 1] + Len(Sent(ms[n]))  BY <1>1, <2>1
    <2>5. at[j] <= at[j + d] /\ at[j + d] \in Nat /\ at[j] \in Nat  BY <1>1, <1>3, <2>1
    <2>6. at[j] <= at[n]  BY <2>1, <2>3, <2>4, <2>5
    <2> QED  BY <2>6 DEF n
  <1>4. k - j \in Above
    <2> HIDE DEF Above
    <2>1. k - j \in Nat  OBVIOUS
    <2> QED  BY <1>2, <1>3, <2>1, AllNaturals
  <1>5. j + (k - j) = k  OBVIOUS
  <1> QED  BY <1>1, <1>4, <1>5

\* The places of the messages that are left after the first h.
Shifted(at, h, n) == [k \in 0..(n - h) |-> at[h + k] - at[h]]

LEMMA LeftOver ==
    ASSUME NEW S, NEW ms \in Seq(S), NEW h \in 0..Len(ms)
    PROVE  /\ Left(ms, h) \in Seq(S) /\ Len(Left(ms, h)) = Len(ms) - h
           /\ \A i \in 1..(Len(ms) - h) : Left(ms, h)[i] = ms[h + i]
  <1>1. h \in Nat /\ h <= Len(ms)  OBVIOUS
  <1> QED  BY <1>1, Suffix DEF Left

LEMMA PlacesRest ==
    ASSUME NEW ms \in Seq(Spoken), NEW at, Places(ms, at), NEW h \in 0..Len(ms)
    PROVE  Places(Left(ms, h), Shifted(at, h, Len(ms)))
  <1> DEFINE l == Left(ms, h)  n == Len(ms)  f == Shifted(at, h, n)
  <1>1. n \in Nat /\ h \in 0..n  OBVIOUS
  <1>2. Len(l) = n - h /\ \A i \in 1..(n - h) : l[i] = ms[h + i]  BY LeftOver
  <1>3. /\ at \in [0..n -> Nat]
        /\ \A k \in 1..n : at[k] = at[k - 1] + Len(Sent(ms[k]))
    BY DEF Places
  <1>4. ASSUME NEW k \in 0..(n - h) PROVE f[k] = at[h + k] - at[h] /\ f[k] \in Nat
    <2>1. h + k \in 0..n /\ h <= h + k  BY <1>1
    <2>2. at[h] \in Nat /\ at[h + k] \in Nat /\ at[h] <= at[h + k]
      BY <2>1, PlacesAscend
    <2> QED  BY <2>2 DEF Shifted
  <1>5. f = [k \in 0..(n - h) |-> f[k]]  BY DEF Shifted
  <1> HIDE DEF l, n, f
  <1>6. f \in [0..(n - h) -> Nat]  BY <1>4, <1>5
  <1>7. f[0] = 0
    <2>1. 0 \in 0..(n - h) /\ h + 0 = h /\ at[h] \in Nat  BY <1>1, <1>3
    <2> QED  BY <1>4, <2>1
  <1>8. ASSUME NEW k \in 1..(n - h) PROVE f[k] = f[k - 1] + Len(Sent(l[k]))
    <2>1. /\ k \in 0..(n - h) /\ k - 1 \in 0..(n - h)
          /\ h + k \in 1..n /\ h + (k - 1) = (h + k) - 1
      BY <1>1
    <2>2. f[k] = at[h + k] - at[h] /\ f[k - 1] = at[(h + k) - 1] - at[h]
      BY <1>4, <2>1
    <2>3. at[h + k] = at[(h + k) - 1] + Len(Sent(l[k]))
      BY <1>2, <1>3, <2>1
    <2>4. at[h] \in Nat /\ at[(h + k) - 1] \in Nat /\ at[h + k] \in Nat
      <3>1. h \in 0..n /\ (h + k) - 1 \in 0..n /\ h + k \in 0..n  BY <1>1, <2>1
      <3> QED  BY <1>3, <3>1
    <2>5. Len(Sent(l[k])) \in Nat
      <3>1. ms[h + k] \in Spoken  BY <2>1 DEF n
      <3>2. l[k] = ms[h + k]  BY <1>2
      <3> QED  BY <3>1, <3>2, SentBytes DEF Spoken
    <2> QED  BY <2>2, <2>3, <2>4, <2>5
  <1>9. Places(l, f)  BY <1>2, <1>6, <1>7, <1>8 DEF Places
  <1> QED  BY <1>9 DEF l, f, n

\* What is left of a stream behind a message is the stream of those behind it.
LEMMA LaidRest ==
    ASSUME NEW ms \in Seq(Spoken), NEW t \in Seq(Nat), NEW at, Laid(ms, t, at),
           NEW h \in 0..Len(ms)
    PROVE  /\ at[h] \in 0..Len(t)
           /\ Laid(Left(ms, h), Left(t, at[h]), Shifted(at, h, Len(ms)))
  <1> DEFINE l == Left(ms, h)  n == Len(ms)  f == Shifted(at, h, n)
             T == Len(t)  a == at[h]  u == Left(t, a)
  <1>1. n \in Nat /\ h \in 0..n /\ T \in Nat  OBVIOUS
  <1>2. Len(l) = n - h /\ \A i \in 1..(n - h) : l[i] = ms[h + i]  BY LeftOver
  <1>3. /\ at \in [0..n -> Nat] /\ at[n] = T /\ Places(ms, at)
        /\ \A k \in 1..n : at[k] = at[k - 1] + Len(Sent(ms[k]))
        /\ \A k \in 1..n :
             \A i \in 1..Len(Sent(ms[k])) : t[at[k - 1] + i] = Sent(ms[k])[i]
    BY DEF Laid, Places
  <1>4. ASSUME NEW k \in 0..n PROVE at[k] \in 0..T
    <2>1. k \in 0..n /\ n \in 0..n /\ k <= n  BY <1>1
    <2>2. at[k] \in Nat /\ at[k] <= at[n]  BY <1>3, <2>1, PlacesAscend
    <2> HIDE DEF n, T
    <2> QED  BY <1>1, <1>3, <2>2
  <1>5. a \in 0..T  BY <1>1, <1>4
  <1>6. Len(u) = T - a /\ \A i \in 1..(T - a) : u[i] = t[a + i]
    <2> HIDE DEF a
    <2> QED  BY <1>5, LeftIs
  <1>7. \A k \in 0..(n - h) : f[k] = at[h + k] - a  BY DEF Shifted
  <1>8. Places(l, f)  BY <1>3, PlacesRest
  <1> HIDE DEF l, n, f, T, a, u
  <1>9. f[Len(l)] = Len(u)
    <2>1. n - h \in 0..(n - h) /\ h + (n - h) = n  BY <1>1
    <2>2. f[n - h] = at[n] - a  BY <1>7, <2>1
    <2> QED  BY <1>2, <1>3, <1>6, <2>2
  <1>10. ASSUME NEW k \in 1..(n - h), NEW i \in 1..Len(Sent(l[k]))
         PROVE  u[f[k - 1] + i] = Sent(l[k])[i]
    <2> DEFINE j == h + k
    <2>1. /\ j \in 1..n /\ j \in 0..n /\ j - 1 \in 0..n /\ k - 1 \in 0..(n - h)
          /\ h + (k - 1) = j - 1 /\ h + k = j
      BY <1>1
    <2> HIDE DEF j
    <2>2. l[k] = ms[j]  BY <1>2, <2>1
    <2>3. Len(Sent(ms[j])) \in Nat
      <3>1. ms[j] \in Spoken  BY <2>1 DEF n
      <3> QED  BY <3>1, SentBytes DEF Spoken
    <2>4. f[k - 1] = at[j - 1] - a  BY <1>7, <2>1
    <2>5. at[j] = at[j - 1] + Len(Sent(ms[j]))  BY <1>3, <2>1
    <2>6. at[j - 1] \in 0..T /\ at[j] \in 0..T  BY <1>4, <2>1
    <2>7. at[j - 1] >= a
      <3>1. h \in 0..n /\ j - 1 \in 0..n /\ h <= j - 1  BY <1>1, <2>1
      <3> QED  BY <1>3, <3>1, PlacesAscend DEF a, n
    <2>8. i \in 1..Len(Sent(ms[j]))  BY <2>2
    <2> DEFINE w == Len(Sent(ms[j]))  x == at[j - 1]
    <2>9. t[x + i] = Sent(ms[j])[i]  BY <1>3, <2>1, <2>8
    <2>10. w \in Nat /\ x \in 0..T /\ x + w <= T /\ x >= a /\ i \in 1..w
      BY <2>3, <2>5, <2>6, <2>7, <2>8
    <2> HIDE DEF w, x
    <2>11. (x - a) + i \in 1..(T - a) /\ a + ((x - a) + i) = x + i
      BY <1>1, <1>5, <2>10
    <2>12. u[(x - a) + i] = t[x + i]  BY <1>6, <2>11
    <2>13. f[k - 1] = x - a  BY <2>4 DEF x
    <2> QED  BY <2>2, <2>9, <2>12, <2>13
  <1>11. Laid(l, u, f)  BY <1>2, <1>8, <1>9, <1>10 DEF Laid
  <1> QED  BY <1>5, <1>11 DEF l, n, f, T, a, u

\* A message more is laid behind the others.
LEMMA LaidMore ==
    ASSUME NEW ms \in Seq(Spoken), NEW t \in Seq(Nat), NEW at, Laid(ms, t, at),
           NEW m \in Spoken
    PROVE  \E f : Laid(Append(ms, m), t \o Sent(m), f)
  <1> DEFINE n == Len(ms)  T == Len(t)  w == Sent(m)  u == t \o w  l == Append(ms, m)
             f == [k \in 0..(n + 1) |-> IF k = n + 1 THEN T + Len(w) ELSE at[k]]
  <1>1. n \in Nat /\ T \in Nat  OBVIOUS
  <1>2. w \in Seq(Nat) /\ Len(w) \in Nat  BY SentBytes DEF Spoken
  <1>3. Len(l) = n + 1 /\ l[n + 1] = m /\ \A k \in 1..n : l[k] = ms[k]  OBVIOUS
  <1>4. /\ at \in [0..n -> Nat] /\ at[0] = 0 /\ at[n] = T /\ Places(ms, at)
        /\ \A k \in 1..n : at[k] = at[k - 1] + Len(Sent(ms[k]))
        /\ \A k \in 1..n :
             \A i \in 1..Len(Sent(ms[k])) : t[at[k - 1] + i] = Sent(ms[k])[i]
    BY DEF Laid, Places
  <1>5. /\ Len(u) = T + Len(w)
        /\ \A i \in 1..T : u[i] = t[i]
        /\ \A i \in 1..Len(w) : u[T + i] = w[i]
    <2> HIDE DEF w
    <2> QED  BY <1>2, Joined
  <1> HIDE DEF w, u, l
  <1>6. f \in [0..(n + 1) -> Nat] /\ f[n + 1] = T + Len(w)
    <2> HIDE DEF n, T
    <2> QED  BY <1>1, <1>2, <1>4
  <1>7. \A k \in 0..n : f[k] = at[k]
    <2> HIDE DEF n, T
    <2> QED  BY <1>1
  <1> HIDE DEF f
  <1>8. \A k \in 1..n : Len(Sent(ms[k])) \in Nat
    <2> TAKE k \in 1..n
    <2>1. ms[k] \in Spoken  OBVIOUS
    <2> QED  BY <2>1, SentBytes DEF Spoken
  <1>9. \A k \in 1..n : at[k] <= T
    <2> TAKE k \in 1..n
    <2>1. k \in 0..Len(ms) /\ n \in 0..Len(ms) /\ k <= n  BY <1>1
    <2>2. at[k] <= at[n]  BY <1>4, <2>1, PlacesAscend
    <2> QED  BY <1>4, <2>2
  <1> HIDE DEF n, T
  <1>10. ASSUME NEW k \in 1..(n + 1)
         PROVE  /\ f[k] = f[k - 1] + Len(Sent(l[k]))
                /\ \A i \in 1..Len(Sent(l[k])) : u[f[k - 1] + i] = Sent(l[k])[i]
    <2>1. CASE k = n + 1
      <3>1. k - 1 = n /\ n \in 0..n  BY <1>1, <2>1
      <3>2. f[k - 1] = T /\ l[k] = m  BY <1>3, <1>4, <1>7, <2>1, <3>1
      <3> QED  BY <1>5, <1>6, <2>1, <3>2 DEF w
    <2>2. CASE k # n + 1
      <3>1. k \in 1..n /\ k \in 0..n /\ k - 1 \in 0..n  BY <1>1, <2>2
      <3>2. f[k] = at[k] /\ f[k - 1] = at[k - 1] /\ l[k] = ms[k]  BY <1>3, <1>7, <3>1
      <3>3. at[k] = at[k - 1] + Len(Sent(ms[k]))  BY <1>4, <3>1
      <3>4. ASSUME NEW i \in 1..Len(Sent(ms[k])) PROVE u[at[k - 1] + i] = Sent(ms[k])[i]
        <4>1. t[at[k - 1] + i] = Sent(ms[k])[i]  BY <1>4, <3>1
        <4> DEFINE x == at[k - 1]  v == Len(Sent(ms[k]))
        <4>2. x \in Nat /\ v \in Nat /\ i \in 1..v /\ x + v <= T
          BY <1>4, <1>8, <1>9, <3>1, <3>3
        <4> HIDE DEF x, v
        <4>3. x + i \in 1..T  BY <1>1, <4>2
        <4> QED  BY <1>5, <4>1, <4>3 DEF x
      <3> QED  BY <3>2, <3>3, <3>4
    <2> QED  BY <2>1, <2>2
  <1>11. f[0] = 0
    <2>1. 0 \in 0..n  BY <1>1
    <2> QED  BY <1>4, <1>7, <2>1
  <1>12. Places(l, f)  BY <1>3, <1>6, <1>10, <1>11 DEF Places
  <1>13. Laid(l, u, f)  BY <1>3, <1>5, <1>6, <1>10, <1>12 DEF Laid
  <1> QED  BY <1>13 DEF l, u, w

\* What has come of a stream, from the end of some message on, agrees with the
\* next message.
LEMMA NextAgrees ==
    ASSUME NEW ms \in Seq(Spoken), NEW t \in Seq(Nat), NEW at, Laid(ms, t, at),
           NEW s \in Seq(Nat), Begins(s, t),
           NEW k \in 1..Len(ms), at[k - 1] <= Len(s)
    PROVE  /\ Left(s, at[k - 1]) \in Seq(Nat)
           /\ Len(Left(s, at[k - 1])) = Len(s) - at[k - 1]
           /\ Agrees(Left(s, at[k - 1]), Sent(ms[k]))
  <1> DEFINE n == at[k - 1]
             w == Sent(ms[k])
  <1>1. Len(s) \in Nat /\ n \in Nat
    <2>1. at \in [0..Len(ms) -> Nat] /\ k - 1 \in 0..Len(ms)  BY DEF Laid, Places
    <2>2. at[k - 1] \in Nat  BY <2>1
    <2>3. Len(s) \in Nat  OBVIOUS
    <2> QED  BY <2>2, <2>3
  <1>2. n \in 0..Len(s)  BY <1>1
  <1>3. \A i \in 1..Len(w) : t[n + i] = w[i]  BY DEF Laid
  <1> HIDE DEF n
  <1>4. /\ Left(s, n) \in Seq(Nat) /\ Len(Left(s, n)) = Len(s) - n
        /\ \A i \in 1..(Len(s) - n) : Left(s, n)[i] = s[n + i]
    BY <1>2, LeftIs
  <1>5. Len(w) \in Nat
    <2>1. ms[k] \in Spoken  OBVIOUS
    <2> QED  BY <2>1, SentBytes DEF Spoken
  <1> HIDE DEF w
  <1>6. ASSUME NEW i \in 1..Len(Left(s, n)), i <= Len(w) PROVE Left(s, n)[i] = w[i]
    <2>1. i \in 1..(Len(s) - n) /\ n + i \in 1..Len(s) /\ i \in 1..Len(w)
      BY <1>1, <1>4, <1>5, <1>6
    <2>2. s[n + i] = t[n + i]  BY <2>1 DEF Begins
    <2> QED  BY <1>3, <1>4, <2>1, <2>2
  <1> QED  BY <1>4, <1>6 DEF Agrees, n, w

\* What is understood of the first h messages.
Reading(ms, h) == [k \in 1..h |-> Understood(ms[k])]

\* unpack() takes from what has come of a stream the messages that are complete,
\* and leaves the beginning of the next.
LEMMA UnpackStream ==
    ASSUME NEW ms \in Seq(Spoken), NEW t \in Seq(Nat), NEW at, Laid(ms, t, at),
           NEW s \in Seq(Nat), Begins(s, t)
    PROVE  \E h \in 0..Len(ms) :
             /\ at[h] <= Len(s) /\ (h < Len(ms) => Len(s) < at[h + 1])
             /\ unpack(s).msgs = Reading(ms, h)
             /\ unpack(s).rest = Left(s, at[h])
  <1> DEFINE L == Len(s)  n == Len(ms)
  <1>1. L \in Nat /\ n \in Nat /\ Len(t) \in Nat /\ L <= Len(t)  BY DEF Begins
  <1>2. at \in [0..n -> Nat] /\ at[0] = 0 /\ at[n] = Len(t)  BY DEF Laid, Places
  <1>3. PICK h \in 0..n : at[h] <= L /\ (h < n => L < at[h + 1])
    <2> HIDE DEF L, n
    <2> DEFINE Passed == {j \in Nat : j <= n /\ L < at[j] =>
                            \E h \in 0..n : at[h] <= L /\ (h < n => L < at[h + 1])}
    <2>1. 0 \in Passed  BY <1>1, <1>2
    <2>2. ASSUME NEW j \in Nat, j \in Passed PROVE j + 1 \in Passed
      <3> SUFFICES ASSUME j + 1 <= n, L < at[j + 1]
          PROVE  \E h \in 0..n : at[h] <= L /\ (h < n => L < at[h + 1])
        OBVIOUS
      <3>1. j \in 0..n /\ j <= n  BY <1>1
      <3>2. at[j] \in Nat  BY <1>2, <3>1
      <3>3. CASE L < at[j]  BY <2>2, <3>1, <3>3
      <3>4. CASE at[j] <= L  BY <3>1, <3>4
      <3> QED  BY <1>1, <3>2, <3>3, <3>4
    <2>3. n \in Passed
      <3> HIDE DEF Passed
      <3> QED  BY <1>1, <2>1, <2>2, AllNaturals
    <2>4. n \in 0..n /\ n <= n /\ ~(n < n) /\ at[n] \in Nat  BY <1>1, <1>2
    <2>5. CASE L < at[n]  BY <2>3, <2>4, <2>5
    <2>6. CASE at[n] <= L  BY <2>4, <2>6
    <2> QED  BY <1>1, <2>4, <2>5, <2>6
  <1>4. PICK from : /\ unpack(s) = from[0]
                    /\ \A k \in 0..L : from[k] = Turn(s, from, k)
    BY UnpackTurns
  <1>5. \A k \in 0..h : at[k] \in 0..L
    <2> TAKE k \in 0..h
    <2>1. k \in 0..n /\ k <= h  BY <1>1
    <2>2. at[k] \in Nat /\ at[h] \in Nat /\ at[k] <= at[h]
      <3>1. Places(ms, at)  BY DEF Laid
      <3> QED  BY <2>1, <3>1, PlacesAscend
    <2> HIDE DEF L
    <2> QED  BY <1>1, <1>3, <2>2
  <1> DEFINE rest == Left(s, at[h])
             msgs(d) == [i \in 1..d |-> Understood(ms[(h - d) + i])]
             Down == {d \in Nat : d <= h =>
                        from[at[h - d]] = [msgs |-> msgs(d), rest |-> rest]}
  <1>6. 0 \in Down
    <2>1. ~Complete(rest)
      <3>1. CASE h = n
        <4>1. at[h] = L
          <5>1. at[h] \in Nat /\ at[h] <= L /\ L <= at[h]  BY <1>1, <1>2, <1>3, <3>1
          <5> HIDE DEF L
          <5> QED  BY <1>1, <5>1
        <4>2. L \in 0..L /\ L - L = 0  BY <1>1
        <4>3. Len(Left(s, L)) = L - L
          <5>1. L \in 0..Len(s)  BY <4>2
          <5> QED  BY <5>1, LeftIs
        <4>4. Len(rest) = 0
          <5> HIDE DEF L
          <5> QED  BY <4>1, <4>2, <4>3
        <4> HIDE DEF rest
        <4> QED  BY <4>4 DEF Complete
      <3>2. CASE h # n
        <4>1. h + 1 \in 1..n /\ (h + 1) - 1 = h /\ h < n  BY <1>1, <3>2
        <4>2. at[(h + 1) - 1] = at[h] /\ at[(h + 1) - 1] <= Len(s)  BY <1>3, <4>1
        <4>3. /\ rest \in Seq(Nat) /\ Len(rest) = L - at[h]
              /\ Agrees(rest, Sent(ms[h + 1]))
          <5> DEFINE j == h + 1
          <5>1. j \in 1..Len(ms) /\ at[j - 1] = at[h] /\ at[j - 1] <= Len(s)
            BY <4>1, <4>2
          <5> HIDE DEF j
          <5>2. /\ Left(s, at[j - 1]) \in Seq(Nat)
                /\ Len(Left(s, at[j - 1])) = Len(s) - at[j - 1]
                /\ Agrees(Left(s, at[j - 1]), Sent(ms[j]))
            BY <5>1, NextAgrees
          <5> QED  BY <5>1, <5>2 DEF j
        <4>4. at[h + 1] = at[h] + Len(Sent(ms[h + 1]))  BY <4>1 DEF Laid, Places
        <4>5. ms[h + 1] \in Spoken  BY <4>1
        <4>6. Speakable(ms[h + 1]) /\ Len(Sent(ms[h + 1])) \in Nat
          BY <4>5, SentBytes DEF Spoken
        <4> HIDE DEF rest, L, n
        <4>7. Complete(rest) <=> Len(rest) >= Len(Sent(ms[h + 1]))
          BY <4>3, <4>6, CutMessage DEF CutAs
        <4>8. at[h] \in Nat /\ L < at[h + 1]  BY <1>2, <1>3, <4>1
        <4>9. ~(Len(rest) >= Len(Sent(ms[h + 1])))
          BY <1>1, <4>3, <4>4, <4>6, <4>8
        <4> QED  BY <4>7, <4>9
      <3> QED  BY <3>1, <3>2
    <2>2. h \in 0..h  OBVIOUS
    <2>3. from[at[h]] = Turn(s, from, at[h])  BY <1>4, <1>5, <2>2
    <2>4. from[at[h]] = [msgs |-> <<>>, rest |-> rest]  BY <2>1, <2>3 DEF Turn
    <2>5. msgs(0) = <<>>  OBVIOUS
    <2>6. h - 0 = h  OBVIOUS
    <2> HIDE DEF rest, msgs
    <2> QED  BY <2>4, <2>5, <2>6
  <1>7. ASSUME NEW d \in Nat, d \in Down PROVE d + 1 \in Down
    <2> SUFFICES ASSUME d + 1 <= h
        PROVE  from[at[h - (d + 1)]] = [msgs |-> msgs(d + 1), rest |-> rest]
      OBVIOUS
    <2> DEFINE k == h - d
               m == ms[k]
               l == Left(s, at[k - 1])
    <2>1. k \in 1..n /\ k \in 0..h /\ k - 1 \in 0..h /\ k - 1 = h - (d + 1) /\ d <= h
      BY <1>1
    <2>2. at[k - 1] \in 0..L /\ at[k] \in 0..L  BY <1>5, <2>1
    <2>3. m \in Spoken  BY <2>1
    <2>4. Speakable(m) /\ Len(Sent(m)) \in Nat  BY <2>3, SentBytes DEF Spoken
    <2>5. at[k] = at[k - 1] + Len(Sent(m))  BY <2>1 DEF Laid, Places
    <2>6. l \in Seq(Nat) /\ Len(l) = L - at[k - 1] /\ Agrees(l, Sent(m))
      <3>1. k \in 1..Len(ms) /\ at[k - 1] <= Len(s)
        <4>1. at[k - 1] <= L
          <5> HIDE DEF L
          <5> QED  BY <1>1, <2>2
        <4> QED  BY <2>1, <4>1
      <3> HIDE DEF k
      <3>2. /\ Left(s, at[k - 1]) \in Seq(Nat)
            /\ Len(Left(s, at[k - 1])) = Len(s) - at[k - 1]
            /\ Agrees(Left(s, at[k - 1]), Sent(ms[k]))
        BY <3>1, NextAgrees
      <3> QED  BY <3>2
    <2> HIDE DEF m, L, k
    <2>7. Len(l) >= Len(Sent(m))  BY <1>1, <2>2, <2>4, <2>5, <2>6
    <2>8. Complete(l) /\ Size(l) = Len(Sent(m)) /\ First(l) = Understood(m)
      <3> HIDE DEF l
      <3> QED  BY <2>4, <2>6, <2>7, CutMessage DEF CutAs
    <2>9. from[at[k - 1]] = Turn(s, from, at[k - 1])  BY <1>4, <2>2
    <2>10. from[at[k - 1]] = [from[at[k]] EXCEPT !.msgs = <<Understood(m)>> \o @]
      BY <2>5, <2>8, <2>9 DEF Turn
    <2>11. from[at[k]] = [msgs |-> msgs(d), rest |-> rest]  BY <1>7, <2>1 DEF k
    <2>12. <<Understood(m)>> \o msgs(d) = msgs(d + 1)
      <3> DEFINE U == {Understood(ms[j]) : j \in 1..n}
                 one == <<Understood(m)>>
      <3>1. \A i \in 1..d : (h - d) + i \in 1..n
        BY <1>1, <2>1
      <3>2. \A i \in 1..(d + 1) : (h - (d + 1)) + i \in 1..n
        BY <1>1, <2>1
      <3>3. msgs(d) \in [1..d -> U] /\ msgs(d + 1) \in [1..(d + 1) -> U]
        BY <3>1, <3>2
      <3>4. one \in Seq(U) /\ Len(one) = 1 /\ one[1] = Understood(m)
        <4>1. Understood(m) \in U  BY <2>1 DEF m
        <4> HIDE DEF U
        <4> QED  BY <4>1
      <3>5. \A i \in 1..d : msgs(d)[i] = Understood(ms[(h - d) + i])  OBVIOUS
      <3>6. \A i \in 1..(d + 1) :
               msgs(d + 1)[i] = Understood(ms[(h - (d + 1)) + i])  OBVIOUS
      <3>7. d \in Nat /\ d + 1 \in Nat  OBVIOUS
      <3> DEFINE x == msgs(d)  y == msgs(d + 1)
      <3>8. x \in [1..d -> U] /\ y \in [1..(d + 1) -> U]  BY <3>3
      <3>9. \A i \in 1..d : x[i] = Understood(ms[(h - d) + i])  BY <3>5
      <3>10. \A i \in 1..(d + 1) : y[i] = Understood(ms[(h - (d + 1)) + i])  BY <3>6
      <3> HIDE DEF U, msgs, one, x, y
      <3>11. x \in Seq(U) /\ Len(x) = d  BY <3>7, <3>8, FunctionIsSequence
      <3>12. y \in Seq(U) /\ Len(y) = d + 1  BY <3>7, <3>8, FunctionIsSequence
      <3>13. /\ one \o x \in Seq(U) /\ Len(one \o x) = Len(one) + Len(x)
             /\ \A i \in 1..Len(one) : (one \o x)[i] = one[i]
             /\ \A i \in 1..Len(x) : (one \o x)[Len(one) + i] = x[i]
        <4>1. one \in Seq(U) /\ x \in Seq(U)  BY <3>4, <3>11
        <4> QED  BY <4>1, Joined
      <3>14. Len(one \o x) = Len(y)  BY <3>4, <3>7, <3>11, <3>12, <3>13
      <3>15. ASSUME NEW i \in 1..(d + 1) PROVE (one \o x)[i] = y[i]
        <4>1. CASE i = 1
          <5>1. (one \o x)[1] = Understood(m)  BY <3>4, <3>13
          <5>2. (h - (d + 1)) + 1 = k  BY <2>1 DEF k
          <5>3. y[1] = Understood(ms[k])  BY <3>10, <4>1, <5>2
          <5> QED  BY <4>1, <5>1, <5>3 DEF m
        <4>2. CASE i # 1
          <5>1. i - 1 \in 1..d /\ 1 + (i - 1) = i
                /\ (h - d) + (i - 1) = (h - (d + 1)) + i
            BY <4>2
          <5>2. (one \o x)[1 + (i - 1)] = x[i - 1]  BY <3>4, <3>11, <3>13, <5>1
          <5>3. x[i - 1] = Understood(ms[(h - d) + (i - 1)])  BY <3>9, <5>1
          <5>4. y[i] = Understood(ms[(h - (d + 1)) + i])  BY <3>10
          <5> QED  BY <5>1, <5>2, <5>3, <5>4
        <4> QED  BY <4>1, <4>2
      <3>16. \A i \in 1..Len(one \o x) : (one \o x)[i] = y[i]
        BY <3>12, <3>14, <3>15
      <3>17. one \o x = y  BY <3>12, <3>13, <3>14, <3>16, SameSequence
      <3> QED  BY <3>17 DEF one, x, y
    <2> HIDE DEF msgs, rest
    <2>13. from[at[k - 1]] = [msgs |-> msgs(d + 1), rest |-> rest]
      <3> DEFINE x == msgs(d)  y == msgs(d + 1)  one == <<Understood(m)>>  r == from[at[k]]
      <3>1. r = [msgs |-> x, rest |-> rest] /\ one \o x = y
            /\ from[at[k - 1]] = [r EXCEPT !.msgs = one \o @]
        BY <2>10, <2>11, <2>12
      <3> HIDE DEF x, y, one, r
      <3>2. [r EXCEPT !.msgs = one \o @] = [msgs |-> one \o x, rest |-> rest]
        BY <3>1
      <3> QED  BY <3>1, <3>2 DEF y
    <2> QED  BY <2>1, <2>13
  <1>8. h \in Down
    <2>1. h \in Nat  OBVIOUS
    <2> HIDE DEF Down
    <2> QED  BY <1>6, <1>7, <2>1, AllNaturals
  <1>9. h <= h /\ h - h = 0  OBVIOUS
  <1>10. unpack(s) = [msgs |-> msgs(h), rest |-> rest]
    <2> HIDE DEF msgs, rest
    <2> QED  BY <1>2, <1>4, <1>8, <1>9
  <1>11. msgs(h) = [k \in 1..h |-> Understood(ms[k])]
    <2>1. \A i \in 1..h : (h - h) + i = i  OBVIOUS
    <2> QED  BY <2>1
  <1> QED  BY <1>3, <1>10, <1>11 DEF Reading

----------------------------------------------------------------------------
(* The messages of a read: what is asked and answered can be said.         *)

LEMMA SpeakableIsSpoken ==
    ASSUME NEW m, Speakable(m)
    PROVE  m \in Spoken
  <1>1. m = Message(m.type, m.nums, m.data) /\ m.nums \in Seq(Nat) /\ m.data \in Seq(Octet)
    BY DEF Speakable
  <1>2. m.type \in Kinds  BY DEF Speakable, Kinds
  <1>3. m \in [type : Kinds, nums : Seq(Nat), data : Seq(Octet)]
    BY <1>1, <1>2 DEF Message
  <1> QED  BY <1>3 DEF Spoken

LEMMA SmallIsLength ==
    ASSUME NEW n \in Nat, n < Lookalike
    PROVE  FrameLength(n) /\ Uint32(n)
  <1>1. Lookalike = 19 * 16777216 + 66 * 65536 + 105 * 256 + 116  BY LookalikeIs
  <1>2. n < 20 * 16777216  BY SMT, <1>1
  <1>3. n \div 16777216 < 256  BY SMT, <1>2
  <1>4. n # Lookalike  BY LookalikeIs
  <1> QED  BY <1>3, <1>4 DEF FrameLength, Uint32

LEMMA LessIsUint32 ==
    ASSUME NEW n \in Nat, NEW m, Uint32(m), n <= m
    PROVE  Uint32(n)
  BY SMT DEF Uint32

\* The handshake of a peer.
LEMMA HandshakeIsSpoken == Message("handshake", <<>>, resize(<<7>>, 20)) \in Spoken
  <1> DEFINE d == resize(<<7>>, 20)
             m == Message("handshake", <<>>, d)
             e == <<>>
  <1>1. d \in [1..20 -> Octet]  BY DEF resize, Octet
  <1>2. d \in Seq(Octet) /\ Len(d) = 20
    <2>1. 20 \in Nat  OBVIOUS
    <2> HIDE DEF d
    <2> QED  BY <1>1, <2>1, FunctionIsSequence
  <1>3. e \in Seq(Nat) /\ Len(e) = 0  OBVIOUS
  <1> HIDE DEF d, e
  <1>4. m.type = "handshake" /\ m.nums = e /\ m.data = d  BY DEF Message, e
  <1>5. m = Message(m.type, m.nums, m.data)  BY DEF Message
  <1> HIDE DEF m
  <1>6. \A i \in 1..Len(e) : Uint32(e[i])
    <2>1. \A i : ~(i \in 1..0)  OBVIOUS
    <2> QED  BY <1>3, <2>1
  <1>7. Payload(m) = d  BY <1>4 DEF Payload
  <1>8. FrameLength(1 + Len(IF m.type = "unknown" THEN m.data ELSE Payload(m)))
    <2>1. 21 \in Nat /\ 21 < Lookalike  BY LookalikeIs
    <2>2. FrameLength(21)  BY <2>1, SmallIsLength
    <2>3. 1 + Len(d) = 21  BY <1>2
    <2> QED  BY <1>4, <1>7, <2>2, <2>3
  <1>9. Speakable(m)  BY <1>2, <1>3, <1>4, <1>5, <1>6, <1>8 DEF Speakable
  <1> QED  BY <1>9, SpeakableIsSpoken DEF m, d, e

\* The numbers of a request.
LEMMA RequestIsSpoken ==
    ASSUME NEW x, Uint32(x), NEW y, Uint32(y), NEW z, Uint32(z)
    PROVE  Message("request", <<x, y, z>>, <<>>) \in Spoken
  <1> DEFINE ns == <<x, y, z>>
             e == <<>>
             m == Message("request", ns, e)
             h == hton32(z)
  <1>1. ns \in Seq(Nat) /\ Len(ns) = 3
    <2>1. x \in Nat /\ y \in Nat /\ z \in Nat  BY DEF Uint32
    <2> QED  BY <2>1
  <1>2. \A i \in 1..Len(ns) : Uint32(ns[i])
    <2>1. ns[1] = x /\ ns[2] = y /\ ns[3] = z  OBVIOUS
    <2>2. \A i \in 1..Len(ns) : i = 1 \/ i = 2 \/ i = 3  BY <1>1
    <2> HIDE DEF ns
    <2> QED  BY <2>1, <2>2
  <1>3. e \in Seq(Octet) /\ Len(e) = 0  OBVIOUS
  <1>4. h \in Seq(Nat) /\ Len(h) = 4
    <2>1. h \in Seq(Octet) /\ Len(h) = 4  BY FourBytes
    <2> QED  BY <2>1, OctetsAreNumbers
  <1>5. ns[1] = x /\ ns[2] = y /\ ns[3] = z  OBVIOUS
  <1> HIDE DEF h, ns, e
  <1>6. m.type = "request" /\ m.nums = ns /\ m.data = e /\ m = Message(m.type, m.nums, m.data)
    BY DEF Message
  <1> HIDE DEF m
  <1>7. Payload(m) = Numbers(x, y, h)  BY <1>5, <1>6 DEF Payload, Numbers, h
  <1>8. Len(Payload(m)) = 12
    <2>1. Len(Numbers(x, y, h)) = 8 + Len(h)  BY <1>4, TwoNumbers
    <2> QED  BY <1>4, <1>7, <2>1
  <1>9. FrameLength(1 + Len(IF m.type = "unknown" THEN m.data ELSE Payload(m)))
    <2>1. 13 \in Nat /\ 13 < Lookalike  BY LookalikeIs
    <2>2. FrameLength(13)  BY <2>1, SmallIsLength
    <2>3. 1 + Len(Payload(m)) = 13  BY <1>8
    <2> QED  BY <1>6, <2>2, <2>3
  <1>10. /\ m.nums \in Seq(Nat) /\ Len(m.nums) = 3
         /\ m.data \in Seq(Octet) /\ Len(m.data) = 0
         /\ \A i \in 1..Len(m.nums) : Uint32(m.nums[i])
         /\ m.type \in {"request", "cancel"} /\ m = Message(m.type, m.nums, m.data)
    BY <1>1, <1>2, <1>3, <1>6
  <1>11. Speakable(m)  BY ONLY <1>9, <1>10 DEF Speakable
  <1> QED  BY <1>11, SpeakableIsSpoken DEF m, ns, e

\* The numbers of a piece and as many bytes as a frame has room for.
LEMMA PieceIsSpoken ==
    ASSUME NEW x, Uint32(x), NEW y, Uint32(y), NEW d \in Seq(Octet),
           9 + Len(d) < Lookalike
    PROVE  Message("piece", <<x, y>>, d) \in Spoken
  <1> DEFINE ns == <<x, y>>
             m == Message("piece", ns, d)
  <1>1. ns \in Seq(Nat) /\ Len(ns) = 2
    <2>1. x \in Nat /\ y \in Nat  BY DEF Uint32
    <2> QED  BY <2>1
  <1>2. \A i \in 1..Len(ns) : Uint32(ns[i])
    <2>1. ns[1] = x /\ ns[2] = y  OBVIOUS
    <2>2. \A i \in 1..Len(ns) : i = 1 \/ i = 2  BY <1>1
    <2> HIDE DEF ns
    <2> QED  BY <2>1, <2>2
  <1>3. ns[1] = x /\ ns[2] = y  OBVIOUS
  <1>4. d \in Seq(Nat) /\ Len(d) \in Nat  BY OctetsAreNumbers
  <1> HIDE DEF ns
  <1>5. m.type = "piece" /\ m.nums = ns /\ m.data = d /\ m = Message(m.type, m.nums, m.data)
    BY DEF Message
  <1> HIDE DEF m
  <1>6. Payload(m) = Numbers(x, y, d)  BY <1>3, <1>5 DEF Payload, Numbers
  <1>7. Len(Numbers(x, y, d)) = 8 + Len(d)  BY <1>4, TwoNumbers
  <1>8. FrameLength(1 + Len(IF m.type = "unknown" THEN m.data ELSE Payload(m)))
    <2>1. 9 + Len(d) \in Nat  BY <1>4
    <2>2. FrameLength(9 + Len(d))  BY <2>1, SmallIsLength
    <2>3. 1 + Len(Payload(m)) = 9 + Len(d)  BY <1>4, <1>6, <1>7
    <2> QED  BY <1>5, <2>2, <2>3
  <1>9. /\ m.nums \in Seq(Nat) /\ Len(m.nums) = 2 /\ m.data \in Seq(Octet)
        /\ \A i \in 1..Len(m.nums) : Uint32(m.nums[i])
        /\ m.type = "piece" /\ m = Message(m.type, m.nums, m.data)
    BY <1>1, <1>2, <1>5
  <1>10. Speakable(m)  BY ONLY <1>8, <1>9 DEF Speakable
  <1> QED  BY <1>10, SpeakableIsSpoken DEF m, ns

\* A message alone is read as what was said.
LEMMA UnpackOne ==
    ASSUME NEW m \in Spoken
    PROVE  unpack(Sent(m)).msgs[1] = Understood(m)
  <1> DEFINE ms == <<m>>
             t == Sent(m)
             at == [k \in 0..1 |-> IF k = 0 THEN 0 ELSE Len(t)]
  <1>1. t \in Seq(Nat) /\ Len(t) \in Nat /\ Len(t) >= 4  BY SentBytes DEF Spoken
  <1>2. ms \in Seq(Spoken) /\ Len(ms) = 1 /\ ms[1] = m  OBVIOUS
  <1> HIDE DEF ms
  <1>3. at \in [0..1 -> Nat] /\ at[0] = 0 /\ at[1] = Len(t)
    <2> HIDE DEF t
    <2> QED  BY <1>1
  <1> HIDE DEF at
  <1>4. Laid(ms, t, at)
    <2>1. ASSUME NEW k \in 1..Len(ms)
          PROVE  /\ at[k] = at[k - 1] + Len(Sent(ms[k]))
                 /\ \A i \in 1..Len(Sent(ms[k])) : t[at[k - 1] + i] = Sent(ms[k])[i]
      <3>1. k = 1 /\ k - 1 = 0  BY <1>2
      <3>2. Sent(ms[k]) = t /\ at[k - 1] = 0 /\ at[k] = Len(t)  BY <1>2, <1>3, <3>1
      <3>3. 0 + Len(t) = Len(t) /\ \A i \in 1..Len(t) : 0 + i = i  BY <1>1
      <3> HIDE DEF t
      <3> QED  BY <3>2, <3>3
    <2> HIDE DEF t
    <2>2. Places(ms, at)  BY <1>2, <1>3, <2>1 DEF Places
    <2> QED  BY <1>2, <1>3, <2>1, <2>2 DEF Laid
  <1> HIDE DEF t
  <1>0. PICK s : s = t  OBVIOUS
  <1>5. s \in Seq(Nat) /\ Begins(s, t)  BY <1>0, <1>1 DEF Begins
  <1>6. PICK h \in 0..Len(ms) :
          /\ at[h] <= Len(s) /\ (h < Len(ms) => Len(s) < at[h + 1])
          /\ unpack(s).msgs = Reading(ms, h)
          /\ unpack(s).rest = Left(s, at[h])
    <2>1. ms \in Seq(Spoken)  BY <1>2
    <2>2. t \in Seq(Nat)  BY <1>1
    <2>3. s \in Seq(Nat)  BY <1>5
    <2> QED  BY ONLY <2>1, <2>2, <2>3, <1>4, <1>5, UnpackStream
  <1>7. h = 1
    <2>1. h \in 0..1  BY <1>2
    <2>2. CASE h = 0
      <3>1. h < Len(ms) /\ h + 1 = 1  BY <1>2, <2>2
      <3> QED  BY <1>0, <1>1, <1>3, <1>6, <3>1
    <2> QED  BY <2>1, <2>2
  <1>8. unpack(t).msgs = [k \in 1..1 |-> Understood(ms[k])]  BY <1>0, <1>6, <1>7 DEF Reading
  <1>9. unpack(t).msgs[1] = Understood(ms[1])  BY <1>8
  <1> QED  BY <1>2, <1>9 DEF t

----------------------------------------------------------------------------
(* The handler on a read.                                                  *)

\* The requests for the blocks of the read.
Wanted == {<<sub[k].index, sub[k].off, sub[k].size>> : k \in 1..Len(sub)}

\* Where a block lies in the buffer.
Place(k) == sub[k].ptr .. (sub[k].ptr + sub[k].size - 1)

\* The buffer f has the bytes of the blocks d and nothing else.
Stores(d, f) ==
    \A i \in 0..(size - 1) :
        f[i] = IF \E k \in d : i \in Place(k) THEN Byte(beg + i) ELSE Nothing

\* What the handler can have come to.
Works == {h \in [asked : SUBSET Wanted, done : SUBSET (1..Len(sub)),
                 buf : [0..(size - 1) -> Nat]] : Stores(h.done, h.buf)}

LEMMA BytesAreOctets ==
    ASSUME NEW n \in Nat
    PROVE  Byte(n) \in Octet /\ Byte(n) \in Nat /\ Byte(n) # Nothing
  <1>1. n % 250 \in 0..249  OBVIOUS
  <1> QED  BY <1>1 DEF Byte, Octet, Nothing

LEMMA Remainder ==
    ASSUME NEW n \in Nat
    PROVE  n % Word \in Nat /\ n % Word <= n /\ n % Word < Word
  BY BlockRequestAssumption

\* The numbers of a block can be sent, and its bytes in one message.
LEMMA BlockFits ==
    ASSUME IInv, q \in Streamed, NEW k \in 1..Len(sub)
    PROVE  /\ sub[k] \in Block /\ Position(k) \in Nat /\ sub[k].size > 0
           /\ Position(k) + sub[k].size <= end
           /\ Uint32(sub[k].index) /\ Uint32(sub[k].off) /\ Uint32(sub[k].size)
           /\ 9 + sub[k].size < Lookalike
  <1>1. BlockTypes  BY DEF IInv
  <1>2. sub[k] \in Block /\ Position(k) \in Nat  BY <1>1, PositionIsNumber
  <1>3. /\ sub[k].index \in Nat /\ sub[k].off \in Nat /\ sub[k].size \in Nat
    BY <1>2 DEF Block
  <1>4. /\ sub[k].size > 0 /\ sub[k].size <= q.bs
        /\ sub[k].off + sub[k].size <= q.plen
    BY DEF IInv, PartsOfPieces
  <1>5. /\ q.pieces \in Nat /\ q.plen \in Nat /\ q.bs \in Nat /\ totalsize \in Nat
        /\ q.offset \in Nat /\ q.off \in Nat /\ q.count \in Nat /\ q.length \in Nat
    BY <1>1, ReadNumbers DEF BlockTypes
  <1>6. b \in Nat /\ end \in Nat /\ Len(sub) \in Nat /\ sub # <<>>
    BY <1>1 DEF BlockTypes
  <1>7. b <= end /\ pc # "range"  BY <1>6 DEF IInv, Cursor
  <1>8. Position(k) + sub[k].size <= end
    <2>1. Position(k) + sub[k].size <= b  BY DEF IInv, Chained
    <2> QED  BY <1>2, <1>3, <1>6, <1>7, <2>1
  <1>9. end <= q.pieces * q.plen
    <2> DEFINE x == Least((q.offset + q.off + q.count) % Word, (q.offset + q.length) % Word)
               p == q.pieces * q.plen
    <2>1. end = Least(x, totalsize)  BY <1>7 DEF IInv, Ranged
    <2>2. end <= totalsize
      <3> DEFINE y == q.offset + q.off + q.count  z == q.offset + q.length
      <3>1. y \in Nat
        <4>1. q.offset \in Nat /\ q.off \in Nat /\ q.count \in Nat  BY <1>5
        <4> QED  BY ONLY <4>1
      <3>2. z \in Nat
        <4>1. q.offset \in Nat /\ q.length \in Nat  BY <1>5
        <4> QED  BY ONLY <4>1
      <3> HIDE DEF y, z
      <3>4. y % Word \in Nat /\ z % Word \in Nat  BY <3>1, <3>2, Remainder
      <3>3. x \in Nat  BY <3>4 DEF Least, y, z
      <3> HIDE DEF x
      <3> QED  BY <1>5, <2>1, <3>3 DEF Least
    <2>3. p \in Nat  BY <1>5
    <2> HIDE DEF p
    <2>4. p % Word <= p  BY <2>3, Remainder
    <2>5. totalsize = p % Word  BY DEF totalsize, p
    <2> QED  BY <1>5, <1>6, <2>2, <2>3, <2>4, <2>5 DEF p
  <1>10. sub[k].index <= q.pieces
    <2> SUFFICES ASSUME q.pieces <= sub[k].index PROVE FALSE
      BY <1>3, <1>5
    <2>1. q.pieces * q.plen <= sub[k].index * q.plen
      BY <1>3, <1>5, TimesMonotone
    <2> DEFINE x == q.pieces * q.plen  y == sub[k].index * q.plen
    <2>2. x \in Nat /\ y \in Nat  BY <1>3, <1>5
    <2>3. Position(k) = y + sub[k].off  BY DEF Position
    <2>4. x <= y /\ end <= x  BY <1>9, <2>1
    <2> HIDE DEF x, y
    <2> QED  BY <1>3, <1>4, <1>6, <1>8, <2>2, <2>3, <2>4
  <1>11. Uint32(q.pieces) /\ Uint32(q.plen) /\ 9 + Least(q.bs, q.plen) < Lookalike
    BY WireAssumption
  <1>12. Uint32(sub[k].index)  BY <1>3, <1>10, <1>11, LessIsUint32
  <1>13. Uint32(sub[k].off)
    <2>1. sub[k].off <= q.plen  BY <1>3, <1>4, <1>5
    <2> QED  BY <1>3, <1>11, <2>1, LessIsUint32
  <1>14. 9 + sub[k].size < Lookalike
    <2>1. sub[k].size <= Least(q.bs, q.plen) /\ Least(q.bs, q.plen) \in Nat
      BY <1>3, <1>4, <1>5 DEF Least
    <2>2. Lookalike \in Nat  BY LookalikeIs
    <2> QED  BY <1>3, <1>11, <2>1, <2>2
  <1>15. Uint32(sub[k].size)
    <2>1. sub[k].size < Lookalike  BY <1>3, <1>14, LookalikeIs
    <2> QED  BY <1>3, <2>1, SmallIsLength
  <1> QED  BY <1>2, <1>4, <1>8, <1>12, <1>13, <1>14, <1>15

\* What a peer answers to a request for block k.
LEMMA PieceOfBlock ==
    ASSUME IInv, q \in Streamed, NEW k \in 1..Len(sub),
           NEW r, r = <<sub[k].index, sub[k].off, sub[k].size>>
    PROVE  /\ Piece(r) \in Spoken
           /\ Piece(r).type = "piece"
           /\ Piece(r).nums[1] = sub[k].index /\ Piece(r).nums[2] = sub[k].off
           /\ Len(Piece(r).data) = sub[k].size
           /\ \A i \in 1..sub[k].size : Piece(r).data[i] = Byte(Position(k) + i - 1)
  <1> DEFINE x == sub[k].index  y == sub[k].off  z == sub[k].size
             d == [i \in 1..z |-> Byte(x * q.plen + y + i - 1)]
  <1>1. /\ Uint32(x) /\ Uint32(y) /\ 9 + z < Lookalike
        /\ x \in Nat /\ y \in Nat /\ z \in Nat /\ Position(k) \in Nat
    BY BlockFits DEF Block
  <1>2. Position(k) = x * q.plen + y  BY DEF Position
  <1>3. Piece(r) = Message("piece", <<x, y>>, d)  BY DEF Piece
  <1>4. \A i \in 1..z : Position(k) + i - 1 \in Nat  BY <1>1
  <1>5. \A i \in 1..z : d[i] = Byte(Position(k) + i - 1)  BY <1>2
  <1>6. d \in [1..z -> Octet]
    <2>1. \A i \in 1..z : Byte(Position(k) + i - 1) \in Octet
      BY <1>4, BytesAreOctets
    <2>2. d = [i \in 1..z |-> d[i]]  OBVIOUS
    <2> HIDE DEF d, z
    <2> QED  BY <1>5, <2>1, <2>2
  <1> HIDE DEF d, x, y, z
  <1>7. d \in Seq(Octet) /\ Len(d) = z  BY <1>1, <1>6, FunctionIsSequence
  <1>8. Piece(r) \in Spoken  BY <1>1, <1>3, <1>7, PieceIsSpoken
  <1>9. /\ Piece(r).type = "piece" /\ Piece(r).data = d
        /\ Piece(r).nums[1] = x /\ Piece(r).nums[2] = y
    BY <1>3 DEF Message
  <1> QED  BY <1>5, <1>7, <1>8, <1>9 DEF x, y, z

\* The peer is asked for blocks of the read.
LEMMA RequestsAreWanted ==
    ASSUME IInv, q \in Streamed, NEW h
    PROVE  Requests(h) \subseteq Wanted
  <1> SUFFICES ASSUME NEW k \in 1..Len(sub)
      PROVE  unpack(Str(Message("request", <<sub[k].index, sub[k].off, sub[k].size>>,
                                <<>>))).msgs[1].nums \in Wanted
    BY DEF Requests
  <1> DEFINE ns == <<sub[k].index, sub[k].off, sub[k].size>>
             m == Message("request", ns, <<>>)
  <1>1. Uint32(sub[k].index) /\ Uint32(sub[k].off) /\ Uint32(sub[k].size)
    BY BlockFits
  <1>2. m \in Spoken  BY <1>1, RequestIsSpoken
  <1>3. m.type = "request" /\ m.nums = ns  BY DEF Message
  <1>4. ns \in Wanted  BY DEF Wanted
  <1> HIDE DEF m, ns
  <1>5. Sent(m) = Str(m) /\ Understood(m) = m  BY <1>3 DEF Sent, Understood
  <1>6. unpack(Sent(m)).msgs[1] = Understood(m)  BY <1>2, UnpackOne
  <1>7. unpack(Str(m)).msgs[1].nums \in Wanted  BY <1>3, <1>4, <1>5, <1>6
  <1> QED  BY <1>7 DEF m, ns

\* Whatever the peer said, the buffer stays what it has to be.
LEMMA HandledKeeps ==
    ASSUME IInv, q \in Streamed, NEW h \in Works, NEW m \in Spoken,
           m.type = "piece" => \E r \in Wanted : m = Piece(r)
    PROVE  Handled(h, Understood(m)) \in Works
  <1>1. Understood(m).type = m.type
    <2>1. m \in [type : Kinds, nums : Seq(Nat), data : Seq(Octet)]  BY DEF Spoken
    <2> QED  BY <2>1 DEF Understood
  <1>2. PICK a, d, f : h = [asked |-> a, done |-> d, buf |-> f]
                       /\ a \subseteq Wanted /\ d \subseteq 1..Len(sub)
                       /\ f \in [0..(size - 1) -> Nat] /\ Stores(d, f)
    BY DEF Works
  <1>3. CASE m.type = "unchoke"
    <2>1. Handled(h, Understood(m)) = [h EXCEPT !.asked = @ \union Requests(h)]
      BY <1>1, <1>3 DEF Handled
    <2> DEFINE R == a \union Requests(h)
    <2>2. R \subseteq Wanted  BY <1>2, RequestsAreWanted
    <2>3. [h EXCEPT !.asked = @ \union Requests(h)] = [asked |-> R, done |-> d, buf |-> f]
      <3>1. h = [asked |-> a, done |-> d, buf |-> f]  BY <1>2
      <3> DEFINE S == Requests(h)
      <3> HIDE DEF S
      <3>2. [h EXCEPT !.asked = @ \union S] = [asked |-> a \union S, done |-> d, buf |-> f]
        BY ONLY <3>1
      <3> QED  BY <3>2 DEF S
    <2> HIDE DEF R
    <2>4. [asked |-> R, done |-> d, buf |-> f] \in Works  BY <1>2, <2>2 DEF Works
    <2> QED  BY <2>1, <2>3, <2>4
  <1>4. CASE m.type = "piece"
    <2>1. PICK r \in Wanted : m = Piece(r)  BY <1>4
    <2>2. PICK k \in 1..Len(sub) : r = <<sub[k].index, sub[k].off, sub[k].size>>
      BY DEF Wanted
    <2>3. Understood(m) = m /\ Handled(h, m) = Stored(h, m)
      BY <1>4 DEF Understood, Handled
    <2>4. /\ m.nums[1] = sub[k].index /\ m.nums[2] = sub[k].off
          /\ Len(m.data) = sub[k].size
          /\ \A i \in 1..sub[k].size : m.data[i] = Byte(Position(k) + i - 1)
      BY <2>1, <2>2, PieceOfBlock
    <2>5. Found(m.nums[1], m.nums[2], Len(m.data)) = {k}
      BY <2>4, FoundIsBlock
    <2> DEFINE g == [i \in DOMAIN f |->
                       IF \E j \in {k} : i \in sub[j].ptr .. (sub[j].ptr + sub[j].size - 1)
                       THEN m.data[i - sub[CHOOSE j \in {k} : TRUE].ptr + 1] ELSE f[i]]
    <2>6. Stored(h, m) = [asked |-> a, done |-> d \union {k}, buf |-> g]
      <3>1. h = [asked |-> a, done |-> d, buf |-> f]  BY <1>2
      <3>2. Stored(h, m) =
              [h EXCEPT !.done = @ \union {k},
                        !.buf = [i \in DOMAIN @ |->
                          IF \E j \in {k} : i \in sub[j].ptr .. (sub[j].ptr + sub[j].size - 1)
                          THEN m.data[i - sub[CHOOSE j \in {k} : TRUE].ptr + 1] ELSE @[i]]]
        BY <2>5 DEF Stored
      <3>3. h.asked = a /\ h.done = d /\ h.buf = f  BY <3>1
      <3>4. Stored(h, m) = [h EXCEPT !.done = d \union {k}, !.buf = g]
        BY <3>2, <3>3
      <3> HIDE DEF g
      <3> QED  BY <3>1, <3>4
    <2>7. (CHOOSE j \in {k} : TRUE) = k  OBVIOUS
    <2>8. DOMAIN f = 0..(size - 1)  BY <1>2
    <2>9. /\ sub[k] \in Block /\ Position(k) \in Nat /\ sub[k].ptr = Position(k) - beg
          /\ beg \in Nat /\ sub[k].ptr \in Nat /\ sub[k].size \in Nat
      <3>1. sub[k] \in Block /\ Position(k) \in Nat  BY BlockFits
      <3>2. sub[k].ptr = Position(k) - beg  BY DEF IInv, Chained
      <3>3. beg \in Nat  BY DEF IInv, BlockTypes
      <3> QED  BY <3>1, <3>2, <3>3 DEF Block
    <2>10. \A i \in 0..(size - 1) :
             g[i] = IF i \in Place(k) THEN m.data[i - sub[k].ptr + 1] ELSE f[i]
      BY <2>7, <2>8 DEF Place
    <2>11. g = [i \in 0..(size - 1) |-> g[i]]  BY <2>8
    <2> HIDE DEF g
    <2>12. ASSUME NEW i \in 0..(size - 1), i \in Place(k)
           PROVE  g[i] = Byte(beg + i) /\ beg + i \in Nat
      <3> DEFINE x == sub[k].ptr  z == sub[k].size  n == i - x + 1
      <3>1. i \in x .. (x + z - 1)  BY <2>12 DEF Place
      <3>2. x \in Nat /\ z \in Nat /\ x = Position(k) - beg  BY <2>9
      <3> HIDE DEF x, z
      <3>3. n \in 1..z /\ Position(k) + n - 1 = beg + i /\ beg + i \in Nat
        <4> DEFINE p == Position(k)
        <4>1. p \in Nat /\ beg \in Nat /\ x = p - beg  BY <2>9, <3>2
        <4> HIDE DEF p
        <4>2. i \in Int /\ i >= x /\ i <= x + z - 1  BY <3>1, <3>2
        <4>3. n \in 1..z /\ p + n - 1 = beg + i /\ beg + i \in Nat
          BY <3>2, <4>1, <4>2
        <4> QED  BY <4>3 DEF p
      <3> HIDE DEF n
      <3>4. m.data[n] = Byte(Position(k) + n - 1)  BY <2>4, <3>3 DEF z
      <3>5. g[i] = m.data[n]  BY <2>10, <2>12 DEF n, x
      <3> QED  BY <3>3, <3>4, <3>5
    <2>13. g \in [0..(size - 1) -> Nat]
      <3>1. ASSUME NEW i \in 0..(size - 1) PROVE g[i] \in Nat
        <4>1. CASE i \in Place(k)  BY <2>12, <4>1, BytesAreOctets
        <4>2. CASE i \notin Place(k)  BY <1>2, <2>10, <4>2
        <4> QED  BY <4>1, <4>2
      <3> QED  BY <2>11, <3>1
    <2>14. Stores(d \union {k}, g)
      <3>1. ASSUME NEW i \in 0..(size - 1)
            PROVE  g[i] = IF \E j \in d \union {k} : i \in Place(j)
                          THEN Byte(beg + i) ELSE Nothing
        <4>1. CASE i \in Place(k)  BY <2>12, <4>1
        <4>2. CASE i \notin Place(k)
          <5>1. g[i] = f[i]  BY <2>10, <4>2
          <5>2. f[i] = IF \E j \in d : i \in Place(j) THEN Byte(beg + i) ELSE Nothing
            BY <1>2 DEF Stores
          <5>3. (\E j \in d \union {k} : i \in Place(j)) <=> (\E j \in d : i \in Place(j))
            BY <4>2
          <5> QED  BY <5>1, <5>2, <5>3
        <4> QED  BY <4>1, <4>2
      <3> QED  BY <3>1 DEF Stores
    <2>15. d \union {k} \subseteq 1..Len(sub)  BY <1>2
    <2>16. [asked |-> a, done |-> d \union {k}, buf |-> g] \in Works
      BY <1>2, <2>13, <2>14, <2>15 DEF Works
    <2> QED  BY <2>3, <2>6, <2>16
  <1>5. CASE m.type \notin {"unchoke", "piece"}
    <2>1. Handled(h, Understood(m)) = h  BY <1>1, <1>5 DEF Handled
    <2> QED  BY <2>1
  <1> QED  BY <1>3, <1>4, <1>5

\* The states of the handler on the messages c, from a on.
AllHandled(a, c) ==
    CHOOSE h : h = [k \in 0..Len(c) |-> IF k = 0 THEN a ELSE Handled(h[k - 1], c[k])]

\* What the peer said so far of the read's blocks.
Answers(ms) ==
    \A k \in 1..Len(ms) : ms[k].type = "piece" => \E r \in Wanted : ms[k] = Piece(r)

Understandable == {Understood(m) : m \in Spoken}

LEMMA ReadingIs ==
    ASSUME NEW ms \in Seq(Spoken), NEW n \in 0..Len(ms)
    PROVE  /\ Reading(ms, n) \in Seq(Understandable) /\ Len(Reading(ms, n)) = n
           /\ \A k \in 1..n : Reading(ms, n)[k] = Understood(ms[k]) /\ ms[k] \in Spoken
  <1> DEFINE c == Reading(ms, n)
  <1>1. n \in Nat /\ \A k \in 1..n : k \in 1..Len(ms)  OBVIOUS
  <1>2. \A k \in 1..n : ms[k] \in Spoken  BY <1>1
  <1>3. \A k \in 1..n : c[k] = Understood(ms[k])  BY DEF Reading
  <1>4. c = [k \in 1..n |-> c[k]]  BY DEF Reading
  <1> HIDE DEF c
  <1>5. \A k \in 1..n : c[k] \in Understandable  BY <1>2, <1>3 DEF Understandable
  <1>6. c \in [1..n -> Understandable]  BY <1>4, <1>5
  <1>7. c \in Seq(Understandable) /\ Len(c) = n  BY <1>1, <1>6, FunctionIsSequence
  <1> QED  BY <1>2, <1>3, <1>7 DEF c

LEMMA AllHandledKeeps ==
    ASSUME IInv, q \in Streamed, NEW a \in Works, NEW ms \in Seq(Spoken), Answers(ms),
           NEW n \in 0..Len(ms)
    PROVE  AllHandled(a, Reading(ms, n))[n] \in Works
  <1> DEFINE c == Reading(ms, n)
             step == [p \in (1..n) \X Works |-> Handled(p[2], c[p[1]])]
             g == AllHandled(a, c)
  <1>1. /\ Len(c) = n /\ n \in Nat
        /\ \A k \in 1..n : c[k] = Understood(ms[k]) /\ ms[k] \in Spoken
    BY ReadingIs
  <1>2. \A k \in 1..n : k \in 1..Len(ms)  OBVIOUS
  <1> HIDE DEF c
  <1>3. \A k \in 1..n, x \in Works : step[<<k, x>>] = Handled(x, c[k])  OBVIOUS
  <1> HIDE DEF step
  <1>4. ASSUME NEW k \in 1..n, NEW x \in Works PROVE Handled(x, c[k]) \in Works
    <2>1. ms[k].type = "piece" => \E r \in Wanted : ms[k] = Piece(r)
      BY <1>2 DEF Answers
    <2>2. c[k] = Understood(ms[k]) /\ ms[k] \in Spoken  BY <1>1
    <2> QED  BY <2>1, <2>2, HandledKeeps
  <1>5. \A k \in 1..n, x \in Works : step[<<k, x>>] \in Works  BY <1>3, <1>4
  <1>6. PICK f \in [0..n -> Works] : Follows(f, a, n, step)
    <2>1. a \in Works /\ n \in Nat  BY <1>1
    <2> QED  BY ONLY <2>1, <1>5, Stepwise
  <1>7. \A k \in 0..n : f[k] = IF k = 0 THEN a ELSE Handled(f[k - 1], c[k])
    <2> TAKE k \in 0..n
    <2>1. f[k] = IF k = 0 THEN a ELSE step[<<k, f[k - 1]>>]  BY <1>6 DEF Follows
    <2>2. CASE k = 0  BY <2>1, <2>2
    <2>3. CASE k # 0
      <3>1. k \in 1..n /\ k - 1 \in 0..n  BY <1>1, <2>3
      <3>2. f[k - 1] \in Works  BY <3>1
      <3> QED  BY <1>3, <2>1, <2>3, <3>1, <3>2
    <2> QED  BY <2>2, <2>3
  <1>8. f = [k \in 0..n |-> f[k]]  OBVIOUS
  <1>9. f = [k \in 0..n |-> IF k = 0 THEN a ELSE Handled(f[k - 1], c[k])]
    BY <1>7, <1>8
  <1>10. f = [k \in 0..Len(c) |-> IF k = 0 THEN a ELSE Handled(f[k - 1], c[k])]
    BY <1>1, <1>9
  <1>11. g = [k \in 0..Len(c) |-> IF k = 0 THEN a ELSE Handled(g[k - 1], c[k])]
    BY <1>10 DEF AllHandled
  <1> HIDE DEF g
  <1>12. g = [k \in 0..n |-> IF k = 0 THEN a ELSE Handled(g[k - 1], c[k])]
    BY <1>1, <1>11
  <1>13. \A k \in 0..n : g[k] = IF k = 0 THEN a ELSE Handled(g[k - 1], c[k])
    BY <1>12
  <1> DEFINE Good == {k \in Nat : k <= n => g[k] \in Works}
  <1>14. 0 \in Good  BY <1>1, <1>13
  <1>15. ASSUME NEW k \in Nat, k \in Good PROVE k + 1 \in Good
    <2> SUFFICES ASSUME k + 1 <= n PROVE g[k + 1] \in Works  OBVIOUS
    <2>1. k + 1 \in 1..n /\ k + 1 \in 0..n /\ (k + 1) - 1 = k /\ k + 1 # 0 /\ k <= n
      BY <1>1
    <2>2. g[k] \in Works  BY <1>15, <2>1
    <2>3. g[k + 1] = Handled(g[k], c[k + 1])  BY <1>13, <2>1
    <2> QED  BY <1>4, <2>1, <2>2, <2>3
  <1>16. n \in Good
    <2> HIDE DEF Good
    <2> QED  BY <1>1, <1>14, <1>15, AllNaturals
  <1>17. g[n] \in Works  BY <1>1, <1>16
  <1> QED  BY <1>17 DEF g, c

----------------------------------------------------------------------------
(* Cutting sequences.                                                      *)

LEMMA LeftOfLeft ==
    ASSUME NEW S, NEW s \in Seq(S), NEW m \in 0..Len(s), NEW n \in 0..(Len(s) - m)
    PROVE  Left(Left(s, m), n) = Left(s, m + n)
  <1> DEFINE l == Left(s, m)  x == Left(l, n)  y == Left(s, m + n)  L == Len(s)
  <1>1. L \in Nat /\ m \in 0..L /\ m + n \in 0..L  OBVIOUS
  <1>2. /\ l \in Seq(S) /\ Len(l) = L - m
        /\ \A i \in 1..(L - m) : l[i] = s[m + i]
    BY LeftOver
  <1>3. /\ y \in Seq(S) /\ Len(y) = L - (m + n)
        /\ \A i \in 1..(L - (m + n)) : y[i] = s[(m + n) + i]
    <2> DEFINE k == m + n
    <2>1. k \in 0..Len(s)  BY <1>1
    <2> HIDE DEF k
    <2>2. /\ Left(s, k) \in Seq(S) /\ Len(Left(s, k)) = Len(s) - k
          /\ \A i \in 1..(Len(s) - k) : Left(s, k)[i] = s[k + i]
      BY <2>1, LeftOver
    <2> QED  BY <2>2 DEF k
  <1> HIDE DEF l, y, L
  <1>4. n \in 0..Len(l)
    <2>1. n \in 0..(L - m)  BY DEF L
    <2> QED  BY <1>2, <2>1
  <1>5. /\ x \in Seq(S) /\ Len(x) = Len(l) - n
        /\ \A i \in 1..(Len(l) - n) : x[i] = l[n + i]
    BY <1>2, <1>4, LeftOver
  <1> HIDE DEF x
  <1>6. Len(x) = Len(y)  BY <1>1, <1>2, <1>3, <1>5
  <1>7. ASSUME NEW i \in 1..Len(x) PROVE x[i] = y[i]
    <2>1. i \in 1..(Len(l) - n) /\ n + i \in 1..(L - m) /\ m + (n + i) = (m + n) + i
          /\ i \in 1..(L - (m + n))
      BY <1>1, <1>2, <1>4, <1>5
    <2>2. x[i] = l[n + i] /\ l[n + i] = s[m + (n + i)] /\ y[i] = s[(m + n) + i]
      BY <1>2, <1>3, <1>5, <2>1
    <2> QED  BY <2>1, <2>2
  <1>8. x \in Seq(S) /\ y \in Seq(S)  BY <1>3, <1>5
  <1>9. x = y  BY <1>6, <1>7, <1>8, SameSequence
  <1> QED  BY <1>9 DEF x, y, l

\* Messages read in two goes are those read in one.
LEMMA ReadingGoesOn ==
    ASSUME NEW ms \in Seq(Spoken), NEW n \in 0..Len(ms), NEW h \in 0..(Len(ms) - n)
    PROVE  Reading(ms, n) \o Reading(Left(ms, n), h) = Reading(ms, n + h)
  <1> DEFINE U == Understandable
             l == Left(ms, n)  x == Reading(ms, n)  y == Reading(l, h)
             z == Reading(ms, n + h)  w == x \o y
  <1>1. n \in Nat /\ h \in Nat /\ n + h \in 0..Len(ms)  OBVIOUS
  <1>2. /\ l \in Seq(Spoken) /\ Len(l) = Len(ms) - n
        /\ \A i \in 1..(Len(ms) - n) : l[i] = ms[n + i]
    BY LeftOver
  <1> HIDE DEF l
  <1>3. x \in Seq(U) /\ Len(x) = n /\ \A k \in 1..n : x[k] = Understood(ms[k])
    BY ReadingIs
  <1>4. y \in Seq(U) /\ Len(y) = h /\ \A k \in 1..h : y[k] = Understood(l[k])
    <2>1. h \in 0..Len(l)  BY <1>2
    <2> QED  BY <1>2, <2>1, ReadingIs
  <1>5. z \in Seq(U) /\ Len(z) = n + h
        /\ \A k \in 1..(n + h) : z[k] = Understood(ms[k])
    <2> DEFINE k == n + h
    <2>1. k \in 0..Len(ms)  BY <1>1
    <2> HIDE DEF k
    <2>2. Reading(ms, k) \in Seq(U) /\ Len(Reading(ms, k)) = k
          /\ \A j \in 1..k : Reading(ms, k)[j] = Understood(ms[j])
      BY <2>1, ReadingIs
    <2> QED  BY <2>2 DEF k
  <1> HIDE DEF U, x, y, z
  <1>6. /\ w \in Seq(U) /\ Len(w) = Len(x) + Len(y)
        /\ \A i \in 1..Len(x) : w[i] = x[i]
        /\ \A i \in 1..Len(y) : w[Len(x) + i] = y[i]
    <2>1. x \in Seq(U) /\ y \in Seq(U)  BY <1>3, <1>4
    <2> QED  BY <2>1, Joined
  <1> HIDE DEF w
  <1>7. Len(w) = n + h  BY <1>3, <1>4, <1>6
  <1>8. ASSUME NEW i \in 1..(n + h) PROVE w[i] = z[i]
    <2>1. CASE i <= n
      <3>1. i \in 1..n  BY <1>1, <2>1
      <3> QED  BY <1>3, <1>5, <1>6, <3>1
    <2>2. CASE i > n
      <3>1. i - n \in 1..h /\ n + (i - n) = i /\ i - n \in 1..(Len(ms) - n)
        BY <1>1, <2>2
      <3>2. w[n + (i - n)] = y[i - n]  BY <1>3, <1>4, <1>6, <3>1
      <3>3. y[i - n] = Understood(l[i - n])  BY <1>4, <3>1
      <3>4. l[i - n] = ms[n + (i - n)]  BY <1>2, <3>1
      <3> QED  BY <1>5, <3>1, <3>2, <3>3, <3>4
    <2> QED  BY <1>1, <2>1, <2>2
  <1>9. Len(w) = Len(z) /\ \A i \in 1..Len(w) : w[i] = z[i]  BY <1>5, <1>7, <1>8
  <1>10. w \in Seq(U) /\ z \in Seq(U)  BY <1>5, <1>6
  <1>11. w = z  BY <1>9, <1>10, SameSequence
  <1> QED  BY <1>11 DEF w, x, y, z, l

\* The input x with n bytes of w.
Come(x, w, n) == x \o SubSeq(w, 1, n)

\* The bytes that come are the next of the stream, those that are left over go
\* before what is still to come.
LEMMA StreamGoesOn ==
    ASSUME NEW x \in Seq(Nat), NEW w \in Seq(Nat), NEW n \in 0..Len(w),
           NEW a \in 0..Len(Come(x, w, n))
    PROVE  /\ Come(x, w, n) \in Seq(Nat) /\ Len(Come(x, w, n)) = Len(x) + n
           /\ Begins(Come(x, w, n), x \o w)
           /\ Left(Come(x, w, n), a) \in Seq(Nat) /\ Left(w, n) \in Seq(Nat)
           /\ Left(Come(x, w, n), a) \o Left(w, n) = Left(x \o w, a)
  <1> DEFINE p == SubSeq(w, 1, n)  s == Come(x, w, n)  t == x \o w  X == Len(x)  W == Len(w)
             u == Left(s, a)  v == Left(w, n)  y == Left(t, a)  z == u \o v
  <1>1. X \in Nat /\ W \in Nat /\ n \in Nat /\ n <= W  OBVIOUS
  <1>2. p \in Seq(Nat) /\ Len(p) = n /\ \A i \in 1..n : p[i] = w[i]
    <2>1. /\ SubSeq(w, 0 + 1, n) \in Seq(Nat) /\ Len(SubSeq(w, 0 + 1, n)) = n - 0
          /\ \A i \in 1..(n - 0) : SubSeq(w, 0 + 1, n)[i] = w[0 + i]
      BY <1>1, Part
    <2>2. 0 + 1 = 1 /\ n - 0 = n /\ \A i \in 1..n : 0 + i = i  BY <1>1
    <2> QED  BY <2>1, <2>2
  <1> HIDE DEF p
  <1>3. /\ s \in Seq(Nat) /\ Len(s) = X + n
        /\ \A i \in 1..X : s[i] = x[i]
        /\ \A i \in 1..n : s[X + i] = w[i]
    <2>1. s = x \o p  BY DEF p, Come
    <2>2. /\ x \o p \in Seq(Nat) /\ Len(x \o p) = Len(x) + Len(p)
          /\ \A i \in 1..Len(x) : (x \o p)[i] = x[i]
          /\ \A i \in 1..Len(p) : (x \o p)[Len(x) + i] = p[i]
      <3>1. p \in Seq(Nat)  BY <1>2
      <3> QED  BY ONLY x \in Seq(Nat), <3>1, Joined
    <2> QED  BY <1>2, <2>1, <2>2
  <1>4. /\ t \in Seq(Nat) /\ Len(t) = X + W
        /\ \A i \in 1..X : t[i] = x[i]
        /\ \A i \in 1..W : t[X + i] = w[i]
    BY Joined
  <1> HIDE DEF X, W, t, s
  <1>5. ASSUME NEW i \in 1..(X + n) PROVE s[i] = t[i]
    <2>1. CASE i <= X
      <3>1. i \in 1..X  BY <1>1, <2>1
      <3> QED  BY <1>3, <1>4, <3>1
    <2>2. CASE i > X
      <3>1. i - X \in 1..n /\ i - X \in 1..W /\ X + (i - X) = i  BY <1>1, <2>2
      <3>2. s[X + (i - X)] = w[i - X] /\ t[X + (i - X)] = w[i - X]
        BY <1>3, <1>4, <3>1
      <3> QED  BY <3>1, <3>2
    <2>3. i <= X \/ i > X  BY ONLY <1>1, i \in 1..(X + n)
    <2> QED  BY ONLY <2>1, <2>2, <2>3
  <1>6. Begins(s, t)
    <2>1. Len(s) <= Len(t)  BY <1>1, <1>3, <1>4
    <2> QED  BY <1>3, <1>5, <2>1 DEF Begins
  <1>7. a \in 0..(X + n) /\ a \in 0..Len(t)  BY <1>1, <1>3, <1>4 DEF s
  <1>8. /\ u \in Seq(Nat) /\ Len(u) = (X + n) - a
        /\ \A i \in 1..((X + n) - a) : u[i] = s[a + i]
    <2>1. s \in Seq(Nat) /\ a \in 0..Len(s)  BY <1>3, <1>7
    <2>2. /\ Left(s, a) \in Seq(Nat) /\ Len(Left(s, a)) = Len(s) - a
          /\ \A i \in 1..(Len(s) - a) : Left(s, a)[i] = s[a + i]
      BY <2>1, LeftIs
    <2> QED  BY <1>3, <2>2
  <1>9. /\ v \in Seq(Nat) /\ Len(v) = W - n
        /\ \A i \in 1..(W - n) : v[i] = w[n + i]
    BY LeftIs DEF W
  <1>10. /\ y \in Seq(Nat) /\ Len(y) = (X + W) - a
         /\ \A i \in 1..((X + W) - a) : y[i] = t[a + i]
    BY <1>4, <1>7, LeftIs
  <1> HIDE DEF u, v, y
  <1>11. /\ z \in Seq(Nat) /\ Len(z) = Len(u) + Len(v)
         /\ \A i \in 1..Len(u) : z[i] = u[i]
         /\ \A i \in 1..Len(v) : z[Len(u) + i] = v[i]
    <2>1. u \in Seq(Nat) /\ v \in Seq(Nat)  BY <1>8, <1>9
    <2> QED  BY <2>1, Joined
  <1> HIDE DEF z
  <1>12. Len(z) = (X + W) - a  BY <1>1, <1>7, <1>8, <1>9, <1>11
  <1>13. ASSUME NEW i \in 1..((X + W) - a) PROVE z[i] = y[i]
    <2>1. CASE i <= (X + n) - a
      <3>1. i \in 1..((X + n) - a) /\ a + i \in 1..(X + n)  BY <1>1, <1>7, <2>1
      <3>2. z[i] = u[i] /\ u[i] = s[a + i] /\ s[a + i] = t[a + i]
        BY <1>5, <1>8, <1>11, <3>1
      <3> QED  BY <1>10, <3>2
    <2>2. CASE i > (X + n) - a
      <3> DEFINE j == i - ((X + n) - a)
      <3>1. j \in 1..(W - n) /\ ((X + n) - a) + j = i /\ X + (n + j) = a + i
            /\ n + j \in 1..W
        BY <1>1, <1>7, <2>2
      <3> HIDE DEF j
      <3>2. z[i] = v[j]  BY <1>8, <1>9, <1>11, <3>1
      <3>3. v[j] = w[n + j] /\ t[X + (n + j)] = w[n + j]  BY <1>4, <1>9, <3>1
      <3> QED  BY <1>10, <3>1, <3>2, <3>3
    <2> QED  BY <1>1, <1>7, <2>1, <2>2
  <1>14. Len(z) = Len(y) /\ \A i \in 1..Len(z) : z[i] = y[i]
    BY <1>10, <1>12, <1>13
  <1>15. z = y  BY <1>10, <1>11, <1>14, SameSequence
  <1> QED  BY <1>3, <1>6, <1>8, <1>9, <1>15 DEF z, y, u, v, t, s, X, W

----------------------------------------------------------------------------
(* The stream.                                                             *)

\* Of the messages ms the first have been heard as hd; those behind them are
\* the input x, which has not all of the next one, and what is still to come.
OnItsWay(ms, x, w, hd) ==
    \E n \in 0..Len(ms) :
        /\ hd = Reading(ms, n)
        /\ \E at : Laid(Left(ms, n), x \o w, at)
        /\ n < Len(ms) => Len(x) < Len(Sent(ms[n + 1]))

LEMMA NothingOnItsWay == OnItsWay(<<>>, <<>>, <<>>, <<>>)
  <1> DEFINE e == <<>>
             at == [k \in 0..0 |-> 0]
  <1>1. Len(e) = 0 /\ e \o e = e /\ e \in Seq(Spoken)  OBVIOUS
  <1>2. Left(e, 0) = e  BY DEF Left
  <1>3. Reading(e, 0) = e  BY DEF Reading
  <1> HIDE DEF e
  <1>4. at \in [0..Len(e) -> Nat] /\ at[0] = 0 /\ at[Len(e)] = 0  BY <1>1
  <1>5. \A k \in 1..Len(e) : FALSE  BY <1>1
  <1> HIDE DEF at
  <1>6. Laid(e, e, at)  BY <1>1, <1>4, <1>5 DEF Laid, Places
  <1>7. 0 \in 0..Len(e) /\ ~(0 < Len(e))  BY <1>1
  <1>8. OnItsWay(e, e, e, e)  BY <1>1, <1>2, <1>3, <1>6, <1>7 DEF OnItsWay
  <1> QED  BY <1>8 DEF e

LEMMA Associative ==
    ASSUME NEW x \in Seq(Nat), NEW y \in Seq(Nat), NEW z \in Seq(Nat)
    PROVE  x \o (y \o z) = (x \o y) \o z
  OBVIOUS

LEMMA MoreOnItsWay ==
    ASSUME NEW ms \in Seq(Spoken), NEW x \in Seq(Nat), NEW w \in Seq(Nat), NEW hd,
           OnItsWay(ms, x, w, hd), NEW m \in Spoken
    PROVE  /\ Append(ms, m) \in Seq(Spoken) /\ w \o Sent(m) \in Seq(Nat)
           /\ OnItsWay(Append(ms, m), x, w \o Sent(m), hd)
  <1> DEFINE N == Len(ms)  l == Append(ms, m)  v == Sent(m)  t == x \o w
  <1>1. N \in Nat /\ l \in Seq(Spoken) /\ Len(l) = N + 1 /\ l[N + 1] = m
        /\ \A k \in 1..N : l[k] = ms[k]
    OBVIOUS
  <1>2. v \in Seq(Nat) /\ Len(v) \in Nat /\ Len(v) >= 4  BY SentBytes DEF Spoken
  <1> HIDE DEF v
  <1>3. t \in Seq(Nat) /\ Len(t) = Len(x) + Len(w)  BY Joined
  <1>4. w \o v \in Seq(Nat)  BY <1>2, Joined
  <1>5. x \o (w \o v) = t \o v  BY <1>2, Associative
  <1>6. PICK n \in 0..N : /\ hd = Reading(ms, n)
                          /\ \E at : Laid(Left(ms, n), t, at)
                          /\ n < N => Len(x) < Len(Sent(ms[n + 1]))
    BY DEF OnItsWay
  <1>7. PICK at : Laid(Left(ms, n), t, at)  BY <1>6
  <1> DEFINE r == Left(ms, n)
  <1>8. r \in Seq(Spoken) /\ Len(r) = N - n /\ \A i \in 1..(N - n) : r[i] = ms[n + i]
    BY LeftOver
  <1>9. Left(l, n) = Append(r, m)
    <2> DEFINE y == Left(l, n)  z == Append(r, m)
    <2>1. n \in 0..Len(l)  BY <1>1
    <2> HIDE DEF l
    <2>2. y \in Seq(Spoken) /\ Len(y) = N + 1 - n
          /\ \A i \in 1..(N + 1 - n) : y[i] = l[n + i]
      <3>1. l \in Seq(Spoken)  BY <1>1
      <3>2. /\ Left(l, n) \in Seq(Spoken) /\ Len(Left(l, n)) = Len(l) - n
            /\ \A i \in 1..(Len(l) - n) : Left(l, n)[i] = l[n + i]
        BY <2>1, <3>1, LeftOver
      <3>3. Len(l) = N + 1  BY <1>1
      <3> QED  BY <3>2, <3>3
    <2> HIDE DEF y, r
    <2>3. z \in Seq(Spoken) /\ Len(z) = Len(r) + 1 /\ z[Len(r) + 1] = m
          /\ \A i \in 1..Len(r) : z[i] = r[i]
      BY <1>8
    <2> HIDE DEF z, N
    <2>4. Len(y) = Len(z)  BY <1>1, <1>8, <2>2, <2>3
    <2>5. ASSUME NEW i \in 1..(N + 1 - n) PROVE y[i] = z[i]
      <3>1. CASE i = N + 1 - n
        <4>1. n + i = N + 1 /\ Len(r) + 1 = i  BY <1>1, <1>8, <3>1
        <4>2. y[i] = l[N + 1]  BY <2>2, <4>1
        <4>3. z[i] = m  BY <2>3, <4>1
        <4> QED  BY <1>1, <4>2, <4>3
      <3>2. CASE i # N + 1 - n
        <4>1. i \in 1..(N - n) /\ n + i \in 1..N /\ i \in 1..Len(r)
          BY <1>1, <1>8, <3>2
        <4>2. y[i] = l[n + i] /\ l[n + i] = ms[n + i]  BY <1>1, <2>2, <4>1
        <4>3. z[i] = r[i] /\ r[i] = ms[n + i]  BY <1>8, <2>3, <4>1
        <4> QED  BY <4>2, <4>3
      <3> QED  BY <3>1, <3>2
    <2>6. \A i \in 1..Len(y) : y[i] = z[i]  BY <2>2, <2>5
    <2>7. y = z  BY <2>2, <2>3, <2>4, <2>6, SameSequence
    <2> QED  BY <2>7 DEF y, z
  <1>10. Laid(r, t, at)  BY <1>7
  <1> HIDE DEF r, t
  <1>11. \E f : Laid(Append(r, m), t \o v, f)
    <2>1. r \in Seq(Spoken) /\ t \in Seq(Nat)  BY <1>3, <1>8
    <2> QED  BY <1>10, <2>1, LaidMore DEF v
  <1>12. \E f : Laid(Left(l, n), x \o (w \o v), f)  BY <1>5, <1>9, <1>11
  <1> HIDE DEF l
  <1>13. Reading(l, n) = Reading(ms, n)
    <2>1. \A k \in 1..n : l[k] = ms[k]  BY <1>1
    <2> QED  BY <2>1 DEF Reading
  <1>14. Len(x) < Len(Sent(l[n + 1]))
    <2>1. CASE n < N
      <3>1. n + 1 \in 1..N  BY <1>1, <2>1
      <3>2. l[n + 1] = ms[n + 1]  BY <1>1, <3>1
      <3> QED  BY <1>6, <2>1, <3>2
    <2>2. CASE n = N
      <3>1. Len(r) = 0  BY <1>1, <1>8, <2>2
      <3>2. Len(t) = 0  BY <1>10, <3>1 DEF Laid, Places
      <3>3. Len(x) \in Nat /\ Len(w) \in Nat  OBVIOUS
      <3>4. Len(x) = 0
        <4> DEFINE i == Len(x)  j == Len(w)
        <4>1. i \in Nat /\ j \in Nat /\ i + j = 0  BY <1>3, <3>2, <3>3
        <4> HIDE DEF i, j
        <4>2. i = 0  BY <4>1
        <4> QED  BY <4>2 DEF i
      <3>5. l[n + 1] = m  BY <1>1, <2>2
      <3> QED  BY <1>2, <3>4, <3>5 DEF v
    <2> QED  BY <1>1, <2>1, <2>2
  <1>15. n \in 0..Len(l)  BY <1>1
  <1>16. OnItsWay(l, x, w \o v, hd)
    <2> DEFINE u == w \o v
    <2>1. \E f : Laid(Left(l, n), x \o u, f)  BY <1>12
    <2>2. hd = Reading(l, n)  BY <1>6, <1>13
    <2> HIDE DEF u
    <2>3. OnItsWay(l, x, u, hd)  BY <1>14, <1>15, <2>1, <2>2 DEF OnItsWay
    <2> QED  BY <2>3 DEF u
  <1> QED  BY <1>1, <1>4, <1>16 DEF l, v

\* Some bytes come, and unpack() has its turn.
LEMMA ArrivesOnItsWay ==
    ASSUME NEW ms \in Seq(Spoken), NEW x \in Seq(Nat), NEW w \in Seq(Nat), NEW hd,
           OnItsWay(ms, x, w, hd), NEW n \in 0..Len(w),
           NEW s, s = Come(x, w, n)
    PROVE  /\ unpack(s).rest \in Seq(Nat) /\ Left(w, n) \in Seq(Nat)
           /\ OnItsWay(ms, unpack(s).rest, Left(w, n), hd \o unpack(s).msgs)
           /\ \E k \in 0..Len(ms) : \E h \in 0..Len(Left(ms, k)) :
                 unpack(s).msgs = Reading(Left(ms, k), h)
  <1> DEFINE N == Len(ms)  t == x \o w
  <1>1. N \in Nat  OBVIOUS
  <1>2. PICK k \in 0..N : /\ hd = Reading(ms, k)
                          /\ \E at : Laid(Left(ms, k), t, at)
                          /\ k < N => Len(x) < Len(Sent(ms[k + 1]))
    BY DEF OnItsWay
  <1>3. PICK at : Laid(Left(ms, k), t, at)  BY <1>2
  <1> DEFINE r == Left(ms, k)
  <1>4. r \in Seq(Spoken) /\ Len(r) = N - k /\ \A i \in 1..(N - k) : r[i] = ms[k + i]
    BY LeftOver
  <1>5. t \in Seq(Nat)  BY Joined
  <1>6. s \in Seq(Nat) /\ Begins(s, t)
    <2> DEFINE c == Come(x, w, n)
    <2>1. SubSeq(w, 1, n) \in Seq(Nat)
      <3>1. 0 \in Nat /\ n \in Nat /\ 0 <= n /\ n <= Len(w)  OBVIOUS
      <3>2. SubSeq(w, 0 + 1, n) \in Seq(Nat)  BY <3>1, Part
      <3> QED  BY <3>2
    <2>2. c \in Seq(Nat)
      <3> DEFINE p == SubSeq(w, 1, n)
      <3>1. p \in Seq(Nat)  BY <2>1
      <3> HIDE DEF p
      <3>2. x \o p \in Seq(Nat)  BY <3>1, Joined
      <3> QED  BY <3>2 DEF Come, p
    <2>3. 0 \in 0..Len(c)
      <3> HIDE DEF c
      <3> QED  BY <2>2
    <2>4. Begins(c, t)  BY <2>3, StreamGoesOn
    <2> QED  BY <2>2, <2>4
  <1>7. Laid(r, t, at)  BY <1>3
  <1> HIDE DEF r, t
  <1>8. PICK h \in 0..Len(r) :
          /\ at[h] <= Len(s) /\ (h < Len(r) => Len(s) < at[h + 1])
          /\ unpack(s).msgs = Reading(r, h)
          /\ unpack(s).rest = Left(s, at[h])
    <2>1. r \in Seq(Spoken)  BY <1>4
    <2>2. s \in Seq(Nat)  BY <1>6
    <2>3. Begins(s, t)  BY <1>6
    <2> QED  BY ONLY <2>1, <2>2, <2>3, <1>5, <1>7, UnpackStream
  <1> DEFINE a == at[h]  y == Left(s, a)  v == Left(w, n)
  <1>9. a \in 0..Len(t) /\ Laid(Left(r, h), Left(t, a), Shifted(at, h, Len(r)))
    BY <1>4, <1>5, <1>7, LaidRest
  <1>10. a \in 0..Len(s)
    <2>1. Len(s) \in Nat /\ Len(t) \in Nat  BY <1>5, <1>6
    <2> HIDE DEF a
    <2>2. a <= Len(s)  BY <1>8 DEF a
    <2> QED  BY <1>9, <2>1, <2>2
  <1>11. /\ Left(s, a) \in Seq(Nat) /\ Left(w, n) \in Seq(Nat)
         /\ Left(s, a) \o Left(w, n) = Left(x \o w, a)
    <2> HIDE DEF a
    <2>0. a \in 0..Len(Come(x, w, n))  BY <1>10
    <2>1. Left(Come(x, w, n), a) \in Seq(Nat) /\ Left(w, n) \in Seq(Nat)
      BY <2>0, StreamGoesOn
    <2>2. Left(Come(x, w, n), a) \o Left(w, n) = Left(x \o w, a)
      BY <2>0, StreamGoesOn
    <2> QED  BY <2>1, <2>2
  <1>12. h \in 0..(N - k) /\ k + h \in 0..N  BY <1>1, <1>4
  <1>13. Left(ms, k + h) = Left(r, h)  BY <1>12, LeftOfLeft DEF r, N
  <1>14. hd \o unpack(s).msgs = Reading(ms, k + h)
    <2>1. Reading(ms, k) \o Reading(r, h) = Reading(ms, k + h)
      BY <1>12, ReadingGoesOn DEF r, N
    <2> QED  BY <1>2, <1>8, <2>1
  <1>15. ASSUME k + h < N PROVE Len(y) < Len(Sent(ms[(k + h) + 1]))
    <2>1. h < Len(r) /\ h + 1 \in 1..(N - k) /\ k + (h + 1) = (k + h) + 1
          /\ (h + 1) - 1 = h /\ h + 1 \in 1..Len(r)
      BY <1>1, <1>4, <1>12, <1>15
    <2>2. r[h + 1] = ms[(k + h) + 1]  BY <1>4, <2>1
    <2>3. at[h + 1] = at[h] + Len(Sent(r[h + 1]))
      <3>1. \A j \in 1..Len(r) : at[j] = at[j - 1] + Len(Sent(r[j]))
        BY <1>7 DEF Laid, Places
      <3> QED  BY <2>1, <3>1
    <2>4. Len(s) < at[h + 1]  BY <1>8, <2>1
    <2>5. Len(y) = Len(s) - a
      <3> HIDE DEF a
      <3> QED  BY <1>6, <1>10, LeftIs
    <2>6. Len(Sent(r[h + 1])) \in Nat /\ Len(s) \in Nat
      <3>1. r[h + 1] \in Spoken  BY <1>4, <2>1
      <3> QED  BY <1>6, <3>1, SentBytes DEF Spoken
    <2> DEFINE z == Len(Sent(r[h + 1]))
    <2>7. z \in Nat /\ Len(s) < a + z /\ a \in 0..Len(s)
      BY <1>10, <2>3, <2>4, <2>6
    <2> HIDE DEF z, y, a
    <2>8. Len(y) < z  BY <2>5, <2>6, <2>7
    <2> QED  BY <2>2, <2>8 DEF z
  <1>16. \E f : Laid(Left(ms, k + h), y \o v, f)
    BY <1>9, <1>11, <1>13 DEF t
  <1>17. y \in Seq(Nat) /\ v \in Seq(Nat)  BY <1>11
  <1> HIDE DEF y, v, a
  <1>18. OnItsWay(ms, y, v, Reading(ms, k + h))
    <2> DEFINE j == k + h
    <2>1. j \in 0..Len(ms) /\ (j < Len(ms) => Len(y) < Len(Sent(ms[j + 1])))
      BY <1>12, <1>15 DEF N
    <2>2. \E f : Laid(Left(ms, j), y \o v, f)  BY <1>16
    <2> HIDE DEF j
    <2>3. OnItsWay(ms, y, v, Reading(ms, j))  BY <2>1, <2>2 DEF OnItsWay
    <2> QED  BY <2>3 DEF j
  <1>19. unpack(s).rest = y  BY <1>8 DEF y, a
  <1>20. OnItsWay(ms, unpack(s).rest, v, hd \o unpack(s).msgs)
    BY <1>14, <1>18, <1>19
  <1>21. \E j \in 0..Len(ms) : \E i \in 0..Len(Left(ms, j)) :
            unpack(s).msgs = Reading(Left(ms, j), i)
    BY <1>8 DEF r, N
  <1> QED  BY <1>17, <1>19, <1>20, <1>21 DEF v

----------------------------------------------------------------------------
(* The invariant.                                                          *)

StreamTypes ==
    /\ st \in {"none", "open", "closed"}
    /\ told \in Seq(Spoken) /\ wire \in Seq(Nat) /\ input \in Seq(Nat)

\* A connection begins with nothing, and a read that has one is cut into blocks.
Working ==
    /\ st = "none" => told = <<>> /\ asked = {} /\ done = {}
    /\ st # "none" => /\ pc = "made" /\ q \in Streamed
                      /\ Answers(told)
                      /\ [asked |-> asked, done |-> done, buf |-> buf] \in Works

Closes == st = "closed" => done = 1..Len(sub) /\ sub # <<>>

StreamInv ==
    IInv /\ StreamTypes /\ OnItsWay(told, input, wire, heard) /\ Working /\ Closes

LEMMA StreamInitially == StreamInit => StreamInv
  <1> SUFFICES ASSUME StreamInit PROVE StreamInv  OBVIOUS
  <1>1. IInv  BY Initially DEF StreamInit
  <1>2. /\ st = "none" /\ told = <<>> /\ wire = <<>> /\ input = <<>> /\ heard = <<>>
        /\ asked = {} /\ done = {}
    BY DEF StreamInit
  <1>3. OnItsWay(told, input, wire, heard)  BY <1>2, NothingOnItsWay
  <1>4. StreamTypes  BY <1>2 DEF StreamTypes
  <1>5. Working /\ Closes  BY <1>2 DEF Working, Closes
  <1> QED  BY <1>1, <1>3, <1>4, <1>5 DEF StreamInv

\* What is said of the blocks is about variables that stay.
LEMMA BlocksStay ==
    ASSUME UNCHANGED vars
    PROVE  /\ Works' = Works /\ \A ms : Answers(ms)' <=> Answers(ms)
  <1>1. /\ q' = q /\ beg' = beg /\ end' = end /\ size' = size /\ b' = b
        /\ sub' = sub /\ pc' = pc
    BY DEF vars
  <1>2. Wanted' = Wanted  BY <1>1 DEF Wanted
  <1>3. \A r : Piece(r)' = Piece(r)  BY <1>1 DEF Piece
  <1>4. \A d, f : Stores(d, f)' <=> Stores(d, f)  BY <1>1 DEF Stores, Place
  <1>5. Works' = Works  BY <1>1, <1>2, <1>4 DEF Works
  <1>6. \A ms : Answers(ms)' <=> Answers(ms)  BY <1>2, <1>3 DEF Answers
  <1> QED  BY <1>5, <1>6

\* While the read is cut into blocks there is no connection.
LEMMA StepBlocks ==
    ASSUME StreamInv, Next, UNCHANGED svars
    PROVE  StreamInv'
  <1>1. /\ st' = st /\ told' = told /\ wire' = wire /\ input' = input /\ heard' = heard
        /\ asked' = asked /\ done' = done /\ buf' = buf
    BY DEF svars
  <1>2. IInv'  BY NextKeeps DEF StreamInv
  <1>3. pc # "made"  BY MadeIsLast
  <1>4. st = "none"  BY <1>3 DEF StreamInv, Working
  <1>5. StreamTypes'  BY <1>1 DEF StreamInv, StreamTypes
  <1>6. OnItsWay(told, input, wire, heard)'  BY <1>1 DEF StreamInv
  <1>7. told = <<>> /\ asked = {} /\ done = {}  BY <1>4 DEF StreamInv, Working
  <1>8. Working' /\ Closes'  BY <1>1, <1>4, <1>7 DEF Working, Closes
  <1> QED  BY <1>2, <1>5, <1>6, <1>8 DEF StreamInv

LEMMA StepConnect ==
    ASSUME StreamInv, Connect
    PROVE  StreamInv'
  <1>1. /\ UNCHANGED vars /\ told' = told /\ wire' = wire /\ input' = input
        /\ heard' = heard /\ asked' = asked /\ done' = done
        /\ pc = "made" /\ q \in Streamed /\ st = "none" /\ st' = "open"
        /\ buf' = [i \in 0..(size - 1) |-> Nothing]
    BY DEF Connect
  <1>2. IInv'  BY <1>1, Stutters DEF StreamInv
  <1>3. StreamTypes'  BY <1>1 DEF StreamInv, StreamTypes
  <1>4. OnItsWay(told, input, wire, heard)'  BY <1>1 DEF StreamInv
  <1>5. told = <<>> /\ asked = {} /\ done = {}  BY <1>1 DEF StreamInv, Working
  <1>6. Stores({}, buf') /\ buf' \in [0..(size - 1) -> Nat]
    BY <1>1 DEF Stores, Nothing
  <1>7. [asked |-> {}, done |-> {}, buf |-> buf'] \in Works  BY <1>6 DEF Works
  <1>8. Answers(told)  BY <1>5 DEF Answers
  <1>9. Works' = Works /\ (Answers(told)' <=> Answers(told))
    <2>1. \A ms : Answers(ms)' <=> Answers(ms)  BY <1>1, BlocksStay
    <2>2. Works' = Works  BY <1>1, BlocksStay
    <2>3. Answers(told)' <=> Answers(told)  BY <1>1, <2>1 DEF Answers
    <2> QED  BY <2>2, <2>3
  <1>10. pc' = "made" /\ q' \in Streamed  BY <1>1 DEF vars
  <1>11. asked' = {} /\ done' = {}  BY <1>1, <1>5
  <1>12. Working'  BY <1>1, <1>7, <1>8, <1>9, <1>10, <1>11 DEF Working
  <1>13. Closes'  BY <1>1 DEF Closes
  <1> QED  BY <1>2, <1>3, <1>4, <1>12, <1>13 DEF StreamInv

LEMMA StepSay ==
    ASSUME StreamInv, Say
    PROVE  StreamInv'
  <1>1. /\ UNCHANGED vars /\ st = "open" /\ st' = st /\ input' = input /\ heard' = heard
        /\ asked' = asked /\ done' = done /\ buf' = buf
    BY DEF Say
  <1>2. PICK m \in Sayable : told' = Append(told, m) /\ wire' = wire \o Sent(m)
    BY DEF Say
  <1>3. IInv /\ IInv'  BY <1>1, Stutters DEF StreamInv
  <1>4. /\ pc = "made" /\ q \in Streamed /\ Answers(told)
        /\ [asked |-> asked, done |-> done, buf |-> buf] \in Works
    BY <1>1 DEF StreamInv, Working
  <1>5. asked \subseteq Wanted
    <2> DEFINE h == [asked |-> asked, done |-> done, buf |-> buf]
    <2>1. h.asked = asked  OBVIOUS
    <2> HIDE DEF h
    <2>2. h \in Works  BY <1>4 DEF h
    <2>3. h.asked \subseteq Wanted  BY <2>2 DEF Works
    <2> QED  BY <2>1, <2>3
  <1>6. m \in Spoken /\ (m.type = "piece" => \E r \in Wanted : m = Piece(r))
    <2>1. CASE told = <<>>
      <3>1. m = Message("handshake", <<>>, resize(<<7>>, 20))  BY <2>1 DEF Sayable
      <3>2. m.type = "handshake"  BY <3>1 DEF Message
      <3> QED  BY <3>1, <3>2, HandshakeIsSpoken
    <2>2. CASE m \in Extras  BY <2>2, WireAssumption, SpeakableIsSpoken
    <2>3. ASSUME NEW r \in asked, m = Piece(r)
          PROVE  m \in Spoken /\ (m.type = "piece" => \E i \in Wanted : m = Piece(i))
      <3>1. r \in Wanted  BY <1>5
      <3>2. PICK k \in 1..Len(sub) : r = <<sub[k].index, sub[k].off, sub[k].size>>
        BY <3>1 DEF Wanted
      <3>3. Piece(r) \in Spoken  BY <1>3, <1>4, <3>2, PieceOfBlock
      <3> QED  BY <2>3, <3>1, <3>3
    <2> QED  BY <2>1, <2>2, <2>3 DEF Sayable
  <1>7. told \in Seq(Spoken) /\ wire \in Seq(Nat) /\ input \in Seq(Nat)
        /\ OnItsWay(told, input, wire, heard)
    BY DEF StreamInv, StreamTypes
  <1>8. /\ Append(told, m) \in Seq(Spoken) /\ wire \o Sent(m) \in Seq(Nat)
        /\ OnItsWay(Append(told, m), input, wire \o Sent(m), heard)
    BY <1>6, <1>7, MoreOnItsWay
  <1>9. StreamTypes'  BY <1>1, <1>2, <1>7, <1>8 DEF StreamInv, StreamTypes
  <1>10. OnItsWay(told, input, wire, heard)'
    <2>1. OnItsWay(told', input', wire', heard')  BY <1>1, <1>2, <1>8
    <2> QED  BY <2>1
  <1>11. Answers(Append(told, m))
    <2>1. ASSUME NEW k \in 1..Len(Append(told, m)), Append(told, m)[k].type = "piece"
          PROVE  \E r \in Wanted : Append(told, m)[k] = Piece(r)
      <3>1. CASE k = Len(told) + 1
        <4>1. Append(told, m)[k] = m  BY <1>7, <3>1
        <4> QED  BY <1>6, <2>1, <4>1
      <3>2. CASE k # Len(told) + 1
        <4>1. k \in 1..Len(told) /\ Append(told, m)[k] = told[k]  BY <1>7, <3>2
        <4> QED  BY <1>4, <2>1, <4>1 DEF Answers
      <3> QED  BY <3>1, <3>2
    <2> QED  BY <2>1 DEF Answers
  <1>12. Answers(told)'
    <2>1. Wanted' = Wanted  BY <1>1 DEF vars, Wanted
    <2>2. \A r : Piece(r)' = Piece(r)  BY <1>1 DEF vars, Piece
    <2>3. Answers(told')  BY <1>2, <1>11
    <2> QED  BY <2>1, <2>2, <2>3 DEF Answers
  <1>13. Works' = Works  BY <1>1, BlocksStay
  <1>14. pc' = "made" /\ q' \in Streamed  BY <1>1, <1>4 DEF vars
  <1>15. Working'  BY <1>1, <1>4, <1>12, <1>13, <1>14 DEF Working
  <1>16. Closes'  BY <1>1 DEF Closes
  <1> QED  BY <1>3, <1>9, <1>10, <1>15, <1>16 DEF StreamInv

LEMMA StepReceive ==
    ASSUME StreamInv, Receive
    PROVE  StreamInv'
  <1>1. UNCHANGED vars /\ told' = told /\ st = "open"  BY DEF Receive
  <1>2. told \in Seq(Spoken) /\ wire \in Seq(Nat) /\ input \in Seq(Nat)
        /\ OnItsWay(told, input, wire, heard)
    BY DEF StreamInv, StreamTypes
  <1>3. PICK n \in 0..Len(wire) : Arrive(n)
    <2>1. PICK n \in {Len(wire)} \union {c \in Chunks : c < Len(wire)} : Arrive(n)
      BY DEF Receive
    <2>2. n \in 0..Len(wire)
      <3>1. Len(wire) \in Nat  BY <1>2
      <3>2. n = Len(wire) \/ (n \in Chunks /\ n < Len(wire))  BY <2>1
      <3>3. n \in Nat  BY <3>1, <3>2, PieceStreamAssumption
      <3> QED  BY <3>1, <3>2, <3>3
    <2> QED  BY <2>1, <2>2
  <1> DEFINE s == Come(input, wire, n)
             c == unpack(s).msgs
             a == [asked |-> asked, done |-> done, buf |-> buf]
             now == AllHandled(a, c)[Len(c)]
  <1>4. /\ wire' = Left(wire, n) /\ input' = unpack(s).rest /\ heard' = heard \o c
        /\ asked' = now.asked /\ done' = now.done /\ buf' = now.buf
        /\ st' = IF done' # done /\ done' = 1..Len(sub) THEN "closed" ELSE "open"
    BY <1>3 DEF Arrive, AllHandled, Come, Left
  <1> HIDE DEF now
  <1>5. IInv /\ IInv'  BY <1>1, Stutters DEF StreamInv
  <1>6. pc = "made" /\ q \in Streamed /\ Answers(told) /\ a \in Works
    BY <1>1 DEF StreamInv, Working
  <1>7. /\ unpack(s).rest \in Seq(Nat) /\ Left(wire, n) \in Seq(Nat)
        /\ OnItsWay(told, unpack(s).rest, Left(wire, n), heard \o unpack(s).msgs)
        /\ \E k \in 0..Len(told) : \E h \in 0..Len(Left(told, k)) :
              unpack(s).msgs = Reading(Left(told, k), h)
    <2>1. PICK x : x = Come(input, wire, n)  OBVIOUS
    <2>2. /\ unpack(x).rest \in Seq(Nat) /\ Left(wire, n) \in Seq(Nat)
          /\ OnItsWay(told, unpack(x).rest, Left(wire, n), heard \o unpack(x).msgs)
          /\ \E k \in 0..Len(told) : \E h \in 0..Len(Left(told, k)) :
                unpack(x).msgs = Reading(Left(told, k), h)
      BY <1>2, <2>1, ArrivesOnItsWay
    <2> QED  BY <2>1, <2>2
  <1>8. now \in Works
    <2>1. PICK k \in 0..Len(told) : \E h \in 0..Len(Left(told, k)) :
             c = Reading(Left(told, k), h)
      BY <1>7
    <2> DEFINE ms == Left(told, k)
    <2>2. ms \in Seq(Spoken) /\ Len(ms) = Len(told) - k
          /\ \A i \in 1..(Len(told) - k) : ms[i] = told[k + i]
      BY <1>2, LeftOver
    <2>3. Answers(ms)
      <3>1. ASSUME NEW i \in 1..Len(ms), ms[i].type = "piece"
            PROVE  \E r \in Wanted : ms[i] = Piece(r)
        <4>1. i \in 1..(Len(told) - k) /\ k + i \in 1..Len(told)  BY <1>2, <2>2
        <4>2. ms[i] = told[k + i]  BY <2>2, <4>1
        <4> QED  BY <1>6, <3>1, <4>1, <4>2 DEF Answers
      <3> QED  BY <3>1 DEF Answers
    <2> HIDE DEF ms, a, c
    <2>4. PICK h \in 0..Len(ms) : c = Reading(ms, h)  BY <2>1 DEF ms
    <2>5. Len(Reading(ms, h)) = h  BY <2>2, ReadingIs
    <2>6. AllHandled(a, Reading(ms, h))[h] \in Works
      BY <1>5, <1>6, <2>2, <2>3, AllHandledKeeps DEF a
    <2> QED  BY <2>4, <2>5, <2>6 DEF now
  <1>9. /\ [asked |-> asked', done |-> done', buf |-> buf'] \in Works
        /\ done' \subseteq 1..Len(sub)
    <2>1. now = [asked |-> now.asked, done |-> now.done, buf |-> now.buf]
          /\ now.done \subseteq 1..Len(sub)
      BY <1>8 DEF Works
    <2> QED  BY <1>4, <1>8, <2>1
  <1>10. StreamTypes'
    <2>1. st' \in {"none", "open", "closed"}  BY <1>4
    <2>2. told' \in Seq(Spoken) /\ wire' \in Seq(Nat) /\ input' \in Seq(Nat)
      BY <1>1, <1>2, <1>4, <1>7
    <2> QED  BY <2>1, <2>2 DEF StreamTypes
  <1>11. OnItsWay(told, input, wire, heard)'
    <2>1. OnItsWay(told', input', wire', heard')  BY <1>1, <1>4, <1>7
    <2> QED  BY <2>1
  <1>12. Works' = Works  BY <1>1, BlocksStay
  <1>13. Answers(told)'
    <2>1. Wanted' = Wanted  BY <1>1 DEF vars, Wanted
    <2>2. \A r : Piece(r)' = Piece(r)  BY <1>1 DEF vars, Piece
    <2>3. Answers(told')  BY <1>1, <1>6
    <2> QED  BY <2>1, <2>2, <2>3 DEF Answers
  <1>14. pc' = "made" /\ q' \in Streamed  BY <1>1, <1>6 DEF vars
  <1>15. st' # "none"  BY <1>4
  <1>16. Working'  BY <1>9, <1>12, <1>13, <1>14, <1>15 DEF Working
  <1>17. Closes'
    <2> SUFFICES ASSUME st' = "closed" PROVE done' = 1..Len(sub') /\ sub' # <<>>
      BY DEF Closes
    <2>1. done' # done /\ done' = 1..Len(sub)  BY <1>4
    <2>2. sub' = sub  BY <1>1 DEF vars
    <2>3. done \subseteq 1..Len(sub)
      <3> DEFINE d == a
      <3>1. d.done = done  OBVIOUS
      <3>2. d \in Works  BY <1>6
      <3> HIDE DEF d, a
      <3>3. d.done \subseteq 1..Len(sub)  BY <3>2 DEF Works
      <3> QED  BY <3>1, <3>3
    <2>4. ASSUME sub = <<>> PROVE FALSE
      <3>1. 1..Len(sub) = {}  BY <2>4
      <3> QED  BY <2>1, <2>3, <3>1
    <2> QED  BY <2>1, <2>2, <2>4
  <1> QED  BY <1>5, <1>10, <1>11, <1>16, <1>17 DEF StreamInv

LEMMA StreamStutters ==
    ASSUME StreamInv, UNCHANGED <<vars, svars>>
    PROVE  StreamInv'
  <1>1. UNCHANGED vars /\ UNCHANGED svars  OBVIOUS
  <1>2. /\ st' = st /\ told' = told /\ wire' = wire /\ input' = input /\ heard' = heard
        /\ asked' = asked /\ done' = done /\ buf' = buf
    BY <1>1 DEF svars
  <1>3. IInv'  BY <1>1, Stutters DEF StreamInv
  <1>4. StreamTypes'  BY <1>2 DEF StreamInv, StreamTypes
  <1>5. OnItsWay(told, input, wire, heard)'  BY <1>2 DEF StreamInv
  <1>6. Works' = Works /\ pc' = pc /\ q' = q /\ sub' = sub  BY <1>1, BlocksStay DEF vars
  <1>7. Answers(told) => Answers(told)'
    <2>1. Wanted' = Wanted  BY <1>1 DEF vars, Wanted
    <2>2. \A r : Piece(r)' = Piece(r)  BY <1>1 DEF vars, Piece
    <2> QED  BY <1>2, <2>1, <2>2 DEF Answers
  <1>8. Working'  BY <1>2, <1>6, <1>7 DEF StreamInv, Working
  <1>9. Closes'  BY <1>2, <1>6 DEF StreamInv, Closes
  <1> QED  BY <1>3, <1>4, <1>5, <1>8, <1>9 DEF StreamInv

LEMMA StreamKeeps ==
    ASSUME StreamInv, [StreamNext]_<<vars, svars>>
    PROVE  StreamInv'
  BY StepBlocks, StepConnect, StepSay, StepReceive, StreamStutters DEF StreamNext

----------------------------------------------------------------------------
(* What the properties need of the invariant.                              *)

\* The places of a sequence of messages exist, and are the same for all.
LEMMA PlacesExist ==
    ASSUME NEW ms \in Seq(Spoken)
    PROVE  \E f : f \in [0..Len(ms) -> Nat] /\
             f = [k \in 0..Len(ms) |-> IF k = 0 THEN 0 ELSE f[k - 1] + Len(Sent(ms[k]))]
  <1> DEFINE n == Len(ms)
             step == [p \in (1..n) \X Nat |-> p[2] + Len(Sent(ms[p[1]]))]
  <1>1. n \in Nat /\ 0 \in Nat  OBVIOUS
  <1>2. \A k \in 1..n : Len(Sent(ms[k])) \in Nat
    <2> TAKE k \in 1..n
    <2>1. ms[k] \in Spoken  OBVIOUS
    <2> QED  BY <2>1, SentBytes DEF Spoken
  <1>3. \A k \in 1..n, x \in Nat : step[<<k, x>>] = x + Len(Sent(ms[k]))  OBVIOUS
  <1> HIDE DEF n, step
  <1>4. \A k \in 1..n, x \in Nat : step[<<k, x>>] \in Nat
    <2> TAKE k \in 1..n, x \in Nat
    <2> DEFINE i == Len(Sent(ms[k]))
    <2>1. i \in Nat /\ step[<<k, x>>] = x + i  BY <1>2, <1>3
    <2> HIDE DEF i
    <2> QED  BY <2>1
  <1>5. PICK f \in [0..n -> Nat] : Follows(f, 0, n, step)  BY ONLY <1>1, <1>4, Stepwise
  <1>6. \A k \in 0..n : f[k] = IF k = 0 THEN 0 ELSE f[k - 1] + Len(Sent(ms[k]))
    <2> TAKE k \in 0..n
    <2>1. f[k] = IF k = 0 THEN 0 ELSE step[<<k, f[k - 1]>>]  BY <1>5 DEF Follows
    <2>2. CASE k = 0  BY <2>1, <2>2
    <2>3. CASE k # 0
      <3>1. k \in 1..n /\ k - 1 \in 0..n  BY <1>1, <2>3
      <3>2. f[k - 1] \in Nat  BY <3>1
      <3> QED  BY <1>3, <2>1, <2>3, <3>1, <3>2
    <2> QED  BY <2>2, <2>3
  <1>7. f = [k \in 0..n |-> f[k]]  OBVIOUS
  <1>8. f = [k \in 0..n |-> IF k = 0 THEN 0 ELSE f[k - 1] + Len(Sent(ms[k]))]
    BY <1>6, <1>7
  <1> QED  BY <1>8 DEF n

LEMMA BytesArePlaces ==
    ASSUME told \in Seq(Spoken)
    PROVE  Places(told, Bytes)
  <1> DEFINE n == Len(told)
  <1>1. \E f : f = [k \in 0..n |-> IF k = 0 THEN 0 ELSE f[k - 1] + Len(Sent(told[k]))]
    BY PlacesExist
  <1>2. Bytes = [k \in 0..n |-> IF k = 0 THEN 0 ELSE Bytes[k - 1] + Len(Sent(told[k]))]
    BY <1>1 DEF Bytes
  <1>3. \A k \in 0..n : Bytes[k] = IF k = 0 THEN 0 ELSE Bytes[k - 1] + Len(Sent(told[k]))
    BY <1>2
  <1>4. n \in Nat  OBVIOUS
  <1> HIDE DEF Bytes
  <1>5. \A k \in 1..n : Len(Sent(told[k])) \in Nat
    <2> TAKE k \in 1..n
    <2>1. told[k] \in Spoken  OBVIOUS
    <2> QED  BY <2>1, SentBytes DEF Spoken
  <1> HIDE DEF n
  <1> DEFINE B == {k \in Nat : k <= n => Bytes[k] \in Nat}
  <1>6. 0 \in B  BY <1>3, <1>4
  <1>7. ASSUME NEW k \in Nat, k \in B PROVE k + 1 \in B
    <2> SUFFICES ASSUME k + 1 <= n PROVE Bytes[k + 1] \in Nat  OBVIOUS
    <2>1. k + 1 \in 1..n /\ k + 1 \in 0..n /\ k + 1 # 0 /\ (k + 1) - 1 = k /\ k <= n
      BY <1>4
    <2>2. Bytes[k + 1] = Bytes[k] + Len(Sent(told[k + 1]))  BY <1>3, <2>1
    <2>3. Bytes[k] \in Nat /\ Len(Sent(told[k + 1])) \in Nat  BY <1>5, <1>7, <2>1
    <2> QED  BY <2>2, <2>3
  <1>8. Nat \subseteq B
    <2> HIDE DEF B
    <2> QED  BY <1>6, <1>7, AllNaturals
  <1>9. \A k \in 0..n : Bytes[k] \in Nat  BY <1>4, <1>8
  <1>10. Bytes \in [0..n -> Nat]
    <2>1. Bytes = [k \in 0..n |-> Bytes[k]]  BY <1>2
    <2> QED  BY <1>9, <2>1
  <1>11. Bytes[0] = 0  BY <1>3, <1>4
  <1>12. \A k \in 1..n : Bytes[k] = Bytes[k - 1] + Len(Sent(told[k]))
    BY <1>3, <1>4
  <1> QED  BY <1>10, <1>11, <1>12 DEF Places, n

LEMMA PlacesAreUnique ==
    ASSUME NEW ms, Len(ms) \in Nat, NEW f, Places(ms, f), NEW g, Places(ms, g),
           NEW k \in 0..Len(ms)
    PROVE  f[k] = g[k]
  <1> DEFINE n == Len(ms)
             Same == {j \in Nat : j <= n => f[j] = g[j]}
  <1>1. /\ f[0] = 0 /\ g[0] = 0
        /\ \A j \in 1..n : f[j] = f[j - 1] + Len(Sent(ms[j]))
        /\ \A j \in 1..n : g[j] = g[j - 1] + Len(Sent(ms[j]))
    BY DEF Places
  <1>2. 0 \in Same  BY <1>1
  <1>3. ASSUME NEW j \in Nat, j \in Same PROVE j + 1 \in Same
    <2> SUFFICES ASSUME j + 1 <= n PROVE f[j + 1] = g[j + 1]  OBVIOUS
    <2>1. j + 1 \in 1..n /\ (j + 1) - 1 = j /\ j <= n  OBVIOUS
    <2>2. f[j] = g[j]  BY <1>3, <2>1
    <2>3. f[j + 1] = f[j] + Len(Sent(ms[j + 1])) /\ g[j + 1] = g[j] + Len(Sent(ms[j + 1]))
      BY <1>1, <2>1
    <2> QED  BY <2>2, <2>3
  <1>4. k \in Same
    <2>1. k \in Nat  OBVIOUS
    <2> HIDE DEF Same
    <2> QED  BY <1>2, <1>3, <2>1, AllNaturals
  <1> QED  BY <1>4

\* What has come ends in the message that is not heard yet.
LEMMA InvIsHeard ==
    ASSUME StreamInv
    PROVE  HeardAsTold
  <1> DEFINE N == Len(told)  B == Bytes  come == B[N] - Len(wire)  t == input \o wire
  <1>1. told \in Seq(Spoken) /\ wire \in Seq(Nat) /\ input \in Seq(Nat) /\ N \in Nat
        /\ OnItsWay(told, input, wire, heard)
    BY DEF StreamInv, StreamTypes
  <1>2. PICK n \in 0..N : /\ heard = Reading(told, n)
                          /\ \E at : Laid(Left(told, n), t, at)
                          /\ n < N => Len(input) < Len(Sent(told[n + 1]))
    BY <1>1 DEF OnItsWay
  <1>3. PICK at : Laid(Left(told, n), t, at)  BY <1>2
  <1>4. Places(told, B)  BY <1>1, BytesArePlaces
  <1> HIDE DEF B
  <1>5. /\ B \in [0..N -> Nat]
        /\ \A k \in 1..N : B[k] = B[k - 1] + Len(Sent(told[k]))
    BY <1>4 DEF Places
  <1>6. Len(heard) = n /\ \A k \in 1..n : heard[k] = Understood(told[k])
    BY <1>1, <1>2, ReadingIs
  <1>7. Len(t) = Len(input) + Len(wire) /\ Len(input) \in Nat /\ Len(wire) \in Nat
    <2>1. input \in Seq(Nat) /\ wire \in Seq(Nat)  BY <1>1
    <2> QED  BY <2>1, Joined
  <1> HIDE DEF t
  <1>8. B[N] - B[n] = Len(t)
    <2> DEFINE r == Left(told, n)  f == Shifted(B, n, N)
    <2>1. Places(r, f)  BY <1>1, <1>4, PlacesRest
    <2>2. Len(r) = N - n  BY <1>1, LeftOver
    <2>3. Places(r, at) /\ at[Len(r)] = Len(t)  BY <1>3 DEF Laid
    <2>4. Len(r) \in Nat /\ Len(r) \in 0..Len(r)  BY <1>1, <2>2
    <2> HIDE DEF r
    <2>5. f[Len(r)] = at[Len(r)]
      <3> HIDE DEF f
      <3> QED  BY <2>1, <2>3, <2>4, PlacesAreUnique
    <2>6. N - n \in 0..(N - n) /\ n + (N - n) = N  BY <1>1
    <2>7. f[N - n] = B[N] - B[n]
      <3> HIDE DEF N
      <3> QED  BY <2>6 DEF Shifted
    <2> QED  BY <2>2, <2>3, <2>5, <2>7
  <1>9. n \in 0..N /\ N \in 0..N /\ B[n] \in Nat /\ B[N] \in Nat
    <2>1. N \in 0..N  BY <1>1
    <2> QED  BY <1>5, <2>1
  <1>10. come = B[n] + Len(input)
    <2> DEFINE x == B[N]  y == B[n]  i == Len(input)  j == Len(wire)
    <2>1. x \in Nat /\ y \in Nat /\ i \in Nat /\ j \in Nat /\ x - y = i + j
      BY <1>7, <1>8, <1>9
    <2> HIDE DEF x, y, i, j
    <2>2. x - j = y + i  BY <2>1
    <2> QED  BY <2>2 DEF x, y, i, j
  <1> HIDE DEF come
  <1>11. ASSUME NEW k \in 1..N
         PROVE  IF B[k] <= come THEN k <= Len(heard) /\ heard[k] = Understood(told[k])
                ELSE k > Len(heard)
    <2>1. CASE k <= n
      <3>1. k \in 1..n /\ k \in 0..Len(told) /\ n \in 0..Len(told)  BY <1>1, <2>1
      <3>2. B[k] \in Nat /\ B[k] <= B[n]  BY <1>1, <1>4, <2>1, <3>1, PlacesAscend
      <3>3. B[k] <= come  BY <1>7, <1>9, <1>10, <3>2
      <3> QED  BY <1>6, <2>1, <3>1, <3>3
    <2>2. CASE k > n
      <3>1. n + 1 \in 1..N /\ n < N /\ (n + 1) - 1 = n /\ n + 1 <= k
            /\ n + 1 \in 0..Len(told) /\ k \in 0..Len(told)
        BY <1>1, <2>2
      <3>2. B[n + 1] = B[n] + Len(Sent(told[n + 1]))  BY <1>5, <3>1
      <3>3. B[n + 1] \in Nat /\ B[k] \in Nat /\ B[n + 1] <= B[k]
        BY <1>1, <1>4, <3>1, PlacesAscend
      <3>4. Len(input) < Len(Sent(told[n + 1]))  BY <1>2, <3>1
      <3>5. Len(Sent(told[n + 1])) \in Nat
        <4>1. told[n + 1] \in Spoken  BY <1>1, <3>1
        <4> QED  BY <4>1, SentBytes DEF Spoken
      <3> DEFINE x == B[k]  y == B[n]  i == Len(input)  j == Len(Sent(told[n + 1]))
      <3>6. x \in Nat /\ y \in Nat /\ i \in Nat /\ j \in Nat /\ i < j /\ y + j <= x
        BY <1>7, <1>9, <3>2, <3>3, <3>4, <3>5
      <3>7. come = y + i  BY <1>10
      <3> HIDE DEF x, y, i, j
      <3>8. ~(x <= come)  BY <3>6, <3>7
      <3>9. ~(B[k] <= come)  BY <3>8 DEF x
      <3> QED  BY <1>6, <2>2, <3>9
    <2> QED  BY <1>1, <2>1, <2>2
  <1>12. Len(heard) <= Len(told)  BY <1>1, <1>6
  <1>13. HeardAsTold
    <2>1. \A k \in 1..N :
            IF Bytes[k] <= Bytes[N] - Len(wire)
            THEN k <= Len(heard) /\ heard[k] = Understood(told[k]) ELSE k > Len(heard)
      BY <1>11 DEF B, come
    <2> HIDE DEF Bytes
    <2> QED  BY <1>12, <2>1 DEF HeardAsTold
  <1> QED  BY <1>13

\* The blocks leave no byte of the range out.
LEMMA BlocksCover ==
    ASSUME IInv, pc = "made", sub # <<>>, NEW i \in 0..(end - beg - 1)
    PROVE  \E k \in 1..Len(sub) : i \in Place(k)
  <1> DEFINE N == Len(sub)
             Last(k) == Position(k) + sub[k].size
             C == {k \in Nat : 1 <= k /\ k <= N /\ beg + i < Last(k) =>
                                 \E j \in 1..N : i \in Place(j)}
  <1>1. BlockTypes  BY DEF IInv
  <1>2. /\ beg \in Nat /\ end \in Nat /\ b \in Nat /\ N \in Nat /\ N >= 1 /\ N \in 1..N
    BY <1>1 DEF BlockTypes
  <1>3. \A k \in 1..N : Position(k) \in Nat /\ sub[k].size \in Nat
    <2> TAKE k \in 1..N
    <2>1. Position(k) \in Nat /\ sub[k] \in Block  BY <1>1, PositionIsNumber
    <2> QED  BY <2>1 DEF Block
  <1>4. \A k \in 1..N :
          /\ sub[k].ptr = Position(k) - beg
          /\ Position(k) = IF k = 1 THEN beg ELSE Last(k - 1)
    BY DEF IInv, Chained
  <1>5. Last(N) = end
    <2>1. Last(N) = b  BY <1>2 DEF IInv, Chained
    <2>2. b = end  BY <1>2 DEF IInv, Cursor
    <2> QED  BY <2>1, <2>2
  <1>6. i \in Nat /\ beg + i < end
    BY <1>2
  <1> HIDE DEF N
  <1>7. ASSUME NEW k \in 1..N, Position(k) <= beg + i, beg + i < Last(k)
        PROVE  i \in Place(k)
    <2> DEFINE p == Position(k)  z == sub[k].size  x == sub[k].ptr
    <2>1. p \in Nat /\ z \in Nat /\ x = p - beg /\ p <= beg + i /\ beg + i < p + z
      BY <1>3, <1>4, <1>7
    <2> HIDE DEF p, z, x
    <2>2. i \in x..(x + z - 1)  BY <1>2, <1>6, <2>1
    <2> QED  BY <2>2 DEF Place, x, z
  <1>8. 0 \in C  OBVIOUS
  <1>9. ASSUME NEW k \in Nat, k \in C PROVE k + 1 \in C
    <2> SUFFICES ASSUME k + 1 <= N, beg + i < Last(k + 1)
        PROVE  \E j \in 1..N : i \in Place(j)
      OBVIOUS
    <2>1. k + 1 \in 1..N  BY <1>2
    <2>2. Position(k + 1) \in Nat  BY <1>3, <2>1
    <2>3. CASE Position(k + 1) <= beg + i  BY <1>7, <2>1, <2>3
    <2>4. CASE Position(k + 1) > beg + i
      <3>1. k # 0
        <4>1. ASSUME k = 0 PROVE Position(k + 1) = beg  BY <1>4, <2>1, <4>1
        <4> HIDE DEF Last, C
        <4> QED  BY <1>2, <1>6, <2>4, <4>1
      <3>2. k + 1 # 1 /\ (k + 1) - 1 = k /\ k >= 1 /\ k <= N  BY <1>2, <3>1
      <3>3. Position(k + 1) = Last(k)  BY <1>4, <2>1, <3>2
      <3>4. beg + i < Last(k)
        <4> HIDE DEF Last
        <4> QED  BY <2>4, <3>3, <1>2, <1>6, <2>2
      <3> QED  BY <1>9, <3>2, <3>4
    <2>5. Position(k + 1) <= beg + i \/ Position(k + 1) > beg + i
      BY <1>2, <1>6, <2>2
    <2> QED  BY <2>3, <2>4, <2>5
  <1>10. N \in C
    <2> HIDE DEF C
    <2> QED  BY <1>2, <1>8, <1>9, AllNaturals
  <1>11. beg + i < Last(N)  BY <1>5, <1>6
  <1>12. \E j \in 1..N : i \in Place(j)
    <2> HIDE DEF Last
    <2> QED  BY <1>2, <1>10, <1>11
  <1> QED  BY <1>12 DEF N

\* A range with a block is as long as what the buffer was made for.
LEMMA RangeIsBuffer ==
    ASSUME IInv, pc = "made", sub # <<>>
    PROVE  size = end - beg
  <1>1. beg \in Nat /\ end \in Nat /\ b \in Nat /\ q \in Reads
    BY DEF IInv, BlockTypes
  <1>2. beg <= end
    <2>1. beg <= b /\ b <= end  BY DEF IInv, Cursor
    <2> QED  BY <1>1, <2>1
  <1>3. end < Word /\ Word \in Nat
    <2> DEFINE x == (q.offset + q.off + q.count) % Word
               y == (q.offset + q.length) % Word
               p == q.pieces * q.plen
    <2>1. end = Least(Least(x, y), totalsize)  BY DEF IInv, Ranged
    <2>2. /\ q.offset \in Nat /\ q.off \in Nat /\ q.count \in Nat /\ q.length \in Nat
          /\ q.pieces \in Nat /\ q.plen \in Nat
      BY <1>1, ReadNumbers
    <2>3. x \in Nat
      <3>1. q.offset + q.off + q.count \in Nat  BY ONLY <2>2
      <3> QED  BY <3>1, Remainder
    <2>4. y \in Nat
      <3>1. q.offset + q.length \in Nat  BY ONLY <2>2
      <3> QED  BY <3>1, Remainder
    <2>5. totalsize \in Nat /\ totalsize < Word
      <3>1. p \in Nat  BY ONLY <2>2
      <3>2. totalsize = p % Word  BY DEF totalsize
      <3> HIDE DEF p
      <3> QED  BY <3>1, <3>2, Remainder
    <2> HIDE DEF x, y
    <2>6. Least(x, y) \in Nat  BY <2>3, <2>4 DEF Least
    <2>7. end <= totalsize  BY <2>1, <2>5, <2>6 DEF Least
    <2>8. Word \in Nat  BY BlockRequestAssumption
    <2> QED  BY <1>1, <2>5, <2>7, <2>8
  <1>4. size = (end + Word - beg) % Word  BY DEF IInv, Ranged, Minus
  <1> DEFINE d == end - beg
  <1>5. d \in Nat /\ d < Word /\ end + Word - beg = d + Word  BY <1>1, <1>2, <1>3
  <1> HIDE DEF d
  <1>6. (d + Word) % Word = d
    <2>1. Word \in Nat \ {0}  BY BlockRequestAssumption
    <2> QED  BY <1>5, <2>1
  <1> QED  BY <1>4, <1>5, <1>6 DEF d

LEMMA InvIsRange ==
    ASSUME StreamInv
    PROVE  BufferIsRange
  <1> SUFFICES ASSUME st # "none"
      PROVE  /\ \A i \in DOMAIN buf :
                  buf[i] = IF \E k \in done : i \in Place(k) THEN Byte(beg + i) ELSE Nothing
             /\ st = "closed" => \A i \in 0..(end - beg - 1) : buf[i] # Nothing
    BY DEF BufferIsRange, Place
  <1> DEFINE h == [asked |-> asked, done |-> done, buf |-> buf]
  <1>1. pc = "made" /\ h \in Works  BY DEF StreamInv, Working
  <1>2. h.done = done /\ h.buf = buf  OBVIOUS
  <1> HIDE DEF h
  <1>3. h.buf \in [0..(size - 1) -> Nat] /\ Stores(h.done, h.buf)  BY <1>1 DEF Works
  <1>4. DOMAIN buf = 0..(size - 1) /\ Stores(done, buf)  BY <1>2, <1>3
  <1>5. \A i \in 0..(size - 1) :
          buf[i] = IF \E k \in done : i \in Place(k) THEN Byte(beg + i) ELSE Nothing
    BY <1>4 DEF Stores
  <1>6. ASSUME st = "closed", NEW i \in 0..(end - beg - 1) PROVE buf[i] # Nothing
    <2>1. IInv /\ done = 1..Len(sub) /\ sub # <<>>  BY <1>6 DEF StreamInv, Closes
    <2>2. PICK k \in done : i \in Place(k)  BY <1>1, <2>1, BlocksCover
    <2>3. i \in 0..(size - 1)  BY <1>1, <2>1, RangeIsBuffer
    <2>4. beg + i \in Nat
      <3>1. beg \in Nat /\ end \in Nat  BY <2>1 DEF IInv, BlockTypes
      <3> QED  BY <3>1
    <2>5. buf[i] = Byte(beg + i)  BY <1>5, <2>2, <2>3
    <2> QED  BY <2>4, <2>5, BytesAreOctets
  <1> QED  BY <1>4, <1>5, <1>6

----------------------------------------------------------------------------
(* The theorems.                                                           *)

\* However a stream of messages is cut, unpack() returns those that are
\* complete, as they were said, and the beginning of the next (tor.hpp:332-375).
THEOREM UnpackReturnsMessages ==
    ASSUME NEW ms \in Seq(Spoken), NEW t \in Seq(Nat), NEW at, Laid(ms, t, at),
           NEW s \in Seq(Nat), Begins(s, t)
    PROVE  \E h \in 0..Len(ms) :
             /\ at[h] <= Len(s) /\ (h < Len(ms) => Len(s) < at[h + 1])
             /\ unpack(s).msgs = Reading(ms, h)
             /\ unpack(s).rest = Left(s, at[h])
  BY UnpackStream

\* The blocks of a read with a connection are those of File::read(): what is
\* proved of BlockRequest holds of it (tor.hpp:893-908, 1111-1118).
THEOREM StreamCutsBlocks == StreamSpec => Spec
  <1>1. StreamInit => Init  BY DEF StreamInit
  <1>2. ASSUME [StreamNext]_<<vars, svars>> PROVE [Next]_vars
    <2>1. ASSUME Connect PROVE UNCHANGED vars  BY <2>1 DEF Connect
    <2>2. ASSUME Say PROVE UNCHANGED vars  BY <2>2 DEF Say
    <2>3. ASSUME Receive PROVE UNCHANGED vars  BY <2>3 DEF Receive
    <2>4. ASSUME UNCHANGED <<vars, svars>> PROVE UNCHANGED vars  BY <2>4
    <2> QED  BY <1>2, <2>1, <2>2, <2>3, <2>4 DEF StreamNext
  <1>3. [StreamNext]_<<vars, svars>> => [Next]_vars  BY <1>2
  <1> QED  BY <1>1, <1>3, PTL DEF StreamSpec, Spec

\* What the messages on their way, those that were heard and the reader's buffer
\* have to do with each other after every step of the peer and of the loop's
\* thread (tor.hpp:1023-1077).
THEOREM StreamInvariance == StreamSpec => []StreamInv
  <1>1. StreamInv /\ [StreamNext]_<<vars, svars>> => StreamInv'  BY StreamKeeps
  <1> QED  BY <1>1, StreamInitially, PTL DEF StreamSpec

\* The handler gets the messages the peer said, in their order, each as soon as
\* its last byte has come, however the stream is cut (tor.hpp:332-375,
\* 1027-1031).
THEOREM MessagesAreHeard == StreamSpec => []HeardAsTold
  <1>1. StreamInv => HeardAsTold  BY InvIsHeard
  <1> QED  BY <1>1, StreamInvariance, PTL

\* The reader's buffer has the torrent's bytes at the blocks that are done and
\* nothing elsewhere, and all of the range when the socket is closed
\* (tor.hpp:893-935, 1048-1057).
THEOREM BufferHasRange == StreamSpec => []BufferIsRange
  <1>1. StreamInv => BufferIsRange  BY InvIsRange
  <1> QED  BY <1>1, StreamInvariance, PTL
=============================================================================
