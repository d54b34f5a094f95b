------------------------------ MODULE Messages ------------------------------
(***************************************************************************)
(* The messages of peers (struct Msg, tor.hpp): how str() writes each one, *)
(* and how unpack() cuts them out of what a socket has brought so far.     *)
(* A message has its type, its numbers, and its bytes.                     *)
(***************************************************************************)
EXTENDS Naturals, Sequences

Octet == 0..255

Message(type, nums, data) == [type |-> type, nums |-> nums, data |-> data]

hton32(n) == <<(n \div 16777216) % 256, (n \div 65536) % 256, (n \div 256) % 256, n % 256>>
hton16(n) == <<(n \div 256) % 256, n % 256>>

\* The number at offset n of s.
ntoh32(s, n) == s[n + 1] * 16777216 + s[n + 2] * 65536 + s[n + 3] * 256 + s[n + 4]
ntoh16(s, n) == s[n + 1] * 256 + s[n + 2]

resize(s, n) == [i \in 1..n |-> IF i <= Len(s) THEN s[i] ELSE 0]

\* "BitTorrent protocol", of which unpack() looks at the length and at "Bit".
proto == resize(<<66, 105, 116>>, 19)

\* The identifier is the number in this sequence, from 0.
Types == <<"choke", "unchoke", "interested", "notinterested", "have",
           "bitfield", "request", "piece", "cancel", "port">>

(***************************************************************************)
(* str()                                                                   *)
(***************************************************************************)
\* Its reserved bytes and the identifier of the peer say nothing here.
HandshakeStr(m) ==
    <<Len(proto)>> \o proto \o resize(<<>>, 8) \o resize(m.data, 20) \o resize(<<>>, 20)

Payload(m) ==
    CASE m.type = "have" -> hton32(m.nums[1])
      [] m.type \in {"request", "cancel"} ->
            hton32(m.nums[1]) \o hton32(m.nums[2]) \o hton32(m.nums[3])
      [] m.type = "piece" -> hton32(m.nums[1]) \o hton32(m.nums[2]) \o m.data
      [] m.type = "port" -> hton16(m.nums[1])
      [] OTHER -> m.data

Framed(id, payload) == hton32(1 + Len(payload)) \o <<id>> \o payload

Str(m) ==
    CASE m.type = "handshake" -> HandshakeStr(m)
      [] m.type = "keepalive" -> hton32(0)
      [] OTHER -> Framed((CHOOSE k \in 1..10 : Types[k] = m.type) - 1, Payload(m))

(***************************************************************************)
(* unpack()                                                                *)
(***************************************************************************)
IsHandshake(s) == Len(s) >= 68 /\ SubSeq(s, 1, 4) = SubSeq(<<19>> \o proto, 1, 4)

\* The bytes of the first message of s: a handshake that is not all there
\* counts as an ordinary message of 323119476 bytes.
Size(s) == IF IsHandshake(s) THEN 1 + Len(proto) + 8 + 20 + 20 ELSE ntoh32(s, 0) + 4

Complete(s) == Len(s) >= 4 /\ Len(s) >= Size(s)

\* What a payload has to look like for its identifier; others are "unknown".
Fitting(type, m) ==
    CASE type = "have" -> m = 4
      [] type \in {"request", "cancel"} -> m = 12
      [] type = "piece" -> m >= 8
      [] type = "port" -> m = 2
      [] OTHER -> TRUE

Parsed(id, msg) ==
    IF id >= Len(Types) \/ ~Fitting(Types[id + 1], Len(msg))
    THEN Message("unknown", <<id>>, <<>>)
    ELSE LET type == Types[id + 1] IN
         CASE type = "have" -> Message(type, <<ntoh32(msg, 0)>>, <<>>)
           [] type \in {"request", "cancel"} ->
                 Message(type, <<ntoh32(msg, 0), ntoh32(msg, 4), ntoh32(msg, 8)>>, <<>>)
           [] type = "piece" ->
                 Message(type, <<ntoh32(msg, 0), ntoh32(msg, 4)>>, SubSeq(msg, 9, Len(msg)))
           [] type = "port" -> Message(type, <<ntoh16(msg, 0)>>, <<>>)
           [] type = "bitfield" -> Message(type, <<>>, msg)
           [] OTHER -> Message(type, <<>>, <<>>)

First(s) ==
    IF IsHandshake(s) THEN Message("handshake", <<>>, SubSeq(s, 29, 48))
    ELSE IF Size(s) = 4 THEN Message("keepalive", <<>>, <<>>)
    ELSE Parsed(s[5], SubSeq(s, 6, Size(s)))

\* The messages that are complete, and what is left of the input.
unpack(s) ==
    LET from[n \in 0..Len(s)] ==
            LET left == SubSeq(s, n + 1, Len(s)) IN
            IF ~Complete(left) THEN [msgs |-> <<>>, rest |-> left]
            ELSE LET more == from[n + Size(left)]
                 IN  [more EXCEPT !.msgs = <<First(left)>> \o @]
    IN  from[0]
=============================================================================
