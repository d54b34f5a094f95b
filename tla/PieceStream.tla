---------------------------- MODULE PieceStream ----------------------------
(***************************************************************************)
(* The blocks of a read on their way over one connection (tor.hpp).  A     *)
(* peer's messages are a stream of bytes that arrives cut anywhere; what   *)
(* File::operator() makes of the pieces of it is unpacked, answered, and   *)
(* stored in the reader's buffer.  BlockRequest has the blocks, Messages   *)
(* their form on the wire.                                                 *)
(***************************************************************************)
EXTENDS BlockRequest, Messages

CONSTANTS
    Streamed,   \* the reads that are followed beyond their blocks
    Extras,     \* messages a peer may say that carry no block
    MaxSays,    \* bound: messages of the peer
    MaxFlight,  \* bound: bytes the peer has sent when it sends more
    Chunks      \* bytes that may arrive at a time; the rest may always

ASSUME PieceStreamAssumption ==
    /\ Streamed \subseteq Reads
    /\ MaxSays \in Nat /\ MaxFlight \in Nat /\ Chunks \subseteq Nat \ {0}

\* A frame of this length begins as a handshake does.
Lookalike == ntoh32(<<19>> \o proto, 0)

\* What four bytes hold, and what can be the length of a frame.
Uint32(n) == n \in Nat /\ n \div 16777216 < 256
FrameLength(n) == Uint32(n) /\ n # Lookalike

\* A message unpack() does not know is one with another identifier, or one
\* whose payload has not the length it ought to have.
Sent(m) == IF m.type = "unknown" THEN Framed(m.nums[1], m.data) ELSE Str(m)

\* The messages of the protocol, and frames with any other identifier or length.
Speakable(m) ==
    /\ m = Message(m.type, m.nums, m.data)
    /\ m.nums \in Seq(Nat) /\ m.data \in Seq(Octet)
    /\ \A i \in 1..Len(m.nums) : Uint32(m.nums[i])
    /\ FrameLength(1 + Len(IF m.type = "unknown" THEN m.data ELSE Payload(m)))
    /\ \/ m.type = "handshake" /\ Len(m.nums) = 0 /\ Len(m.data) = 20
       \/ /\ m.type \in {"keepalive", "choke", "unchoke", "interested", "notinterested"}
          /\ Len(m.nums) = 0 /\ Len(m.data) = 0
       \/ m.type = "have" /\ Len(m.nums) = 1 /\ Len(m.data) = 0
       \/ m.type = "bitfield" /\ Len(m.nums) = 0
       \/ m.type \in {"request", "cancel"} /\ Len(m.nums) = 3 /\ Len(m.data) = 0
       \/ m.type = "piece" /\ Len(m.nums) = 2
       \/ m.type = "port" /\ Len(m.nums) = 1 /\ m.nums[1] < 65536 /\ Len(m.data) = 0
       \/ /\ m.type = "unknown" /\ Len(m.nums) = 1 /\ m.nums[1] < 256
          /\ \/ m.nums[1] >= Len(Types)
             \/ ~Fitting(Types[m.nums[1] + 1], Len(m.data))

\* What a peer says of itself is what the protocol can say, and the pieces that
\* are asked of it can be named and framed: less than 2^32 of them, and blocks
\* shorter than the frame that looks like a handshake (323 MB).
ASSUME WireAssumption ==
    /\ \A m \in Extras : Speakable(m) /\ m.type # "piece"
    /\ \A r \in Streamed : /\ Uint32(r.pieces) /\ Uint32(r.plen)
                           /\ 9 + Least(r.bs, r.plen) < Lookalike

VARIABLES
    st,      \* the connection
    told,    \* history: what the peer said
    wire,    \* bytes of it that have not arrived
    input,   \* sock_input
    heard,   \* history: what unpack() returned
    asked,   \* the numbers of the requests that reached the peer
    done,    \* the blocks that are done
    buf      \* the reader's buffer

svars == <<st, told, wire, input, heard, asked, done, buf>>

Nothing == 0

\* The content of the torrent at a position, never Nothing.
Byte(p) == 1 + (p % 250)

StreamInit ==
    /\ Init
    /\ st = "none"
    /\ told = <<>> /\ wire = <<>> /\ input = <<>> /\ heard = <<>>
    /\ asked = {} /\ done = {} /\ buf = <<>>

\* read() gives the socket to the loop with an empty buffer for its input.
Connect ==
    /\ pc = "made" /\ q \in Streamed
    /\ st = "none"
    /\ st' = "open"
    /\ buf' = [i \in 0..(size - 1) |-> Nothing]
    /\ UNCHANGED <<vars, told, wire, input, heard, asked, done>>

----------------------------------------------------------------------------
(* The peer: a handshake, then whatever it likes.                          *)

Piece(r) == Message("piece", <<r[1], r[2]>>,
                    [i \in 1..r[3] |-> Byte(r[1] * q.plen + r[2] + i - 1)])

Sayable == IF told = <<>> THEN {Message("handshake", <<>>, resize(<<7>>, 20))}
           ELSE Extras \union {Piece(r) : r \in asked}

Say ==
    /\ st = "open"
    /\ Len(told) < MaxSays /\ Len(wire) < MaxFlight
    /\ \E m \in Sayable :
        /\ told' = Append(told, m)
        /\ wire' = wire \o Sent(m)
    /\ UNCHANGED <<vars, st, input, heard, asked, done, buf>>

----------------------------------------------------------------------------
(* File::operator() on the loop's thread.                                  *)

\* Request::send(): a request for each block that is not done, as the peer
\* reads them; there is one peer, so all blocks are its.
Requests(h) ==
    LET sent(k) == unpack(Str(Message("request",
                                      <<sub[k].index, sub[k].off, sub[k].size>>, <<>>)))
    IN  {sent(k).msgs[1].nums : k \in (1..Len(sub)) \ h.done}

\* A wrong variant: the block goes to its place in the piece.
StoredByPiece(h, m) ==
    LET found == Found(m.nums[1], m.nums[2], Len(m.data)) IN
    [h EXCEPT !.done = @ \union found,
              !.buf = [i \in DOMAIN @ |->
                         IF \E k \in found : i - m.nums[2] \in 0..(sub[k].size - 1)
                         THEN m.data[i - m.nums[2] + 1] ELSE @[i]]]

\* Request::recv(): the block the message names, if it was asked for.
Stored(h, m) ==
    LET found == Found(m.nums[1], m.nums[2], Len(m.data)) IN
    [h EXCEPT !.done = @ \union found,
              !.buf = [i \in DOMAIN @ |->
                         IF \E k \in found : i \in sub[k].ptr .. (sub[k].ptr + sub[k].size - 1)
                         THEN m.data[i - sub[CHOOSE k \in found : TRUE].ptr + 1] ELSE @[i]]]

\* Replies to keep-alives are left out: nothing depends on them.
Handled(h, m) ==
    CASE m.type = "unchoke" -> [h EXCEPT !.asked = @ \union Requests(h)]
      [] m.type = "piece"   -> Stored(h, m)
      [] OTHER              -> h

\* A wrong variant: what is left of the input after the messages is dropped.
ArriveDropsRest(n) ==
    LET come == unpack(input \o SubSeq(wire, 1, n))
        h[k \in 0..Len(come.msgs)] ==
            IF k = 0 THEN [asked |-> asked, done |-> done, buf |-> buf]
            ELSE Handled(h[k - 1], come.msgs[k])
        now == h[Len(come.msgs)]
    IN  /\ wire' = SubSeq(wire, n + 1, Len(wire))
        /\ input' = IF come.msgs = <<>> THEN come.rest ELSE <<>>
        /\ heard' = heard \o come.msgs
        /\ asked' = now.asked /\ done' = now.done /\ buf' = now.buf
        /\ st' = IF done' # done /\ done' = 1..Len(sub) THEN "closed" ELSE "open"

\* n bytes more: the complete messages are handled, the rest waits.
Arrive(n) ==
    LET come == unpack(input \o SubSeq(wire, 1, n))
        h[k \in 0..Len(come.msgs)] ==
            IF k = 0 THEN [asked |-> asked, done |-> done, buf |-> buf]
            ELSE Handled(h[k - 1], come.msgs[k])
        now == h[Len(come.msgs)]
    IN  /\ wire' = SubSeq(wire, n + 1, Len(wire))
        /\ input' = come.rest
        /\ heard' = heard \o come.msgs
        /\ asked' = now.asked /\ done' = now.done /\ buf' = now.buf
        /\ st' = IF done' # done /\ done' = 1..Len(sub) THEN "closed" ELSE "open"

Receive ==
    /\ st = "open" /\ wire # <<>>
    /\ \E n \in {Len(wire)} \union {c \in Chunks : c < Len(wire)} : Arrive(n)
    /\ UNCHANGED <<vars, told>>

StreamNext == (Next /\ UNCHANGED svars) \/ Connect \/ Say \/ Receive

StreamSpec == StreamInit /\ [][StreamNext]_<<vars, svars>> /\ WF_vars(Next)

----------------------------------------------------------------------------
(* Properties.                                                             *)

\* The bytes of the first k messages the peer said.
Bytes[k \in 0..Len(told)] == IF k = 0 THEN 0 ELSE Bytes[k - 1] + Len(Sent(told[k]))

Understood(m) == IF m.type = "unknown" THEN [m EXCEPT !.data = <<>>] ELSE m

\* However the stream is cut, the handler gets the messages the peer said, in
\* their order, each as soon as its last byte has come and never earlier, also
\* after messages it does not know (tor.hpp:332-375, 1027-1031).
HeardAsTold ==
    LET come == Bytes[Len(told)] - Len(wire) IN
    /\ Len(heard) <= Len(told)
    /\ \A k \in 1..Len(told) :
         IF Bytes[k] <= come THEN k <= Len(heard) /\ heard[k] = Understood(told[k])
         ELSE k > Len(heard)

\* The reader's buffer has the torrent's bytes at the blocks that are done and
\* nothing elsewhere; when the socket is closed it has the whole range
\* (tor.hpp:893-935, 1048-1057).
BufferIsRange ==
    st # "none" =>
        /\ \A i \in DOMAIN buf :
             buf[i] = IF \E k \in done : i \in sub[k].ptr .. (sub[k].ptr + sub[k].size - 1)
                      THEN Byte(beg + i) ELSE Nothing
        /\ st = "closed" => \A i \in 0..(end - beg - 1) : buf[i] # Nothing
=============================================================================
