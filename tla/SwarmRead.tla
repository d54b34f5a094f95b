----------------------------- MODULE SwarmRead -----------------------------
(***************************************************************************)
(* File::read() (tor.hpp) with the handlers it leaves to the poll loop.    *)
(* The reader's thread shares its blocks between the peers, connects to    *)
(* them, gives the sockets to the loop and waits on a condition variable.  *)
(* The loop's thread stores what peers send, closes the sockets that are   *)
(* done or failed, and signals when it is about to close the last one that *)
(* the table (TSocket::fds) has for this read.                             *)
(*                                                                         *)
(* The request lives on the reader's stack. Blocks have one size, messages *)
(* come whole; PollLoop has the table, BlockRequest the blocks.            *)
(***************************************************************************)
EXTENDS Naturals, Sequences, FiniteSets

CONSTANTS
    Swarms,      \* what peers_ may be like, see Swarm
    NBlocks,     \* the blocks of the read
    Limit,       \* alloc() goes one block past this many, 3 MB in the program
    Conns,       \* names of sockets, used again like descriptor numbers
    MaxSays      \* bound: messages that a peer sends on one connection

Nobody == 0

\* The length of peers_; whether some socket may be handled while the reader
\* still connects to other peers, or they are slower than that.
Swarm == [peers : Nat \ {0}, quick : BOOLEAN]

ASSUME SwarmReadAssumption ==
    /\ Swarms \subseteq Swarm
    /\ NBlocks \in Nat \ {0} /\ Limit \in Nat
    /\ Conns \subseteq Nat \ {Nobody} /\ MaxSays \in Nat

VARIABLES
    swarm,    \* the swarm, always the same
    got,      \* blocks that are done
    owner,    \* per block the peer alloc() gave it to
    status,   \* Block::status
    rpc,      \* the reader
    i,        \* its count of rounds without progress
    had,      \* what was done when the round began, for donesize() then
    peer,     \* the peer its loops are at
    sock,     \* the socket it is adding
    ret,      \* readbytes, in blocks
    refused,  \* history: peers that could not be connected in this round
    conn,     \* per socket: unused, connected, or in the table
    host,     \* per socket its peer
    asked,    \* per socket the blocks requested on it
    said,     \* per socket how many messages have come
    inbox,    \* per socket what has come and is not read
    dead,     \* sockets whose peer hung up
    hpc,      \* the loop's thread
    cur,      \* the socket it handles
    batch,    \* messages it has read from cur
    why       \* what File::operator() thinks of cur

Peers  == 1..swarm.peers
Blocks == 1..NBlocks

request == <<got, owner, status>>
reader  == <<rpc, i, had, peer, sock, ret, refused>>
sockets == <<conn, host, asked, said, inbox, dead>>
handler == <<hpc, cur, batch, why>>
vars    == <<request, reader, sockets, handler, swarm>>

\* A message is an unchoke, or a block.
Unchoke  == 0
Messages == Blocks \cup {Unchoke}

Init ==
    /\ swarm \in Swarms
    /\ got = {}
    /\ owner = [k \in Blocks |-> Nobody]
    /\ status = "none"
    /\ rpc = "round" /\ i = 0 /\ had = {} /\ peer = 1 /\ sock = Nobody /\ ret = 0
    /\ refused = {}
    /\ conn = [c \in Conns |-> "unused"]
    /\ host = [c \in Conns |-> Nobody]
    /\ asked = [c \in Conns |-> {}]
    /\ said = [c \in Conns |-> 0]
    /\ inbox = [c \in Conns |-> <<>>]
    /\ dead = {}
    /\ hpc = "poll" /\ cur = Nobody /\ batch = <<>> /\ why = "none"

\* Request::isdone(peer): nothing the peer was given is missing.
PeerDone(p) == \A k \in Blocks : owner[k] = p => k \in got

\* A wrong variant: all that is done counts, behind a gap, too.
ContinuousOrNot == Cardinality(got)

\* Request::continuous(): how many blocks are done before the first gap.
Continuous == CHOOSE n \in 0..NBlocks :
                 1..n \subseteq got /\ (n = NBlocks \/ n + 1 \notin got)

----------------------------------------------------------------------------
(* The reader.                                                             *)

\* The head of the loop: all done, three rounds in vain, or another round,
\* for which free() takes all blocks back.
Round ==
    /\ rpc = "round"
    /\ IF got = Blocks
       THEN rpc' = "returned" /\ ret' = NBlocks /\ UNCHANGED owner
       ELSE IF i = 3
       THEN rpc' = "returned" /\ ret' = Continuous /\ UNCHANGED owner
       ELSE /\ rpc' = "alloc"
            /\ owner' = [k \in Blocks |-> Nobody]
            /\ UNCHANGED ret
    /\ UNCHANGED <<got, status, i, had, peer, sock, refused, sockets, handler,
                   swarm>>

\* alloc(): the next peer gets the free blocks, in order, until it has got
\* more than Limit of them.
Alloc ==
    /\ rpc = "alloc"
    /\ LET free == {k \in Blocks : k \notin got /\ owner[k] = Nobody} IN
       owner' = [k \in Blocks |->
                    IF k \in free /\ Cardinality({j \in free : j < k}) <= Limit
                    THEN peer ELSE owner[k]]
    /\ IF peer < swarm.peers THEN peer' = peer + 1 /\ UNCHANGED rpc
                             ELSE peer' = 1 /\ rpc' = "donesize"
    /\ UNCHANGED <<got, status, i, had, sock, ret, refused, sockets, handler,
                   swarm>>

DoneSize ==
    /\ rpc = "donesize"
    /\ had' = got
    /\ rpc' = "clear"
    /\ UNCHANGED <<request, i, peer, sock, ret, refused, sockets, handler,
                   swarm>>

Clear ==
    /\ rpc = "clear"
    /\ status' = "none"
    /\ refused' = {}
    /\ rpc' = "peers"
    /\ UNCHANGED <<got, owner, i, had, peer, sock, ret, sockets, handler, swarm>>

\* The loop over the peers goes on, or ends and the reader waits.
NextPeer == IF peer < swarm.peers THEN peer' = peer + 1 /\ rpc' = "peers"
                                  ELSE peer' = 1 /\ rpc' = "wait"

\* A peer with nothing to do is left out,
Skip ==
    /\ rpc = "peers"
    /\ PeerDone(peer)
    /\ NextPeer
    /\ UNCHANGED <<request, i, had, sock, ret, refused, sockets, handler,
                   swarm>>

\* and one that cannot be connected.
Refuse ==
    /\ rpc = "peers"
    /\ ~PeerDone(peer)
    /\ refused' = refused \cup {peer}
    /\ NextPeer
    /\ UNCHANGED <<request, i, had, sock, ret, sockets, handler, swarm>>

Connect ==
    /\ rpc = "peers"
    /\ ~PeerDone(peer)
    /\ \E c \in Conns :
        /\ conn[c] = "unused"
        /\ \A d \in Conns : conn[d] = "unused" => c <= d
        /\ conn' = [conn EXCEPT ![c] = "connected"]
        /\ host' = [host EXCEPT ![c] = peer]
        /\ sock' = c
    /\ rpc' = "add"
    /\ UNCHANGED <<request, i, had, peer, ret, refused, asked, said, inbox,
                   dead, handler, swarm>>

\* add3(); the handshake and "interested" go out.
Add ==
    /\ rpc = "add"
    /\ conn' = [conn EXCEPT ![sock] = "added"]
    /\ sock' = Nobody
    /\ NextPeer
    /\ UNCHANGED <<request, i, had, ret, refused, host, asked, said, inbox,
                   dead, handler, swarm>>

\* A wrong variant: the count starts again after a round without progress, too.
WaitResets ==
    /\ rpc = "wait"
    /\ status # "none"
    /\ i' = 0
    /\ rpc' = "round"
    /\ UNCHANGED <<request, had, peer, sock, ret, refused, sockets, handler,
                   swarm>>

\* Block::wait() returns; a round with progress starts the count again.
Wait ==
    /\ rpc = "wait"
    /\ status # "none"
    /\ i' = IF got # had THEN 0 ELSE i + 1
    /\ rpc' = "round"
    /\ UNCHANGED <<request, had, peer, sock, ret, refused, sockets, handler,
                   swarm>>

ReaderStep ==
    \/ Round \/ Alloc \/ DoneSize \/ Clear
    \/ Skip \/ Refuse \/ Connect \/ Add \/ Wait

----------------------------------------------------------------------------
(* The peers: they allow requests, send what they were asked for, once or  *)
(* more often, and hang up.                                                *)

Say(c, m) ==
    /\ conn[c] # "unused" /\ c \notin dead
    /\ said[c] < MaxSays
    /\ m = Unchoke \/ m \in asked[c]
    /\ said' = [said EXCEPT ![c] = @ + 1]
    /\ inbox' = [inbox EXCEPT ![c] = Append(@, m)]
    /\ UNCHANGED <<request, reader, conn, host, asked, dead, handler, swarm>>

HangUp(c) ==
    /\ conn[c] # "unused" /\ c \notin dead
    /\ dead' = dead \cup {c}
    /\ UNCHANGED <<request, reader, conn, host, asked, said, inbox, handler, swarm>>

----------------------------------------------------------------------------
(* The loop's thread in File::operator().                                  *)

\* runonce() reads what has come and calls the handler.
Take(c) ==
    /\ hpc = "poll"
    /\ swarm.quick \/ rpc \in {"wait", "returned"}
    /\ conn[c] = "added"
    /\ inbox[c] # <<>> \/ c \in dead
    /\ cur' = c
    /\ batch' = inbox[c]
    /\ inbox' = [inbox EXCEPT ![c] = <<>>]
    /\ why' = IF c \in dead THEN "e" ELSE "none"
    /\ hpc' = "messages"
    /\ UNCHANGED <<request, reader, conn, host, asked, said, dead, swarm>>

\* On an unchoke the peer is asked for what it was given and is missing; a
\* block is stored, and the peer is done when it was its last.
Message ==
    /\ hpc = "messages"
    /\ batch # <<>>
    /\ LET m == Head(batch)
           p == host[cur]
       IN IF m = Unchoke
          THEN /\ asked' = [asked EXCEPT ![cur] = @ \cup
                               {k \in Blocks : owner[k] = p /\ k \notin got}]
               /\ UNCHANGED <<got, why>>
          ELSE /\ got' = got \cup {m}
               /\ why' = IF \A k \in Blocks : owner[k] = p => k \in got'
                         THEN "d" ELSE why
               /\ UNCHANGED asked
    /\ batch' = Tail(batch)
    /\ UNCHANGED <<owner, status, reader, conn, host, said, inbox, dead, hpc, cur, swarm>>

\* count2(current)==1: the table has no other socket of this read.
Last(c) == \A d \in Conns : conn[d] = "added" => d = c

\* A wrong variant: an error closes the socket and nobody is told.
DecideDoneOnly ==
    /\ hpc = "messages"
    /\ batch = <<>>
    /\ hpc' = IF why = "none" THEN "poll"
              ELSE IF why = "d" /\ Last(cur) THEN "signal" ELSE "close"
    /\ cur' = IF why = "none" THEN Nobody ELSE cur
    /\ UNCHANGED <<request, reader, sockets, batch, why, swarm>>

\* Without an end the handler returns 0 and the socket stays.
Decide ==
    /\ hpc = "messages"
    /\ batch = <<>>
    /\ hpc' = IF why = "none" THEN "poll"
              ELSE IF Last(cur) THEN "signal" ELSE "close"
    /\ cur' = IF why = "none" THEN Nobody ELSE cur
    /\ UNCHANGED <<request, reader, sockets, batch, why, swarm>>

Signal ==
    /\ hpc = "signal"
    /\ status' = why
    /\ hpc' = "close"
    /\ UNCHANGED <<got, owner, reader, sockets, cur, batch, why, swarm>>

\* A wrong variant: the socket of a peer that is done stays in the table.
CloseFailed ==
    /\ hpc = "close"
    /\ conn' = [conn EXCEPT ![cur] = IF why = "e" THEN "unused" ELSE @]
    /\ host' = [host EXCEPT ![cur] = IF why = "e" THEN Nobody ELSE @]
    /\ asked' = [asked EXCEPT ![cur] = IF why = "e" THEN {} ELSE @]
    /\ said' = [said EXCEPT ![cur] = IF why = "e" THEN 0 ELSE @]
    /\ inbox' = [inbox EXCEPT ![cur] = IF why = "e" THEN <<>> ELSE @]
    /\ dead' = IF why = "e" THEN dead \ {cur} ELSE dead
    /\ cur' = Nobody
    /\ why' = "none"
    /\ hpc' = "poll"
    /\ UNCHANGED <<request, reader, batch, swarm>>

\* runonce() takes the socket out of the table and closes it.
Close ==
    /\ hpc = "close"
    /\ conn' = [conn EXCEPT ![cur] = "unused"]
    /\ host' = [host EXCEPT ![cur] = Nobody]
    /\ asked' = [asked EXCEPT ![cur] = {}]
    /\ said' = [said EXCEPT ![cur] = 0]
    /\ inbox' = [inbox EXCEPT ![cur] = <<>>]
    /\ dead' = dead \ {cur}
    /\ cur' = Nobody
    /\ why' = "none"
    /\ hpc' = "poll"
    /\ UNCHANGED <<request, reader, batch, swarm>>

LoopStep == Message \/ Decide \/ Signal \/ Close \/ \E c \in Conns : Take(c)

----------------------------------------------------------------------------
Next ==
    \/ ReaderStep
    \/ LoopStep
    \/ \E c \in Conns : HangUp(c) \/ \E m \in Messages : Say(c, m)

\* Both threads run. That a connection ends is the network's part: peers
\* drop idle ones. What they send before is theirs to choose.
Fairness ==
    /\ WF_vars(ReaderStep)
    /\ WF_vars(LoopStep)
    /\ \A c \in Conns : WF_vars(Take(c)) /\ WF_vars(HangUp(c))

Spec == Init /\ [][Next]_vars /\ Fairness

----------------------------------------------------------------------------
(* Properties.                                                             *)

\* No handler touches the request, which is on the reader's stack, once
\* read() has returned (tor.hpp:1118, 1073).
NoLateUse == hpc \in {"messages", "signal"} => rpc # "returned"

\* The reader waits, and no socket is left whose handler could signal.
Stranded ==
    /\ rpc = "wait" /\ status = "none"
    /\ \A c \in Conns : conn[c] = "added" => hpc = "close" /\ cur = c

\* While the reader waits there is someone to wait for: "peer done or error"
\* (tor.hpp:1122). Only when connect() failed for every peer that the round
\* needs is there nobody.
WaitsForSomeone ==
    Stranded => /\ refused # {}
                /\ \A p \in Peers : PeerDone(p) \/ p \in refused

\* What read() reports is there from the first byte on (tor.hpp:1102-1104).
WholeOrPrefix == rpc = "returned" => 1..ret \subseteq got

\* A read that waits for its peers returns, after three rounds in vain at the
\* latest (tor.hpp:1098-1126).
Returns == <>(rpc = "returned" \/ (Stranded /\ refused # {}))
=============================================================================
