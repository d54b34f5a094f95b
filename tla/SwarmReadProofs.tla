--------------------------- MODULE SwarmReadProofs ---------------------------
(***************************************************************************)
(* Proofs about SwarmRead, for any swarm, number of blocks and sockets, if *)
(* the handlers of several peers are not called while the reader connects  *)
(* (swarm_lost shows what happens otherwise).                              *)
(*                                                                         *)
(* The argument: the loop handles a socket only while the reader waits     *)
(* unsignalled, and the one that signals is the last in the table; so from *)
(* the signal to the next add3() there is nothing to handle.  When the     *)
(* reader begins to wait, each peer that a block was given to has a socket *)
(* that is still to be handled, or refused.                                *)
(***************************************************************************)
EXTENDS SwarmRead, Induction

\* No handler runs between two connections of one round.
NoHurry == \A s \in Swarms : s.peers > 1 => ~s.quick

Types ==
    /\ swarm \in Swarms
    /\ got \subseteq Blocks /\ had \subseteq Blocks
    /\ owner \in [Blocks -> Peers \cup {Nobody}]
    /\ status \in {"none", "d", "e"} /\ why \in {"none", "d", "e"}
    /\ rpc \in {"round", "alloc", "donesize", "clear", "peers", "add", "wait",
                "returned"}
    /\ i \in Nat /\ peer \in Peers /\ ret \in Nat
    /\ sock \in Conns \cup {Nobody} /\ cur \in Conns \cup {Nobody}
    /\ refused \subseteq Peers /\ dead \subseteq Conns
    /\ conn \in [Conns -> {"unused", "connected", "added"}]
    /\ host \in [Conns -> Peers \cup {Nobody}]
    /\ asked \in [Conns -> SUBSET Blocks]
    /\ said \in [Conns -> Nat]
    /\ inbox \in [Conns -> Seq(Messages)] /\ batch \in Seq(Messages)
    /\ hpc \in {"poll", "messages", "signal", "close"}

\* A socket that the loop is about to close, and one it may still handle.
Closing(c) == hpc = "close" /\ cur = c
Active(c)  == conn[c] = "added" /\ ~Closing(c)
Alone      == \A c \in Conns : ~Active(c)

\* The reader is done with this peer in this round, or the loop will handle it.
Cared(p) == PeerDone(p) \/ p \in refused \/ \E c \in Conns : Active(c) /\ host[c] = p

\* Some block is missing, and a peer was given it.
Assigned == \E k \in Blocks \ got : owner[k] \in Peers

\* Where each socket is.
Placed ==
    /\ \A c \in Conns : conn[c] = "connected" => rpc = "add" /\ c = sock
    /\ rpc = "add" => sock \in Conns /\ conn[sock] = "connected" /\ host[sock] = peer
    /\ hpc # "poll" => cur \in Conns /\ conn[cur] = "added"

\* The handler and the reader take turns.
Turns ==
    /\ hpc \in {"messages", "signal"} => rpc = "wait" /\ status = "none"
    /\ hpc = "signal" => why # "none" /\ Last(cur)
    /\ rpc \in {"peers", "add"} => status = "none"
    /\ rpc \in {"round", "alloc", "donesize", "clear", "returned"} => Alone
    /\ rpc = "wait" /\ status # "none" => Alone
    /\ rpc \in {"peers", "add"} /\ swarm.quick => Alone

\* What a round has arranged so far.
Arranged ==
    /\ rpc \in {"round", "donesize", "clear", "wait"} => peer = 1
    /\ rpc = "alloc" => got # Blocks
    /\ rpc = "alloc" /\ peer = 1 => owner = [k \in Blocks |-> Nobody]
    /\ rpc = "alloc" /\ peer > 1 => Assigned
    /\ rpc \in {"donesize", "clear", "peers", "add"} => Assigned
    /\ rpc \in {"peers", "add"} => \A p \in Peers : p < peer => Cared(p)
    /\ rpc = "wait" /\ status = "none" /\ Alone =>
           Assigned /\ \A p \in Peers : Cared(p)

\* What holds of any swarm, and what holds if nobody hurries.
Base == Types /\ Placed /\ WholeOrPrefix
IInv == Base /\ Turns /\ Arranged

USE SwarmReadAssumption DEF vars, request, reader, sockets, handler, Peers, Blocks, Nobody

----------------------------------------------------------------------------
(* The operators.                                                          *)

\* A swarm has a peer.
LEMMA SwarmHasPeers ==
    ASSUME swarm \in Swarms
    PROVE  swarm.peers \in Nat \ {0} /\ swarm.quick \in BOOLEAN  BY DEF Swarm

\* Request::continuous() counts blocks that are done, all before the first gap.
LEMMA ContinuousIsDone ==
    ASSUME got \subseteq Blocks
    PROVE  Continuous \in 0..NBlocks /\ 1..Continuous \subseteq got
  <1> DEFINE Gaps == {n \in 0..NBlocks : n = NBlocks \/ n + 1 \notin got}
  <1>1. Gaps \in SUBSET Nat /\ NBlocks \in Gaps  OBVIOUS
  <1>2. PICK n \in Gaps : \A m \in Gaps : n <= m
    <2> HIDE DEF Gaps
    <2> QED  BY <1>1, LeastNumber
  <1>3. ASSUME NEW j \in 1..n PROVE j \in got
    <2>1. j - 1 \in 0..NBlocks /\ j - 1 # NBlocks /\ j - 1 < n  OBVIOUS
    <2>2. j - 1 \notin Gaps  BY <1>2
    <2> QED  BY <2>2
  <1>4. 1..n \subseteq got /\ (n = NBlocks \/ n + 1 \notin got)  BY <1>2
  <1> QED  BY <1>4 DEF Continuous

\* Who was cared for still is, after a step that takes nothing from him.
LEMMA CaredKept ==
    ASSUME NEW p \in Peers, Cared(p), swarm' = swarm, owner' = owner,
           got \subseteq got', refused \subseteq refused',
           \A c \in Conns : Active(c) => Active(c)' /\ host'[c] = host[c]
    PROVE  Cared(p)'  BY DEF Cared, PeerDone

\* The loop over the peers goes on when the one it is at is cared for.
LEMMA NextPeerArranges ==
    ASSUME Base, Arranged, rpc \in {"peers", "add"}, NextPeer,
           swarm' = swarm, owner' = owner, got' = got,
           \A p \in Peers : p <= peer => Cared(p)'
    PROVE  Arranged'
  <1>1. Assigned'  BY DEF Arranged, Assigned
  <1>2. swarm.peers \in Nat /\ peer \in 1..swarm.peers
    BY SwarmHasPeers DEF Base, Types
  <1>3. CASE peer < swarm.peers
    <2>1. peer' = peer + 1 /\ rpc' = "peers"  BY <1>3 DEF NextPeer
    <2>2. \A p \in Peers : p < peer' => p <= peer  BY <1>2, <2>1
    <2> QED  BY <1>1, <2>1, <2>2 DEF Arranged
  <1>4. CASE ~(peer < swarm.peers)
    <2>1. peer' = 1 /\ rpc' = "wait"  BY <1>4 DEF NextPeer
    <2>2. \A p \in Peers : p <= peer  BY <1>2, <1>4
    <2> QED  BY <1>1, <2>1, <2>2 DEF Arranged
  <1> QED  BY <1>3, <1>4

----------------------------------------------------------------------------
(* One lemma per action: it keeps each part of the invariant.              *)

LEMMA StepRound ==
    ASSUME Base, Round
    PROVE  Base' /\ (NoHurry /\ IInv => IInv')
  <1>1. Types'
    <2>1. ret' \in Nat  BY ContinuousIsDone DEF Base, Types, Round
    <2> QED  BY <2>1 DEF Base, Types, Round
  <1>2. Placed'  BY DEF Base, Placed, Round
  <1>3. WholeOrPrefix'
    BY ContinuousIsDone DEF Base, Types, WholeOrPrefix, Round
  <1>4. ASSUME NoHurry, Turns, Arranged
        PROVE  Turns' /\ Arranged'
    <2> USE <1>4
    <2>1. Turns'  BY DEF Turns, Alone, Active, Closing, Round
    <2>2. Arranged'  BY DEF Arranged, Round
    <2> QED  BY <2>1, <2>2
  <1> QED  BY <1>1, <1>2, <1>3, <1>4 DEF Base, IInv

LEMMA StepAlloc ==
    ASSUME Base, Alloc
    PROVE  Base' /\ (NoHurry /\ IInv => IInv')
  <1>1. Types'
    <2>1. owner' \in [Blocks -> Peers \cup {Nobody}]  BY DEF Base, Types, Alloc
    <2>2. peer' \in Peers  BY SwarmHasPeers DEF Base, Types, Alloc
    <2> QED  BY <2>2 DEF Base, Types, Alloc
  <1>2. Placed'  BY DEF Base, Placed, Alloc
  <1>3. WholeOrPrefix'  BY DEF WholeOrPrefix, Alloc
  <1>4. ASSUME NoHurry, Turns, Arranged
        PROVE  Turns' /\ Arranged'
    <2> USE <1>4
    <2>1. Turns'  BY DEF Turns, Alone, Active, Closing, Alloc
    <2>2. Arranged'
      <3> DEFINE free == {k \in Blocks : k \notin got /\ owner[k] = Nobody}
      <3> USE DEF Base
      <3>0. got' = got /\ swarm' = swarm  BY DEF Alloc
      <3>1. ASSUME peer = 1 PROVE Assigned'
        <4>1. free = Blocks \ got /\ free # {}
          BY <3>1 DEF Types, Arranged, Alloc
        <4>2. PICK k \in free : \A j \in free : k <= j
          <5>1. free \in SUBSET Nat  OBVIOUS
          <5> HIDE DEF free
          <5> QED  BY <4>1, LeastNumber
        <4>3. {j \in free : j < k} = {}  BY <4>2
        <4>4. Cardinality({j \in free : j < k}) <= Limit  BY <4>3, FS_EmptySet
        <4>5. owner'[k] = peer
          <5>1. owner' = [b \in Blocks |->
                             IF b \in free /\ Cardinality({j \in free : j < b}) <= Limit
                             THEN peer ELSE owner[b]]
            BY DEF Alloc
          <5>2. k \in Blocks  OBVIOUS
          <5> HIDE DEF free
          <5> QED  BY ONLY <4>4, <5>1, <5>2, k \in free
        <4> QED  BY <3>0, <4>5 DEF Types, Assigned
      <3>2. ASSUME peer # 1 PROVE Assigned'
        <4>1. peer > 1  BY <3>2 DEF Types
        <4>2. PICK k \in Blocks \ got : owner[k] \in Peers
          BY <4>1 DEF Arranged, Assigned, Alloc
        <4>3. owner'[k] = owner[k]  BY <4>2 DEF Alloc
        <4> QED  BY <3>0, <4>2, <4>3 DEF Assigned
      <3>3. Assigned'  BY <3>1, <3>2
      <3>4. \/ rpc' = "donesize" /\ peer' = 1
            \/ rpc' = "alloc" /\ peer' = peer + 1 /\ peer + 1 # 1
        BY DEF Types, Alloc
      <3>5. got' # Blocks  BY DEF Arranged, Alloc
      <3> QED  BY <3>3, <3>4, <3>5 DEF Arranged
    <2> QED  BY <2>1, <2>2
  <1> QED  BY <1>1, <1>2, <1>3, <1>4 DEF Base, IInv

LEMMA StepDoneSize ==
    ASSUME Base, DoneSize
    PROVE  Base' /\ (NoHurry /\ IInv => IInv')
  <1>1. Types'  BY DEF Base, Types, DoneSize
  <1>2. Placed'  BY DEF Base, Placed, DoneSize
  <1>3. WholeOrPrefix'  BY DEF WholeOrPrefix, DoneSize
  <1>4. ASSUME NoHurry, Turns, Arranged
        PROVE  Turns' /\ Arranged'
    <2> USE <1>4
    <2>1. Turns'  BY DEF Turns, Alone, Active, Closing, DoneSize
    <2>2. Arranged'  BY DEF Arranged, Assigned, DoneSize
    <2> QED  BY <2>1, <2>2
  <1> QED  BY <1>1, <1>2, <1>3, <1>4 DEF Base, IInv

LEMMA StepClear ==
    ASSUME Base, Clear
    PROVE  Base' /\ (NoHurry /\ IInv => IInv')
  <1>1. Types'  BY DEF Base, Types, Clear
  <1>2. Placed'  BY DEF Base, Placed, Clear
  <1>3. WholeOrPrefix'  BY DEF WholeOrPrefix, Clear
  <1>4. ASSUME NoHurry, Turns, Arranged
        PROVE  Turns' /\ Arranged'
    <2> USE <1>4
    <2>1. Turns'  BY DEF Turns, Alone, Active, Closing, Clear
    <2>2. Arranged'  BY DEF Arranged, Assigned, Clear
    <2> QED  BY <2>1, <2>2
  <1> QED  BY <1>1, <1>2, <1>3, <1>4 DEF Base, IInv

LEMMA StepSkip ==
    ASSUME Base, Skip
    PROVE  Base' /\ (NoHurry /\ IInv => IInv')
  <1>1. Types'
    <2>1. peer' \in Peers  BY SwarmHasPeers DEF Base, Types, Skip, NextPeer
    <2> QED  BY <2>1 DEF Base, Types, Skip, NextPeer
  <1>2. Placed'  BY DEF Base, Placed, Skip, NextPeer
  <1>3. WholeOrPrefix'  BY DEF WholeOrPrefix, Skip, NextPeer
  <1>4. ASSUME NoHurry, Turns, Arranged
        PROVE  Turns' /\ Arranged'
    <2> USE <1>4
    <2>1. Turns'  BY DEF Turns, Alone, Active, Closing, Skip, NextPeer
    <2>2. Arranged'
      <3>1. \A p \in Peers : p <= peer => Cared(p)
        BY DEF Base, Types, Arranged, Cared, Skip
      <3>2. \A p \in Peers : p <= peer => Cared(p)'
        BY <3>1, CaredKept DEF Active, Closing, Skip
      <3> QED  BY <3>2, NextPeerArranges DEF Skip
    <2> QED  BY <2>1, <2>2
  <1> QED  BY <1>1, <1>2, <1>3, <1>4 DEF Base, IInv

LEMMA StepRefuse ==
    ASSUME Base, Refuse
    PROVE  Base' /\ (NoHurry /\ IInv => IInv')
  <1>1. Types'
    <2>1. peer' \in Peers  BY SwarmHasPeers DEF Base, Types, Refuse, NextPeer
    <2> QED  BY <2>1 DEF Base, Types, Refuse, NextPeer
  <1>2. Placed'  BY DEF Base, Placed, Refuse, NextPeer
  <1>3. WholeOrPrefix'  BY DEF WholeOrPrefix, Refuse, NextPeer
  <1>4. ASSUME NoHurry, Turns, Arranged
        PROVE  Turns' /\ Arranged'
    <2> USE <1>4
    <2>1. Turns'  BY DEF Turns, Alone, Active, Closing, Refuse, NextPeer
    <2>2. Arranged'
      <3>1. \A p \in Peers : p < peer => Cared(p)'
        BY CaredKept DEF Arranged, Active, Closing, Refuse
      <3>2. \A p \in Peers : p = peer => Cared(p)'  BY DEF Cared, Refuse
      <3>3. \A p \in Peers : p <= peer => Cared(p)'
        BY <3>1, <3>2 DEF Base, Types
      <3> QED  BY <3>3, NextPeerArranges DEF Refuse
    <2> QED  BY <2>1, <2>2
  <1> QED  BY <1>1, <1>2, <1>3, <1>4 DEF Base, IInv

LEMMA StepConnect ==
    ASSUME Base, Connect
    PROVE  Base' /\ (NoHurry /\ IInv => IInv')
  <1>1. Types'
    <2>1. PICK c \in Conns : /\ conn' = [conn EXCEPT ![c] = "connected"]
                             /\ host' = [host EXCEPT ![c] = peer] /\ sock' = c
      BY DEF Connect
    <2>2. conn' \in [Conns -> {"unused", "connected", "added"}]
      BY <2>1 DEF Base, Types
    <2>3. host' \in [Conns -> Peers \cup {Nobody}]  BY <2>1 DEF Base, Types
    <2> QED  BY <2>1 DEF Base, Types, Connect
  <1>2. Placed'  BY DEF Base, Types, Placed, Connect
  <1>3. WholeOrPrefix'  BY DEF WholeOrPrefix, Connect
  <1>4. ASSUME NoHurry, Turns, Arranged
        PROVE  Turns' /\ Arranged'
    <2> USE <1>4
    <2>1. Turns'  BY DEF Turns, Alone, Active, Closing, Connect
    <2>2. Arranged'
      <3>1. PICK c \in Conns : /\ conn[c] = "unused"
                               /\ conn' = [conn EXCEPT ![c] = "connected"]
                               /\ host' = [host EXCEPT ![c] = peer]
        BY DEF Connect
      <3>2. \A d \in Conns : Active(d) => Active(d)' /\ host'[d] = host[d]
        BY DEF Active, Closing, Connect
      <3>3. \A p \in Peers : p < peer => Cared(p)'
        BY <3>2, CaredKept DEF Arranged, Connect
      <3>4. Assigned'  BY DEF Arranged, Assigned, Connect
      <3> QED  BY <3>3, <3>4 DEF Arranged, Connect
    <2> QED  BY <2>1, <2>2
  <1> QED  BY <1>1, <1>2, <1>3, <1>4 DEF Base, IInv

LEMMA StepAdd ==
    ASSUME Base, Add
    PROVE  Base' /\ (NoHurry /\ IInv => IInv')
  <1>1. Types'
    <2>1. peer' \in Peers  BY SwarmHasPeers DEF Base, Types, Add, NextPeer
    <2> QED  BY <2>1 DEF Base, Types, Add, NextPeer
  <1>2. Placed'  BY DEF Base, Types, Placed, Add, NextPeer
  <1>3. WholeOrPrefix'  BY DEF WholeOrPrefix, Add, NextPeer
  <1>4. ASSUME NoHurry, Turns, Arranged
        PROVE  Turns' /\ Arranged'
    <2> USE <1>4
    <2>1. Turns'  BY DEF Base, Types, Turns, Last, NoHurry, Swarm, Add, NextPeer
    <2>2. Arranged'
      <3>1. sock \in Conns /\ conn[sock] = "connected" /\ host[sock] = peer
        BY DEF Base, Placed, Add
      <3>2. conn' = [conn EXCEPT ![sock] = "added"] /\ conn \in [Conns -> {"unused", "connected", "added"}]
        BY DEF Base, Types, Add
      <3>3. ~(hpc' = "close" /\ cur' = sock)  BY DEF Base, Placed, Add
      <3>4. \A p \in Peers : p = peer => Cared(p)'
        BY <3>1, <3>2, <3>3 DEF Cared, Active, Closing, Add
      <3>5. \A c \in Conns : Active(c) => Active(c)' /\ host'[c] = host[c]
        BY DEF Active, Closing, Add
      <3>6. \A p \in Peers : p < peer => Cared(p)'
        BY <3>5, CaredKept DEF Arranged, Add
      <3>7. \A p \in Peers : p <= peer => Cared(p)'
        BY <3>4, <3>6 DEF Base, Types
      <3> QED  BY <3>7, NextPeerArranges DEF Add
    <2> QED  BY <2>1, <2>2
  <1> QED  BY <1>1, <1>2, <1>3, <1>4 DEF Base, IInv

LEMMA StepWait ==
    ASSUME Base, Wait
    PROVE  Base' /\ (NoHurry /\ IInv => IInv')
  <1>1. Types'  BY DEF Base, Types, Wait
  <1>2. Placed'  BY DEF Base, Placed, Wait
  <1>3. WholeOrPrefix'  BY DEF WholeOrPrefix, Wait
  <1>4. ASSUME NoHurry, Turns, Arranged
        PROVE  Turns' /\ Arranged'
    <2> USE <1>4
    <2>1. Turns'  BY DEF Turns, Alone, Active, Closing, Wait
    <2>2. Arranged'  BY DEF Arranged, Wait
    <2> QED  BY <2>1, <2>2
  <1> QED  BY <1>1, <1>2, <1>3, <1>4 DEF Base, IInv

LEMMA StepSay ==
    ASSUME Base, NEW c \in Conns, NEW m \in Messages, Say(c, m)
    PROVE  Base' /\ (NoHurry /\ IInv => IInv')
  <1>1. Types'
    <2>1. said' \in [Conns -> Nat]  BY DEF Base, Types, Say
    <2>2. inbox' \in [Conns -> Seq(Messages)]  BY DEF Base, Types, Say
    <2> QED  BY <2>1, <2>2 DEF Base, Types, Say
  <1>2. Placed'  BY DEF Base, Placed, Say
  <1>3. WholeOrPrefix'  BY DEF Base, WholeOrPrefix, Say
  <1>4. ASSUME NoHurry, Turns, Arranged
        PROVE  Turns' /\ Arranged'
    <2> USE <1>4
    <2>1. Turns'  BY DEF Turns, Alone, Active, Closing, Last, Say
    <2>2. Arranged'
      BY DEF Alone, Active, Closing, Arranged, Cared, Assigned, PeerDone, Say
    <2> QED  BY <2>1, <2>2
  <1> QED  BY <1>1, <1>2, <1>3, <1>4 DEF Base, IInv

LEMMA StepHangUp ==
    ASSUME Base, NEW c \in Conns, HangUp(c)
    PROVE  Base' /\ (NoHurry /\ IInv => IInv')
  <1>1. Types'  BY DEF Base, Types, Placed, HangUp
  <1>2. Placed'  BY DEF Base, Placed, HangUp
  <1>3. WholeOrPrefix'  BY DEF Base, WholeOrPrefix, HangUp
  <1>4. ASSUME NoHurry, Turns, Arranged
        PROVE  Turns' /\ Arranged'
    <2> USE <1>4
    <2>1. Turns'  BY DEF Turns, Alone, Active, Closing, Last, HangUp
    <2>2. Arranged'
      BY DEF Alone, Active, Closing, Arranged, Cared, Assigned, PeerDone, HangUp
    <2> QED  BY <2>1, <2>2
  <1> QED  BY <1>1, <1>2, <1>3, <1>4 DEF Base, IInv

LEMMA StepTake ==
    ASSUME Base, NEW c \in Conns, Take(c)
    PROVE  Base' /\ (NoHurry /\ IInv => IInv')
  <1>1. Types'
    <2>1. inbox' \in [Conns -> Seq(Messages)]
      <3>1. <<>> \in Seq(Messages)  OBVIOUS
      <3> QED  BY DEF Base, Types, Take
    <2>2. batch' \in Seq(Messages)  BY DEF Base, Types, Take
    <2> QED  BY DEF Base, Types, Take
  <1>2. Placed'  BY DEF Base, Placed, Take
  <1>3. WholeOrPrefix'  BY DEF Base, WholeOrPrefix, Take
  <1>4. ASSUME NoHurry, Turns, Arranged
        PROVE  Turns' /\ Arranged'
    <2> USE <1>4
    <2>1. Turns'  BY DEF Base, Types, Turns, Alone, Active, Closing, Take
    <2>2. Arranged'  BY DEF Turns, Alone, Active, Closing, Arranged, Take
    <2> QED  BY <2>1, <2>2
  <1> QED  BY <1>1, <1>2, <1>3, <1>4 DEF Base, IInv

LEMMA StepMessage ==
    ASSUME Base, Message
    PROVE  Base' /\ (NoHurry /\ IInv => IInv')
  <1>1. Types'
    <2>1. Head(batch) \in Messages /\ batch' \in Seq(Messages)
      BY DEF Base, Types, Message
    <2>2. asked' \in [Conns -> SUBSET Blocks]  BY DEF Base, Types, Message
    <2>3. got' \subseteq Blocks /\ why' \in {"none", "d", "e"}
      BY <2>1 DEF Base, Types, Messages, Message
    <2> QED  BY <2>1, <2>2, <2>3 DEF Base, Types, Message
  <1>2. Placed'  BY DEF Base, Placed, Message
  <1>3. WholeOrPrefix'  BY DEF Base, WholeOrPrefix, Message
  <1>4. ASSUME NoHurry, Turns, Arranged
        PROVE  Turns' /\ Arranged'
    <2> USE <1>4
    <2>1. Turns'  BY DEF Turns, Message
    <2>2. Arranged'
      BY DEF Base, Placed, Turns, Alone, Active, Closing, Arranged, Message
    <2> QED  BY <2>1, <2>2
  <1> QED  BY <1>1, <1>2, <1>3, <1>4 DEF Base, IInv

LEMMA StepDecide ==
    ASSUME Base, Decide
    PROVE  Base' /\ (NoHurry /\ IInv => IInv')
  <1>1. Types'  BY DEF Base, Types, Decide
  <1>2. Placed'  BY DEF Base, Placed, Decide
  <1>3. WholeOrPrefix'  BY DEF Base, WholeOrPrefix, Decide
  <1>4. ASSUME NoHurry, Turns, Arranged
        PROVE  Turns' /\ Arranged'
    <2> USE <1>4
    <2>1. Turns'  BY DEF Turns, Last, Decide
    <2>2. Arranged'
      BY DEF Base, Placed, Turns, Alone, Active, Closing, Arranged, Last, Decide
    <2> QED  BY <2>1, <2>2
  <1> QED  BY <1>1, <1>2, <1>3, <1>4 DEF Base, IInv

LEMMA StepSignal ==
    ASSUME Base, Signal
    PROVE  Base' /\ (NoHurry /\ IInv => IInv')
  <1>1. Types'  BY DEF Base, Types, Signal
  <1>2. Placed'  BY DEF Base, Placed, Signal
  <1>3. WholeOrPrefix'  BY DEF Base, WholeOrPrefix, Signal
  <1>4. ASSUME NoHurry, Turns, Arranged
        PROVE  Turns' /\ Arranged'
    <2> USE <1>4
    <2>1. Turns'  BY DEF Turns, Alone, Active, Closing, Last, Signal
    <2>2. Arranged'  BY DEF Turns, Arranged, Signal
    <2> QED  BY <2>1, <2>2
  <1> QED  BY <1>1, <1>2, <1>3, <1>4 DEF Base, IInv

LEMMA StepClose ==
    ASSUME Base, Close
    PROVE  Base' /\ (NoHurry /\ IInv => IInv')
  <1>1. Types'
    <2>1. conn' \in [Conns -> {"unused", "connected", "added"}]
      BY DEF Base, Types, Close
    <2>2. host' \in [Conns -> Peers \cup {Nobody}]  BY DEF Base, Types, Close
    <2>3. asked' \in [Conns -> SUBSET Blocks] /\ said' \in [Conns -> Nat]
      BY DEF Base, Types, Close
    <2>4. inbox' \in [Conns -> Seq(Messages)]
      <3>1. <<>> \in Seq(Messages)  OBVIOUS
      <3> QED  BY <3>1 DEF Base, Types, Close
    <2> QED  BY <2>4 DEF Base, Types, Close
  <1>2. Placed'  BY DEF Base, Placed, Close
  <1>3. WholeOrPrefix'  BY DEF Base, WholeOrPrefix, Close
  <1>4. ASSUME NoHurry, Turns, Arranged
        PROVE  Turns' /\ Arranged'
    <2> USE <1>4
    <2>1. Turns'  BY DEF Base, Types, Turns, Alone, Active, Closing, Close
    <2>2. Arranged'
      <3>1. cur \in Conns /\ conn \in [Conns -> {"unused", "connected", "added"}]
            /\ host \in [Conns -> Peers \cup {Nobody}]
        BY DEF Base, Types, Placed, Close
      <3>2. \A d \in Conns : (Active(d)' <=> Active(d)) /\ (Active(d) => host'[d] = host[d])
        BY <3>1 DEF Active, Closing, Close
      <3>3. Alone' <=> Alone  BY <3>2 DEF Alone
      <3>4. \A p \in Peers : Cared(p) => Cared(p)'  BY <3>2, CaredKept DEF Close
      <3>5. Assigned <=> Assigned'  BY DEF Assigned, Close
      <3> QED  BY <3>3, <3>4, <3>5 DEF Arranged, Close
    <2> QED  BY <2>1, <2>2
  <1> QED  BY <1>1, <1>2, <1>3, <1>4 DEF Base, IInv

LEMMA Initially == Init => IInv
  <1> SUFFICES ASSUME Init PROVE IInv  OBVIOUS
  <1>1. Types
    <2>1. peer \in Peers  BY SwarmHasPeers DEF Init
    <2>2. <<>> \in Seq(Messages)  OBVIOUS
    <2>3. inbox \in [Conns -> Seq(Messages)] /\ batch \in Seq(Messages)
      BY DEF Init
    <2>4. owner \in [Blocks -> Peers \cup {Nobody}]  BY DEF Init
    <2>5. conn \in [Conns -> {"unused", "connected", "added"}]
          /\ host \in [Conns -> Peers \cup {Nobody}]  BY DEF Init
    <2>6. asked \in [Conns -> SUBSET Blocks] /\ said \in [Conns -> Nat]
      BY DEF Init
    <2> QED  BY <2>1 DEF Init, Types
  <1>2. Placed  BY DEF Init, Placed
  <1>3. Turns  BY DEF Init, Turns, Alone, Active
  <1>4. Arranged  BY DEF Init, Arranged
  <1>5. WholeOrPrefix  BY DEF Init, WholeOrPrefix
  <1> QED  BY <1>1, <1>2, <1>3, <1>4, <1>5 DEF Base, IInv

LEMMA Stutters ==
    ASSUME Base, UNCHANGED vars
    PROVE  Base' /\ (NoHurry /\ IInv => IInv')
  <1>1. Types'  BY DEF Base, Types, Messages, Unchoke
  <1>2. Placed'  BY DEF Base, Placed
  <1>3. WholeOrPrefix'  BY DEF Base, WholeOrPrefix
  <1>4. Turns => Turns'  BY DEF Turns, Alone, Active, Closing, Last
  <1>5. (Alone' <=> Alone) /\ (Assigned' <=> Assigned)
    BY DEF Alone, Active, Closing, Assigned
  <1>6. \A p \in Peers : Cared(p) => Cared(p)'  BY CaredKept DEF Active, Closing
  <1>7. Arranged => Arranged'  BY <1>5, <1>6 DEF Arranged
  <1> QED  BY <1>1, <1>2, <1>3, <1>4, <1>7 DEF Base, IInv

LEMMA StepsKeep ==
    ASSUME Base, [Next]_vars
    PROVE  Base' /\ (NoHurry /\ IInv => IInv')
  <1>1. CASE ReaderStep
    BY <1>1, StepRound, StepAlloc, StepDoneSize, StepClear, StepSkip,
       StepRefuse, StepConnect, StepAdd, StepWait
       DEF ReaderStep
  <1>2. CASE LoopStep
    BY <1>2, StepTake, StepMessage, StepDecide, StepSignal, StepClose
       DEF LoopStep
  <1>3. CASE \E c \in Conns : HangUp(c) \/ \E m \in Messages : Say(c, m)
    BY <1>3, StepHangUp, StepSay
  <1> QED  BY <1>1, <1>2, <1>3, Stutters DEF Next

----------------------------------------------------------------------------
(* The theorems.                                                           *)

\* What the reader, the loop and the sockets know of each other in every state
\* of File::read() and its handlers (tor.hpp:1023-1129).
THEOREM Invariance ==
    ASSUME NoHurry
    PROVE  Spec => []IInv
  <1>1. IInv => Base  BY DEF IInv
  <1>2. IInv /\ [Next]_vars => IInv'  BY <1>1, StepsKeep
  <1> QED  BY <1>2, Initially, PTL DEF Spec

\* No handler touches the request on the reader's stack when read() has
\* returned, whatever peers send, repeat or leave out (tor.hpp:1118, 1073).
THEOREM RequestOutlivesHandlers ==
    ASSUME NoHurry
    PROVE  Spec => []NoLateUse
  <1>1. IInv => NoLateUse  BY DEF IInv, Turns, NoLateUse
  <1> QED  BY <1>1, Invariance, PTL

\* Whenever the reader waits and no handler is left that could signal, each
\* peer a missing block was given to was refused in this round: no signal is
\* lost (tor.hpp:1110-1122).
THEOREM NoSignalLost ==
    ASSUME NoHurry
    PROVE  Spec => []WaitsForSomeone
  <1>1. ASSUME IInv, Stranded
        PROVE  refused # {} /\ \A p \in Peers : PeerDone(p) \/ p \in refused
    <2>1. Alone  BY <1>1 DEF Stranded, Alone, Active, Closing
    <2>2. Assigned /\ \A p \in Peers : Cared(p)
      BY <1>1, <2>1 DEF Stranded, IInv, Arranged
    <2>3. \A p \in Peers : PeerDone(p) \/ p \in refused
      BY <2>1, <2>2 DEF Cared, Alone
    <2> QED  BY <2>2, <2>3 DEF Assigned, PeerDone
  <1>2. IInv => WaitsForSomeone  BY <1>1 DEF WaitsForSomeone
  <1> QED  BY <1>2, Invariance, PTL

\* What read() reports as read is done from the first byte on, also when it
\* gives up after three rounds, and for swarms of any kind (tor.hpp:970-978,
\* 1102-1104).
THEOREM ReportIsDone == Spec => []WholeOrPrefix
  <1>1. Init => Base  BY Initially DEF IInv
  <1>2. Base /\ [Next]_vars => Base'  BY StepsKeep
  <1>3. Base => WholeOrPrefix  BY DEF Base
  <1> QED  BY <1>1, <1>2, <1>3, PTL DEF Spec
=============================================================================
