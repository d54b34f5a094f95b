---------------------------- MODULE TravelProofs ----------------------------
(***************************************************************************)
(* The safety properties of module Travel, for every table size, table,    *)
(* start and visitor.  Behind them those of module FileRead: what a        *)
(* positioned read gives, for every size of a cluster, offset and count.   *)
(* The functions that FileRead defines by recursion are shown to exist;    *)
(* the rest is induction over offsets, counts and chains.                  *)
(***************************************************************************)
EXTENDS MCTravel, Induction

-----------------------------------------------------------------------------
(* The chain of a cluster, as a least fixed point. *)

\* A walk starts in its chain.
LEMMA ChainStart == ASSUME NEW f, NEW b \in Cluster PROVE b \in ChainOf(f, b)
  BY DEF ChainOf

\* A walk that follows a link stays in its chain.
LEMMA ChainStep ==
  ASSUME NEW f, NEW b, NEW c \in ChainOf(f, b), Linked(f, c)
  PROVE  f[c] \in ChainOf(f, b)
  <1>1. f[c] \in Cluster  BY DEF Linked
  <1>2. ASSUME NEW S \in SUBSET Cluster, b \in S, Closed(f, S)
        PROVE  f[c] \in S
    <2>1. c \in S  BY <1>2 DEF ChainOf
    <2> QED  BY <1>2, <2>1 DEF Closed
  <1> QED  BY <1>1, <1>2 DEF ChainOf

\* A set of clusters that holds the start and is closed holds the chain.
LEMMA ChainLeast ==
  ASSUME NEW f, NEW b, NEW S \in SUBSET Cluster, b \in S, Closed(f, S)
  PROVE  ChainOf(f, b) \subseteq S
  BY DEF ChainOf

\* A linked cluster is not the last one: end marks lie above the clusters.
LEMMA LinkedNotLast ==
  ASSUME NEW f, NEW c, Linked(f, c)
  PROVE  ~Last(f, c)
  BY FatAssumption DEF Linked, Last, Cluster

-----------------------------------------------------------------------------
(***************************************************************************)
(* What the walk knows at the head of its loop: the clusters seen so far   *)
(* are linked, belong to the chain, and lead to pos; while no break was    *)
(* counted they are the run first .. pos - 1, and after the first break no *)
(* single run can describe the chain.                                      *)
(***************************************************************************)
Trail ==
    /\ Startable(first)
    /\ pos \in ChainOf(fat, first)
    /\ seen \subseteq ChainOf(fat, first)
    /\ first \in seen \union {pos}
    /\ \A c \in seen : Linked(fat, c) /\ fat[c] \in seen \union {pos}

Breaks ==
    /\ frags = 0 => first <= pos /\ RunTo(fat, first, pos)
    /\ frags # 0 => ~OneExtent(fat, first)

IInv ==
    /\ TypeOK
    /\ pc = "check" => pos = first /\ seen = {} /\ frags = 0
    /\ pc = "loop" => Trail /\ Breaks
    /\ NchainOneIffExtent
    /\ SeesWholeChain
    /\ OutcomeMatchesShape

\* A run that stops being a run before its end mark is no single extent.
LEMMA BreakIsNoExtent ==
  ASSUME NEW f \in FatTable, NEW b \in Nat, NEW p \in Cluster,
         b <= p, RunTo(f, b, p), f[p] # p + 1, ~Last(f, p)
  PROVE  ~OneExtent(f, b)
  <1> SUFFICES ASSUME NEW e \in b .. (NFat - 1), Last(f, e), RunTo(f, b, e)
               PROVE  FALSE
    BY DEF OneExtent
  <1> USE FatAssumption DEF Cluster
  <1>1. CASE e < p
    <2>1. f[e] = e + 1  BY <1>1 DEF RunTo
    <2> QED  BY <2>1 DEF Last
  <1>2. CASE e = p
    BY <1>2
  <1>3. CASE p < e
    BY <1>3 DEF RunTo
  <1> QED  BY <1>1, <1>2, <1>3

\* A run that has reached an end mark is a single extent.
LEMMA EndIsExtent ==
  ASSUME NEW f \in FatTable, NEW b \in Nat, NEW p \in Cluster,
         b <= p, RunTo(f, b, p), Last(f, p)
  PROVE  OneExtent(f, b)
  BY FatAssumption DEF OneExtent, Cluster

\* When the walk stands on a cluster that leads nowhere, it has seen it all.
LEMMA TrailIsChain ==
  ASSUME TypeOK, pc = "loop", Trail, ~Linked(fat, pos)
  PROVE  seen \union {pos} = ChainOf(fat, first)
  <1> DEFINE S == seen \union {pos}
  <1>1. S \in SUBSET Cluster  BY DEF TypeOK
  <1>2. first \in S /\ Closed(fat, S)  BY DEF Trail, Closed
  <1>3. ChainOf(fat, first) \subseteq S  BY <1>1, <1>2, ChainLeast
  <1> QED  BY <1>3 DEF Trail

-----------------------------------------------------------------------------
LEMMA InitIInv == ASSUME Init PROVE IInv
  BY TravelAssumption
     DEF Init, IInv, TypeOK, Many, NchainOneIffExtent, SeesWholeChain,
         OutcomeMatchesShape, Ended

LEMMA CheckIInv == ASSUME IInv, Check PROVE IInv'
  <1> USE DEF IInv, TypeOK, Check
  <1>1. CASE Startable(first)
    <2>1. first \in Cluster  BY <1>1, FatAssumption DEF Startable, Cluster
    <2>2. pc' = "loop"  BY <1>1
    <2>3. Trail'
      BY <1>1, <2>1, ChainStart DEF Trail, Startable, ChainOf, Closed, Linked
    <2>4. Breaks'
      BY <2>1 DEF Breaks, RunTo, Cluster
    <2> QED
      BY <2>1, <2>2, <2>3, <2>4
         DEF NchainOneIffExtent, SeesWholeChain, OutcomeMatchesShape, Ended, Many
  <1>2. CASE ~Startable(first)
    <2>1. pc' = "failed"  BY <1>2
    <2>2. OutcomeMatchesShape'
      BY <1>2, <2>1 DEF OutcomeMatchesShape, TravelEnd, Sound, Endless
    <2> QED
      BY <2>1, <2>2 DEF NchainOneIffExtent, SeesWholeChain, Many
  <1> QED  BY <1>1, <1>2

\* The iteration that follows a link.
LEMMA FollowIInv ==
  ASSUME IInv, Visit, pc' = "loop"
  PROVE  IInv'
  <1> USE DEF IInv, TypeOK, Visit, Visitor
  <1>1. Trail /\ Breaks /\ Linked(fat, pos) /\ pos' = fat[pos] /\ pos \in Cluster
    OBVIOUS
  <1>2. pos' \in Cluster  BY <1>1 DEF Linked
  <1>3. TypeOK'  BY <1>2, FatAssumption DEF Many, Cluster
  <1>4. Trail'
    <2>1. pos' \in ChainOf(fat, first)  BY <1>1, ChainStep DEF Trail
    <2> QED  BY <1>1, <2>1 DEF Trail, Startable, ChainOf, Closed, Linked
  <1>5. Breaks'
    <2>1. ~Last(fat, pos)  BY <1>1, LinkedNotLast
    <2>2. CASE frags = 0 /\ fat[pos] = pos + 1
      <3>1. frags' = 0 /\ first <= pos' /\ RunTo(fat, first, pos')
        BY <1>1, <2>2 DEF Breaks, RunTo, Cluster
      <3> QED  BY <3>1 DEF Breaks, RunTo
    <2>3. CASE frags = 0 /\ fat[pos] # pos + 1
      <3>1. ~OneExtent(fat, first)
        BY <1>1, <2>1, <2>3, BreakIsNoExtent DEF Breaks
      <3> QED  BY <2>3, <3>1 DEF Breaks, OneExtent, Last, RunTo, Many
    <2>4. CASE frags # 0
      <3>1. frags' # 0  BY <2>4 DEF Many
      <3> QED  BY <1>1, <2>4, <3>1 DEF Breaks, OneExtent, Last, RunTo
    <2> QED  BY <2>2, <2>3, <2>4
  <1> QED
    BY <1>3, <1>4, <1>5
       DEF NchainOneIffExtent, SeesWholeChain, OutcomeMatchesShape, Ended

\* The iteration that ends the walk.
LEMMA EndIInv ==
  ASSUME IInv, Visit, pc' # "loop"
  PROVE  IInv'
  <1> USE DEF IInv, TypeOK, Visit, Visitor
  <1>1. Trail /\ Breaks /\ pos' = pos /\ pos \in Cluster /\ pc' \in {"done", "failed"}
    OBVIOUS
  <1>2. TypeOK'  BY <1>1 DEF Many
  <1>3. ASSUME stops = {}, pc' = "done"
        PROVE  /\ frags' = 1 <=> OneExtent(fat, first)
               /\ seen' = ChainOf(fat, first)
               /\ Sound(fat, first)
    <2>1. Last(fat, pos)  BY <1>3
    <2>2. ~Linked(fat, pos)  BY <2>1, LinkedNotLast
    <2>3. seen' = ChainOf(fat, first)  BY <1>1, <2>2, TrailIsChain
    <2>4. Sound(fat, first)  BY <1>1, <2>1 DEF Sound, Trail
    <2>5. pos + 1 # fat[pos]  BY <1>1, <2>1, FatAssumption DEF Last, Cluster
    <2>6. CASE frags = 0
      <3>1. frags' = 1  BY <2>5, <2>6 DEF Many
      <3>2. OneExtent(fat, first)
        BY <1>1, <2>1, <2>6, EndIsExtent DEF Breaks
      <3> QED  BY <2>3, <2>4, <3>1, <3>2
    <2>7. CASE frags # 0
      <3>1. frags' = 2  BY <2>5, <2>7 DEF Many
      <3>2. ~OneExtent(fat, first)  BY <1>1, <2>7 DEF Breaks
      <3> QED  BY <2>3, <2>4, <3>1, <3>2
    <2> QED  BY <2>6, <2>7
  <1>4. ASSUME pc' = "failed"
        PROVE  ~Sound(fat, first) /\ ~Endless(fat, first)
    <2>1. Broken(fat, pos)  BY <1>4
    <2>2. ~Linked(fat, pos) /\ ~Last(fat, pos)  BY <2>1 DEF Broken
    <2>3. seen \union {pos} = ChainOf(fat, first)  BY <1>1, <2>2, TrailIsChain
    <2>4. \A c \in seen : ~Last(fat, c)  BY <1>1, LinkedNotLast DEF Trail
    <2> QED  BY <1>1, <2>2, <2>3, <2>4 DEF Sound, Endless, Trail
  <1>5. stops' = stops /\ fat' = fat /\ first' = first
    OBVIOUS
  <1>6. NchainOneIffExtent' /\ SeesWholeChain'
    BY <1>3, <1>5
       DEF NchainOneIffExtent, SeesWholeChain, OneExtent, ChainOf, Closed, Linked,
           Last, RunTo
  <1>7. OutcomeMatchesShape'
    <2>1. (stops = {} => pc' = TravelEnd(fat, first))
      BY <1>1, <1>3, <1>4 DEF TravelEnd
    <2> QED
      BY <1>5, <2>1
         DEF OutcomeMatchesShape, Ended, TravelEnd, Sound, Endless, ChainOf, Closed,
             Linked, Last, Startable
  <1> QED  BY <1>1, <1>2, <1>6, <1>7

LEMMA StutterIInv == ASSUME IInv, UNCHANGED vars PROVE IInv'
  BY DEF vars, IInv, TypeOK, Trail, Breaks, NchainOneIffExtent, SeesWholeChain,
         OutcomeMatchesShape, Ended, OneExtent, RunTo, ChainOf, Closed, TravelEnd,
         Sound, Endless, Linked, Last, Startable

\* The inductive invariant of travel(), fd.h.
THEOREM Invariance == Spec => []IInv
  <1>1. ASSUME IInv, [Next]_vars PROVE IInv'
    <2>1. CASE Check  BY <1>1, <2>1, CheckIInv
    <2>2. CASE Visit /\ pc' = "loop"  BY <1>1, <2>2, FollowIInv
    <2>3. CASE Visit /\ pc' # "loop"  BY <1>1, <2>3, EndIInv
    <2>4. CASE UNCHANGED vars  BY <1>1, <2>4, StutterIInv
    <2> QED  BY <1>1, <2>1, <2>2, <2>3, <2>4 DEF Next
  <1> QED  BY <1>1, InitIInv, PTL DEF Spec

\* The variables of travel() and its visitors keep their types, and the
\* table is never indexed out of its bounds.
THEOREM TypeCorrect == Spec => []TypeOK
  <1>1. IInv => TypeOK  BY DEF IInv
  <1> QED  BY <1>1, Invariance, PTL

\* nchain() returns 1 for single runs of clusters and for no other chain.
THEOREM NchainCorrect == Spec => []NchainOneIffExtent
  <1>1. IInv => NchainOneIffExtent  BY DEF IInv
  <1> QED  BY <1>1, Invariance, PTL

\* chain(), nchain() and readFile() visit the chain, all of it, only it.
THEOREM ChainCorrect == Spec => []SeesWholeChain
  <1>1. IInv => SeesWholeChain  BY DEF IInv
  <1> QED  BY <1>1, Invariance, PTL

\* travel() is done, fails or never returns as the shape of the chain says.
THEOREM OutcomeCorrect == Spec => []OutcomeMatchesShape
  <1>1. IInv => OutcomeMatchesShape  BY DEF IInv
  <1> QED  BY <1>1, Invariance, PTL

-----------------------------------------------------------------------------
(***************************************************************************)
(* The chain by numbers: NthCluster counts its clusters from the first     *)
(* one, and from its second one where the first is linked to it.           *)
(***************************************************************************)

\* A word as NthCluster sees it, and the one it goes to from there.
Word == 0 .. NFat

Follow(f) ==
    [c \in Word |-> IF c \in Cluster /\ Linked(f, c) THEN f[c] ELSE NFat]

\* NthCluster goes from a cluster to the one its word links it to.
LEMMA NthClusterIs ==
  ASSUME NEW f \in FatTable, NEW b \in Cluster
  PROVE  /\ NthCluster(f, b)[0] = b
         /\ \A k \in Nat : NthCluster(f, b)[k + 1] =
               IF /\ NthCluster(f, b)[k] \in Cluster
                  /\ Linked(f, NthCluster(f, b)[k])
               THEN f[NthCluster(f, b)[k]] ELSE NFat
  <1> DEFINE Nth(g) == [k \in Nat |->
                           IF k = 0 THEN b
                           ELSE IF g[k - 1] \in Cluster /\ Linked(f, g[k - 1])
                           THEN f[g[k - 1]] ELSE NFat]
             nth == NthCluster(f, b)
  <1>1. Follow(f) \in [Word -> Word]
    BY FatAssumption DEF Follow, Word, Cluster, Linked
  <1>2. b \in Word  BY FatAssumption DEF Word, Cluster
  <1>3. PICK g : Repeats(g, Word, b, Follow(f))  BY <1>1, <1>2, Repetition
  <1>4. g = Nth(g)
    <2> USE <1>3 DEF Repeats
    <2>1. ASSUME NEW k \in Nat PROVE g[k] = Nth(g)[k]
      <3>1. CASE k = 0  BY <3>1
      <3>2. CASE k # 0
        <4>1. k - 1 \in Nat /\ k = (k - 1) + 1  BY <3>2
        <4>2. g[k] = Follow(f)[g[k - 1]] /\ g[k - 1] \in Word  BY <4>1
        <4> QED  BY <4>2 DEF Follow
      <3> QED  BY <3>2
    <2> QED  BY <2>1
  <1>5. nth = CHOOSE h : h = Nth(h)  BY DEF NthCluster
  <1>6. nth = Nth(nth)
    <2> HIDE DEF Nth, nth
    <2> QED  BY <1>5
  <1>7. nth[0] = b
    <2> HIDE DEF nth
    <2> QED  BY <1>6
  <1>8. ASSUME NEW k \in Nat
        PROVE  nth[k + 1] = IF nth[k] \in Cluster /\ Linked(f, nth[k])
                            THEN f[nth[k]] ELSE NFat
    <2>1. k + 1 \in Nat /\ k + 1 # 0 /\ (k + 1) - 1 = k  OBVIOUS
    <2> HIDE DEF nth
    <2> QED  BY <1>6
  <1> QED  BY <1>7, <1>8

\* What NthCluster counts are words as it sees them.
LEMMA NthIsWord ==
  ASSUME NEW f \in FatTable, NEW b \in Cluster, NEW k \in Nat
  PROVE  NthCluster(f, b)[k] \in Word
  <1> DEFINE Words == {n \in Nat : NthCluster(f, b)[n] \in Word}
  <1>1. 0 \in Words  BY FatAssumption, NthClusterIs DEF Word, Cluster
  <1>2. ASSUME NEW n \in Nat, n \in Words PROVE n + 1 \in Words
    <2> DEFINE w == NthCluster(f, b)[n]
    <2>1. NthCluster(f, b)[n + 1] = IF w \in Cluster /\ Linked(f, w) THEN f[w] ELSE NFat
      BY NthClusterIs
    <2> HIDE DEF w
    <2>2. Linked(f, w) => f[w] \in Word  BY FatAssumption DEF Linked, Word, Cluster
    <2>3. NFat \in Word  BY FatAssumption DEF Word
    <2>4. NthCluster(f, b)[n + 1] \in Word  BY <2>1, <2>2, <2>3
    <2> QED  BY <2>4
  <1>3. Nat \subseteq Words
    <2> HIDE DEF Words
    <2> QED  BY <1>1, <1>2, AllNaturals
  <1> QED  BY <1>3

\* The clusters behind the first are those from where it is linked to.
LEMMA NthShift ==
  ASSUME NEW f \in FatTable, NEW b \in Cluster, Linked(f, b), NEW k \in Nat
  PROVE  NthCluster(f, b)[k + 1] = NthCluster(f, f[b])[k]
  <1> DEFINE g == NthCluster(f, b)  h == NthCluster(f, f[b])
             Same == {n \in Nat : g[n + 1] = h[n]}
  <1>1. f[b] \in Cluster  BY DEF Linked
  <1>2. 0 \in Same
    <2>1. g[0] = b /\ h[0] = f[b]  BY <1>1, NthClusterIs
    <2>2. g[0 + 1] = f[b]  BY <2>1, NthClusterIs
    <2> QED  BY <2>1, <2>2
  <1>3. ASSUME NEW n \in Nat, n \in Same PROVE n + 1 \in Same
    <2>1. n + 1 \in Nat  OBVIOUS
    <2>2. g[(n + 1) + 1] = IF g[n + 1] \in Cluster /\ Linked(f, g[n + 1])
                           THEN f[g[n + 1]] ELSE NFat  BY <2>1, NthClusterIs
    <2>3. h[n + 1] = IF h[n] \in Cluster /\ Linked(f, h[n])
                     THEN f[h[n]] ELSE NFat  BY <1>1, NthClusterIs
    <2>4. g[n + 1] = h[n]  BY <1>3
    <2> HIDE DEF g, h
    <2> QED  BY <2>1, <2>2, <2>3, <2>4
  <1>4. Nat \subseteq Same
    <2> HIDE DEF Same
    <2> QED  BY <1>2, <1>3, AllNaturals
  <1> QED  BY <1>4

-----------------------------------------------------------------------------
(***************************************************************************)
(* The bytes of a chain: n of them from the byte s on, counted from 0.     *)
(***************************************************************************)
Slice(f, c, s, n) ==
    [i \in 1..n |-> <<NthCluster(f, c)[(s + i - 1) \div Block],
                     ((s + i - 1) % Block) + 1>>]

Bytes == Word \X Nat
Results == [ok : BOOLEAN, bytes : Seq(Bytes)]

LEMMA InBlocks ==
  ASSUME NEW s \in Nat
  PROVE  /\ s \div Block \in Nat /\ s % Block \in 0..(Block - 1)
         /\ s < Block => s \div Block = 0 /\ s % Block = s
         /\ (s + Block) \div Block = (s \div Block) + 1
         /\ (s + Block) % Block = s % Block
  <1> DEFINE q == s \div Block  r == s % Block
  <1>1. Block \in Nat /\ Block > 0  BY FileReadAssumption
  <1>2. q \in Nat /\ r \in 0..(Block - 1) /\ s = Block * q + r  BY <1>1
  <1>3. s < Block => q = 0 /\ r = s
    <2> SUFFICES ASSUME s < Block PROVE q = 0 /\ r = s  OBVIOUS
    <2> HIDE DEF q, r
    <2>1. q # 0 => Block * q >= Block  BY <1>1, <1>2
    <2>2. q = 0  BY <1>1, <1>2, <2>1
    <2> QED  BY <1>1, <1>2, <2>2
  <1>4. (s + Block) \div Block = q + 1 /\ (s + Block) % Block = r  BY <1>1, <1>2
  <1> QED  BY <1>2, <1>3, <1>4

LEMMA SliceIs ==
  ASSUME NEW f \in FatTable, NEW c \in Cluster, NEW s \in Nat, NEW n \in Nat
  PROVE  Slice(f, c, s, n) \in Seq(Bytes) /\ Len(Slice(f, c, s, n)) = n
  <1>1. ASSUME NEW i \in 1..n
        PROVE  <<NthCluster(f, c)[(s + i - 1) \div Block],
                 ((s + i - 1) % Block) + 1>> \in Bytes
    <2>1. s + i - 1 \in Nat  OBVIOUS
    <2>2. (s + i - 1) \div Block \in Nat /\ (s + i - 1) % Block \in Nat
      BY <2>1, InBlocks
    <2>3. NthCluster(f, c)[(s + i - 1) \div Block] \in Word  BY <2>2, NthIsWord
    <2> QED  BY <2>2, <2>3 DEF Bytes
  <1>2. Slice(f, c, s, n) \in [1..n -> Bytes]  BY <1>1 DEF Slice
  <1> QED  BY <1>2, FunctionIsSequence

LEMMA SliceShift ==
  ASSUME NEW f \in FatTable, NEW c \in Cluster, Linked(f, c), NEW s \in Nat, NEW n \in Nat
  PROVE  Slice(f, c, s + Block, n) = Slice(f, f[c], s, n)
  <1>1. ASSUME NEW i \in 1..n
        PROVE  /\ NthCluster(f, c)[((s + Block) + i - 1) \div Block]
                     = NthCluster(f, f[c])[(s + i - 1) \div Block]
               /\ ((s + Block) + i - 1) % Block = (s + i - 1) % Block
    <2> DEFINE t == s + i - 1
    <2>1. t \in Nat /\ (s + Block) + i - 1 = t + Block  BY FileReadAssumption
    <2> HIDE DEF t
    <2>2. (t + Block) \div Block = (t \div Block) + 1 /\ t \div Block \in Nat
          /\ (t + Block) % Block = t % Block
      BY <2>1, InBlocks
    <2>3. NthCluster(f, c)[(t \div Block) + 1] = NthCluster(f, f[c])[t \div Block]
      BY <2>2, NthShift
    <2> QED  BY <2>1, <2>2, <2>3 DEF t
  <1> QED  BY <1>1 DEF Slice

\* What is read of one cluster, and of it from the byte s on.
LEMMA DataIs ==
  ASSUME NEW c \in Cluster
  PROVE  /\ Data(c) \in Seq(Bytes) /\ Len(Data(c)) = Block
         /\ \A n \in Nat : n <= Block => SubSeq(Data(c), 1, n) \in Seq(Bytes)
         /\ \A s \in Nat, n \in Nat : s + n <= Block => FirstPart(c, s, n) \in Seq(Bytes)
  <1> USE FileReadAssumption
  <1>1. c \in Word  BY FatAssumption DEF Word, Cluster
  <1>2. Data(c) \in [1..Block -> Bytes]  BY <1>1 DEF Data, Bytes
  <1>3. Data(c) \in Seq(Bytes) /\ Len(Data(c)) = Block  BY <1>2, FunctionIsSequence
  <1>4. ASSUME NEW s \in Nat, NEW e \in Nat, s <= e, e <= Block
        PROVE  SubSeq(Data(c), s + 1, e) \in Seq(Bytes)
    BY <1>3, <1>4, Part
  <1>5. ASSUME NEW n \in Nat, n <= Block PROVE SubSeq(Data(c), 1, n) \in Seq(Bytes)
    <2>1. 0 <= n /\ 0 + 1 = 1  OBVIOUS
    <2>2. SubSeq(Data(c), 0 + 1, n) \in Seq(Bytes)  BY <1>4, <1>5, <2>1
    <2> QED  BY <2>1, <2>2
  <1>6. ASSUME NEW s \in Nat, NEW n \in Nat, s + n <= Block
        PROVE  FirstPart(c, s, n) \in Seq(Bytes)
    <2>1. s + n \in Nat /\ s <= s + n  OBVIOUS
    <2>2. SubSeq(Data(c), s + 1, s + n) \in Seq(Bytes)  BY <1>4, <1>6, <2>1
    <2> QED  BY <2>2 DEF FirstPart
  <1> QED  BY <1>3, <1>5, <1>6

LEMMA HeadIs ==
  ASSUME NEW c \in Cluster, NEW s \in Nat, NEW n \in Nat, s + n <= Block
  PROVE  /\ FirstPart(c, s, n) \in Seq(Bytes) /\ Len(FirstPart(c, s, n)) = n
         /\ \A i \in 1..n : FirstPart(c, s, n)[i] = <<c, s + i>>
  <1> DEFINE e == s + n
  <1>1. e \in Nat /\ s <= e /\ e - s = n /\ e <= Block /\ Block \in Nat
    BY FileReadAssumption
  <1> HIDE DEF e
  <1>2. Data(c) \in Seq(Bytes) /\ e <= Len(Data(c))  BY <1>1, DataIs
  <1>3. /\ SubSeq(Data(c), s + 1, e) \in Seq(Bytes)
        /\ Len(SubSeq(Data(c), s + 1, e)) = e - s
        /\ \A i \in 1..(e - s) : SubSeq(Data(c), s + 1, e)[i] = Data(c)[s + i]
    BY <1>1, <1>2, Part
  <1>4. \A i \in 1..n : s + i \in 1..Block  BY <1>1
  <1>5. \A i \in 1..n : Data(c)[s + i] = <<c, s + i>>  BY <1>4 DEF Data
  <1> QED  BY <1>1, <1>3, <1>5 DEF FirstPart, e

\* Within the first cluster it is what the cluster holds.
LEMMA SliceHead ==
  ASSUME NEW f \in FatTable, NEW c \in Cluster, NEW s \in Nat, NEW n \in Nat,
         s + n <= Block
  PROVE  FirstPart(c, s, n) = Slice(f, c, s, n)
  <1>1. /\ FirstPart(c, s, n) \in Seq(Bytes) /\ Len(FirstPart(c, s, n)) = n
        /\ \A i \in 1..n : FirstPart(c, s, n)[i] = <<c, s + i>>
    BY HeadIs
  <1>2. ASSUME NEW i \in 1..n PROVE FirstPart(c, s, n)[i] = Slice(f, c, s, n)[i]
    <2>1. s + i - 1 \in Nat /\ s + i - 1 < Block /\ (s + i - 1) + 1 = s + i
      BY FileReadAssumption
    <2>2. (s + i - 1) \div Block = 0 /\ (s + i - 1) % Block = s + i - 1
      BY <2>1, InBlocks
    <2>3. NthCluster(f, c)[0] = c  BY NthClusterIs
    <2>4. Slice(f, c, s, n)[i] = <<c, s + i>>  BY <2>1, <2>2, <2>3 DEF Slice
    <2> QED  BY <1>1, <2>4
  <1> QED  BY <1>1, <1>2, SliceIs, SameSequence

LEMMA SliceBlock ==
  ASSUME NEW f \in FatTable, NEW c \in Cluster
  PROVE  /\ Data(c) = Slice(f, c, 0, Block)
         /\ \A n \in Nat : n <= Block => SubSeq(Data(c), 1, n) = Slice(f, c, 0, n)
  <1> USE FileReadAssumption
  <1>1. ASSUME NEW n \in Nat, n <= Block
        PROVE  SubSeq(Data(c), 1, n) = Slice(f, c, 0, n)
    <2>1. FirstPart(c, 0, n) = Slice(f, c, 0, n)  BY <1>1, SliceHead
    <2>2. 0 + 1 = 1 /\ 0 + n = n  OBVIOUS
    <2> QED  BY <2>1, <2>2 DEF FirstPart
  <1>2. c \in Word  BY FatAssumption DEF Word, Cluster
  <1>3. Data(c) \in [1..Block -> Bytes]  BY <1>2 DEF Data, Bytes
  <1>4. Data(c) \in Seq(Bytes) /\ Len(Data(c)) = Block  BY <1>3, FunctionIsSequence
  <1>5. SubSeq(Data(c), 1, Block) = Data(c)
    <2>1. 0 \in Nat /\ 0 <= Block /\ 0 + 1 = 1 /\ Block - 0 = Block /\ Block \in Nat
      OBVIOUS
    <2>2. /\ SubSeq(Data(c), 1, Block) \in Seq(Bytes)
          /\ Len(SubSeq(Data(c), 1, Block)) = Block
          /\ \A i \in 1..Block : SubSeq(Data(c), 1, Block)[i] = Data(c)[0 + i]
      BY <1>4, <2>1, Part
    <2>3. \A i \in 1..Block : 0 + i = i  OBVIOUS
    <2> QED  BY <1>4, <2>2, <2>3, SameSequence
  <1> QED  BY <1>1, <1>5

\* Two that follow each other are one.
LEMMA SliceJoin ==
  ASSUME NEW f \in FatTable, NEW c \in Cluster, NEW s \in Nat, NEW n \in Nat, NEW m \in Nat
  PROVE  Slice(f, c, s, n) \o Slice(f, c, s + n, m) = Slice(f, c, s, n + m)
  <1> DEFINE x == Slice(f, c, s, n)  y == Slice(f, c, s + n, m)  z == Slice(f, c, s, n + m)
  <1>1. s + n \in Nat /\ n + m \in Nat  OBVIOUS
  <1>2. /\ x \in Seq(Bytes) /\ Len(x) = n /\ y \in Seq(Bytes) /\ Len(y) = m
        /\ z \in Seq(Bytes) /\ Len(z) = n + m
    BY <1>1, SliceIs
  <1>3. \A i \in 1..n : z[i] = x[i]  BY DEF Slice
  <1>4. \A i \in 1..m : z[n + i] = y[i]
    <2> TAKE i \in 1..m
    <2>1. n + i \in 1..(n + m) /\ s + (n + i) - 1 = (s + n) + i - 1  OBVIOUS
    <2> QED  BY <2>1 DEF Slice
  <1> HIDE DEF x, y, z
  <1>5. Len(z) = Len(x) + Len(y) /\ 1..Len(x) = 1..n /\ 1..Len(y) = 1..m  BY <1>2
  <1>6. \A i \in 1..Len(x) : z[i] = x[i]  BY <1>3, <1>5
  <1>7. \A i \in 1..Len(y) : z[Len(x) + i] = y[i]  BY <1>2, <1>4, <1>5
  <1>8. x \in Seq(Bytes) /\ y \in Seq(Bytes) /\ z \in Seq(Bytes)  BY <1>2
  <1>9. x \o y = z  BY <1>5, <1>6, <1>7, <1>8, JoinIs
  <1> QED  BY <1>9 DEF x, y, z

\* A part of it is one.
LEMMA SlicePart ==
  ASSUME NEW f \in FatTable, NEW c \in Cluster, NEW s \in Nat, NEW n \in Nat, NEW m \in Nat,
         s + n <= m
  PROVE  SubSeq(Slice(f, c, 0, m), s + 1, s + n) = Slice(f, c, s, n)
  <1> DEFINE z == Slice(f, c, 0, m)  x == Slice(f, c, s, n)  p == SubSeq(z, s + 1, s + n)
  <1>1. z \in Seq(Bytes) /\ Len(z) = m /\ x \in Seq(Bytes) /\ Len(x) = n  BY SliceIs
  <1>2. ASSUME NEW i \in 1..n PROVE z[s + i] = x[i]
    <2>1. s + i \in 1..m /\ 0 + (s + i) - 1 = s + i - 1  OBVIOUS
    <2> QED  BY <2>1 DEF Slice
  <1>3. s + n \in Nat /\ s <= s + n /\ (s + n) - s = n  OBVIOUS
  <1> HIDE DEF z, x
  <1>4. p \in Seq(Bytes) /\ Len(p) = n /\ \A i \in 1..n : p[i] = z[s + i]
    BY <1>1, <1>3, Part
  <1>5. p = x  BY <1>1, <1>2, <1>4, SameSequence
  <1> QED  BY <1>5 DEF z, x

-----------------------------------------------------------------------------
(***************************************************************************)
(* The walks of FileRead exist as functions: that of readFile() by the     *)
(* number of clusters to the end of a chain, the others by their counts.   *)
(***************************************************************************)
LEMMA ResultTypes ==
  /\ Failed \in Results
  /\ \A b \in Seq(Bytes) : Got(b) \in Results
  /\ \A b \in Seq(Bytes), r \in Results : Before(b, r) \in Results
  <1>1. <<>> \in Seq(Bytes)  OBVIOUS
  <1>2. Failed \in Results  BY <1>1 DEF Failed, Results
  <1>3. ASSUME NEW b \in Seq(Bytes) PROVE Got(b) \in Results  BY DEF Got, Results
  <1>4. ASSUME NEW b \in Seq(Bytes), NEW r \in Results PROVE Before(b, r) \in Results
    <2>1. r.bytes \in Seq(Bytes)  BY DEF Results
    <2>2. b \o r.bytes \in Seq(Bytes)  BY <2>1, Joined
    <2>3. Got(b \o r.bytes) \in Results  BY <1>3, <2>2
    <2> QED  BY <1>2, <2>3 DEF Before
  <1> QED  BY <1>2, <1>3, <1>4

\* One cluster of readFile()'s walk, from as the rest of it.
FileStep(f, from, c) ==
    IF Last(f, c) THEN Got(Data(c))
    ELSE IF Broken(f, c) THEN Failed
    ELSE Before(Data(c), from[f[c]])

\* One cluster of preadFile()'s second walk.
RestStep(f, from, n, c) ==
    IF n < Block THEN Got(SubSeq(Data(c), 1, n))
    ELSE IF Last(f, c) THEN IF n = Block THEN Got(Data(c)) ELSE Failed
    ELSE IF Broken(f, c) THEN Failed
    ELSE Before(Data(c), from[n - Block][f[c]])

\* What is read from the cluster of the offset on.
Taken(f, count, s, c) ==
    LET n == IF count < Block - s THEN count ELSE Block - s
        head == FirstPart(c, s, n)
    IN  IF n = count \/ f[c] = 0 THEN Got(head)
        ELSE Before(head, Rest(f, f[c], count - n))

\* One cluster of its first walk.
SeekStep(f, count, from, s, c) ==
    IF s < Block THEN Taken(f, count, s, c)
    ELSE IF Last(f, c) THEN Got(<<>>)
    ELSE IF Broken(f, c) THEN Failed
    ELSE from[s - Block][f[c]]

LEMMA NotBroken ==
  ASSUME NEW f, NEW c, ~Last(f, c), ~Broken(f, c)
  PROVE  Linked(f, c) /\ f[c] \in Cluster
  BY DEF Broken, Linked

LEMMA RestExists ==
  ASSUME NEW f \in FatTable
  PROVE  \E from \in [Nat -> [Cluster -> Results]] :
           from = [n \in Nat |-> [c \in Cluster |-> RestStep(f, from, n, c)]]
  <1> DEFINE S == [Cluster -> Results]
             base == [n \in Nat |-> [c \in Cluster |->
                        IF n < Block THEN Got(SubSeq(Data(c), 1, n)) ELSE Failed]]
             Walk(n, x) == [c \in Cluster |->
                        IF Last(f, c) THEN IF n = Block THEN Got(Data(c)) ELSE Failed
                        ELSE IF Broken(f, c) THEN Failed
                        ELSE Before(Data(c), x[f[c]])]
             step == [p \in Nat \X S |-> Walk(p[1], p[2])]
  <1>1. base \in [Nat -> S]
    <2>1. ASSUME NEW n \in Nat, NEW c \in Cluster
          PROVE  (IF n < Block THEN Got(SubSeq(Data(c), 1, n)) ELSE Failed) \in Results
      <3>1. CASE n < Block
        <4>1. n <= Block  BY <3>1, FileReadAssumption
        <4>2. SubSeq(Data(c), 1, n) \in Seq(Bytes)  BY <4>1, DataIs
        <4> QED  BY <3>1, <4>2, ResultTypes
      <3> QED  BY <3>1, ResultTypes
    <2> QED  BY <2>1
  <1>2. ASSUME NEW n \in Nat, NEW x \in S PROVE Walk(n, x) \in S
    <2>1. ASSUME NEW c \in Cluster
          PROVE  (IF Last(f, c) THEN IF n = Block THEN Got(Data(c)) ELSE Failed
                  ELSE IF Broken(f, c) THEN Failed
                  ELSE Before(Data(c), x[f[c]])) \in Results
      <3>1. ~Last(f, c) /\ ~Broken(f, c) => x[f[c]] \in Results  BY NotBroken
      <3> QED  BY <3>1, DataIs, ResultTypes
    <2> QED  BY <2>1
  <1> HIDE DEF Walk
  <1>3. ASSUME NEW n \in Nat, NEW x \in S PROVE step[<<n, x>>] = Walk(n, x)
    <2>1. <<n, x>> \in Nat \X S  OBVIOUS
    <2> HIDE DEF S
    <2> QED  BY <2>1
  <1> HIDE DEF S, base, step
  <1>4. \A n \in Nat, x \in S : step[<<n, x>>] \in S  BY <1>2, <1>3
  <1>5. PICK g \in [Nat -> S] : Descends(g, Block, base, step)
    BY <1>1, <1>4, Descent, FileReadAssumption
  <1>6. ASSUME NEW n \in Nat PROVE g[n] = [c \in Cluster |-> RestStep(f, g, n, c)]
    <2>1. g[n] = IF n < Block THEN base[n] ELSE step[<<n, g[n - Block]>>]
      BY <1>5 DEF Descends
    <2>2. CASE n < Block
      <3>1. g[n] = [c \in Cluster |->
                      IF n < Block THEN Got(SubSeq(Data(c), 1, n)) ELSE Failed]
        BY <2>1, <2>2 DEF base
      <3>2. \A c \in Cluster : RestStep(f, g, n, c) = Got(SubSeq(Data(c), 1, n))
        BY <2>2 DEF RestStep
      <3> QED  BY <2>2, <3>1, <3>2
    <2>3. CASE ~(n < Block)
      <3>1. n - Block \in Nat  BY <2>3, FileReadAssumption
      <3>2. g[n] = Walk(n, g[n - Block])  BY <1>3, <2>1, <2>3, <3>1
      <3> QED  BY <2>3, <3>2 DEF Walk, RestStep
    <2> QED  BY <2>2, <2>3
  <1>7. g = [n \in Nat |-> [c \in Cluster |-> RestStep(f, g, n, c)]]
    <2>1. g = [n \in Nat |-> g[n]]  BY <1>5
    <2> QED  BY <1>6, <2>1
  <1> QED  BY <1>5, <1>7 DEF S

LEMMA RestWalk ==
  ASSUME NEW f \in FatTable
  PROVE  \E from :
           /\ \A n \in Nat, c \in Cluster : from[n][c] = RestStep(f, from, n, c)
           /\ \A next, count : Rest(f, next, count) =
                 IF Startable(next) THEN from[count][next] ELSE Failed
  <1> DEFINE Is(g) == g = [n \in Nat |-> [c \in Cluster |-> RestStep(f, g, n, c)]]
             from == CHOOSE g : Is(g)
  <1>1. Is(from)
    <2>1. \E g : Is(g)  BY RestExists
    <2> HIDE DEF Is
    <2> QED  BY <2>1
  <1>2. ASSUME NEW next, NEW count
        PROVE  Rest(f, next, count) = IF Startable(next) THEN from[count][next] ELSE Failed
    BY DEF Rest, RestStep
  <1> HIDE DEF from
  <1>3. ASSUME NEW n \in Nat, NEW c \in Cluster PROVE from[n][c] = RestStep(f, from, n, c)
    <2>1. from[n] = [d \in Cluster |-> RestStep(f, from, n, d)]  BY <1>1
    <2> QED  BY <2>1
  <1> QED  BY <1>2, <1>3

LEMMA SeekExists ==
  ASSUME NEW f \in FatTable, NEW count
  PROVE  \E from : from = [s \in Nat |-> [c \in Cluster |-> SeekStep(f, count, from, s, c)]]
  <1> DEFINE V == {Taken(f, count, s, c) : s \in Nat, c \in Cluster} \cup {Got(<<>>), Failed}
             S == [Cluster -> V]
             base == [s \in Nat |-> [c \in Cluster |-> Taken(f, count, s, c)]]
             Walk(x) == [c \in Cluster |->
                           IF Last(f, c) THEN Got(<<>>)
                           ELSE IF Broken(f, c) THEN Failed ELSE x[f[c]]]
             step == [p \in Nat \X S |-> Walk(p[2])]
  <1>1. base \in [Nat -> S]  OBVIOUS
  <1>2. ASSUME NEW x \in S PROVE Walk(x) \in S
    <2>1. ASSUME NEW c \in Cluster
          PROVE  (IF Last(f, c) THEN Got(<<>>)
                  ELSE IF Broken(f, c) THEN Failed ELSE x[f[c]]) \in V
      <3> HIDE DEF V
      <3>1. ~Last(f, c) /\ ~Broken(f, c) => x[f[c]] \in V  BY NotBroken
      <3>2. Got(<<>>) \in V /\ Failed \in V  BY DEF V
      <3> QED  BY <3>1, <3>2
    <2> HIDE DEF V
    <2> QED  BY <2>1
  <1> HIDE DEF Walk
  <1>3. ASSUME NEW s \in Nat, NEW x \in S PROVE step[<<s, x>>] = Walk(x)
    <2> HIDE DEF S
    <2>1. <<s, x>> \in Nat \X S  OBVIOUS
    <2> QED  BY <2>1
  <1> HIDE DEF S, V, base, step
  <1>4. \A s \in Nat, x \in S : step[<<s, x>>] \in S  BY <1>2, <1>3
  <1>5. PICK g \in [Nat -> S] : Descends(g, Block, base, step)
    BY <1>1, <1>4, Descent, FileReadAssumption
  <1>6. ASSUME NEW s \in Nat PROVE g[s] = [c \in Cluster |-> SeekStep(f, count, g, s, c)]
    <2>1. g[s] = IF s < Block THEN base[s] ELSE step[<<s, g[s - Block]>>]
      BY <1>5 DEF Descends
    <2>2. CASE s < Block
      <3>1. g[s] = [c \in Cluster |-> Taken(f, count, s, c)]  BY <2>1, <2>2 DEF base
      <3>2. \A c \in Cluster : SeekStep(f, count, g, s, c) = Taken(f, count, s, c)
        BY <2>2 DEF SeekStep
      <3> QED  BY <3>1, <3>2
    <2>3. CASE ~(s < Block)
      <3>1. s - Block \in Nat  BY <2>3, FileReadAssumption
      <3>2. g[s] = Walk(g[s - Block])  BY <1>3, <2>1, <2>3, <3>1
      <3> QED  BY <2>3, <3>2 DEF Walk, SeekStep
    <2> QED  BY <2>2, <2>3
  <1>7. g = [s \in Nat |-> [c \in Cluster |-> SeekStep(f, count, g, s, c)]]
    <2>1. g = [s \in Nat |-> g[s]]  BY <1>5
    <2> QED  BY <1>6, <2>1
  <1> QED  BY <1>7

LEMMA SeekWalk ==
  ASSUME NEW f \in FatTable, NEW count
  PROVE  \E from :
           /\ \A s \in Nat, c \in Cluster : from[s][c] = SeekStep(f, count, from, s, c)
           /\ \A b, offset : preadFile(f, b, count, offset) =
                 IF Startable(b) THEN from[offset][b] ELSE Failed
  <1> DEFINE Is(g) == g = [s \in Nat |-> [c \in Cluster |-> SeekStep(f, count, g, s, c)]]
             from == CHOOSE g : Is(g)
  <1>1. Is(from)
    <2>1. \E g : Is(g)  BY SeekExists
    <2> HIDE DEF Is
    <2> QED  BY <2>1
  <1>2. ASSUME NEW b, NEW offset
        PROVE  preadFile(f, b, count, offset) = IF Startable(b) THEN from[offset][b] ELSE Failed
    BY DEF preadFile, SeekStep, Taken
  <1> HIDE DEF from
  <1>3. ASSUME NEW s \in Nat, NEW c \in Cluster
        PROVE  from[s][c] = SeekStep(f, count, from, s, c)
    <2>1. from[s] = [d \in Cluster |-> SeekStep(f, count, from, s, d)]  BY <1>1
    <2> QED  BY <2>1
  <1> QED  BY <1>2, <1>3

\* A walk cut off after some clusters has failed, one that has not keeps what it got.
LEMMA FileExists ==
  ASSUME NEW f \in FatTable
  PROVE  \E from : from = [c \in Cluster |-> FileStep(f, from, c)]
  <1> DEFINE S == [Cluster -> Results]
             none == [c \in Cluster |-> Failed]
             Walk(x) == [c \in Cluster |-> FileStep(f, x, c)]
             more == [x \in S |-> Walk(x)]
  <1>1. none \in S  BY ResultTypes
  <1>2. ASSUME NEW x \in S PROVE Walk(x) \in S
    <2>1. ASSUME NEW c \in Cluster PROVE FileStep(f, x, c) \in Results
      <3>1. ~Last(f, c) /\ ~Broken(f, c) => x[f[c]] \in Results  BY NotBroken
      <3> QED  BY <3>1, DataIs, ResultTypes DEF FileStep
    <2> QED  BY <2>1
  <1>3. more \in [S -> S]
    <2> HIDE DEF S, Walk
    <2> QED  BY <1>2
  <1>4. PICK g : Repeats(g, S, none, more)  BY <1>1, <1>3, Repetition
  <1>5. /\ g \in [Nat -> S] /\ g[0] = none
        /\ \A k \in Nat : g[k + 1] = Walk(g[k])
    <2> HIDE DEF S, Walk, none
    <2> QED  BY <1>4 DEF Repeats
  <1>6. ASSUME NEW k \in Nat, NEW c \in Cluster
        PROVE  g[k][c] \in Results /\ g[k + 1][c] = FileStep(f, g[k], c)
    BY <1>5
  <1> HIDE DEF S, Walk, none, more
  <1> DEFINE Keeps == {k \in Nat : \A c \in Cluster : g[k][c].ok => g[k + 1][c] = g[k][c]}
  <1>7. 0 \in Keeps
    <2>1. \A c \in Cluster : g[0][c] = Failed  BY <1>5 DEF none
    <2> QED  BY <2>1 DEF Failed
  <1>8. ASSUME NEW k \in Nat, k \in Keeps PROVE k + 1 \in Keeps
    <2> SUFFICES ASSUME NEW c \in Cluster, g[k + 1][c].ok
                 PROVE  g[(k + 1) + 1][c] = g[k + 1][c]
      OBVIOUS
    <2>1. k + 1 \in Nat  OBVIOUS
    <2>2. g[k + 1][c] = FileStep(f, g[k], c) /\ g[(k + 1) + 1][c] = FileStep(f, g[k + 1], c)
      BY <1>6, <2>1
    <2>3. CASE Last(f, c) \/ Broken(f, c)  BY <2>2, <2>3 DEF FileStep
    <2>4. CASE ~Last(f, c) /\ ~Broken(f, c)
      <3>1. f[c] \in Cluster  BY <2>4, NotBroken
      <3>2. g[k + 1][c] = Before(Data(c), g[k][f[c]])  BY <2>2, <2>4 DEF FileStep
      <3>3. g[k][f[c]].ok  BY <3>2 DEF Before, Failed
      <3>4. g[k + 1][f[c]] = g[k][f[c]]  BY <1>8, <3>1, <3>3
      <3> QED  BY <2>2, <2>4, <3>4 DEF FileStep
    <2> QED  BY <2>3, <2>4
  <1>9. Nat \subseteq Keeps
    <2> HIDE DEF Keeps
    <2> QED  BY <1>7, <1>8, AllNaturals
  <1>10. ASSUME NEW k \in Nat, NEW c \in Cluster, g[k][c].ok, NEW d \in Nat
         PROVE  g[k + d][c] = g[k][c]
    <2> DEFINE Same == {a \in Nat : g[k + a][c] = g[k][c]}
    <2>1. 0 \in Same  OBVIOUS
    <2>2. ASSUME NEW a \in Nat, a \in Same PROVE a + 1 \in Same
      <3>1. k + a \in Nat /\ k + (a + 1) = (k + a) + 1  OBVIOUS
      <3>2. g[k + a][c].ok  BY <1>10, <2>2
      <3>3. k + a \in Keeps  BY <1>9, <3>1
      <3>4. g[(k + a) + 1][c] = g[k + a][c]  BY <3>2, <3>3
      <3> QED  BY <2>2, <3>1, <3>4
    <2>3. Nat \subseteq Same
      <3> HIDE DEF Same
      <3> QED  BY <2>1, <2>2, AllNaturals
    <2> QED  BY <2>3
  <1>11. ASSUME NEW k \in Nat, NEW m \in Nat, NEW c \in Cluster, g[k][c].ok, g[m][c].ok
         PROVE  g[k][c] = g[m][c]
    <2>1. g[k + m][c] = g[k][c]  BY <1>10, <1>11
    <2>2. g[m + k][c] = g[m][c]  BY <1>10, <1>11
    <2>3. k + m = m + k  OBVIOUS
    <2> QED  BY <2>1, <2>2, <2>3
  <1> DEFINE Ends(c) == \E k \in Nat : g[k][c].ok
             When(c) == CHOOSE k \in Nat : g[k][c].ok
             from == [c \in Cluster |-> IF Ends(c) THEN g[When(c)][c] ELSE Failed]
  <1>12. ASSUME NEW c \in Cluster, NEW k \in Nat, g[k][c].ok PROVE from[c] = g[k][c]
    <2>1. Ends(c)  BY <1>12
    <2>2. When(c) \in Nat /\ g[When(c)][c].ok  BY <2>1
    <2> HIDE DEF When
    <2>3. g[When(c)][c] = g[k][c]  BY <1>11, <1>12, <2>2
    <2> QED  BY <2>1, <2>3
  <1>13. ASSUME NEW c \in Cluster, ~Ends(c) PROVE from[c] = Failed
    BY <1>13
  <1> HIDE DEF from
  <1>14. ASSUME NEW c \in Cluster PROVE from[c] = FileStep(f, from, c)
    <2>1. CASE Last(f, c)
      <3>1. g[0 + 1][c] = Got(Data(c))  BY <1>6, <2>1 DEF FileStep
      <3>2. g[0 + 1][c].ok /\ 0 + 1 \in Nat  BY <3>1 DEF Got
      <3>3. from[c] = Got(Data(c))  BY <1>12, <3>1, <3>2
      <3> QED  BY <2>1, <3>3 DEF FileStep
    <2>2. CASE ~Last(f, c) /\ Broken(f, c)
      <3>1. ASSUME NEW k \in Nat PROVE ~g[k][c].ok
        <4>1. CASE k = 0  BY <4>1, <1>5 DEF none, Failed
        <4>2. CASE k # 0
          <5>1. k - 1 \in Nat /\ (k - 1) + 1 = k  BY <4>2
          <5>2. g[(k - 1) + 1][c] = Failed  BY <1>6, <2>2, <5>1 DEF FileStep
          <5> QED  BY <5>1, <5>2 DEF Failed
        <4> QED  BY <4>1, <4>2
      <3>2. from[c] = Failed  BY <1>13, <3>1
      <3> QED  BY <2>2, <3>2 DEF FileStep
    <2>3. CASE ~Last(f, c) /\ ~Broken(f, c)
      <3> DEFINE d == f[c]
      <3>1. d \in Cluster  BY <2>3, NotBroken
      <3> HIDE DEF d
      <3>2. \A x : FileStep(f, x, c) = Before(Data(c), x[d])  BY <2>3 DEF FileStep, d
      <3>3. \A k \in Nat : g[k + 1][c] = Before(Data(c), g[k][d])  BY <1>6, <3>2
      <3>4. CASE Ends(d)
        <4>1. PICK k \in Nat : g[k][d].ok  BY <3>4
        <4>2. from[d] = g[k][d]  BY <1>12, <3>1, <4>1
        <4>3. g[k + 1][c] = Before(Data(c), g[k][d])  BY <3>3
        <4>4. g[k + 1][c].ok /\ k + 1 \in Nat  BY <4>1, <4>3 DEF Before, Got
        <4>5. from[c] = g[k + 1][c]  BY <1>12, <4>4
        <4> QED  BY <3>2, <4>2, <4>3, <4>5
      <3>5. CASE ~Ends(d)
        <4>1. from[d] = Failed  BY <1>13, <3>1, <3>5
        <4>2. ASSUME NEW k \in Nat PROVE ~g[k][c].ok
          <5>1. CASE k = 0  BY <5>1, <1>5 DEF none, Failed
          <5>2. CASE k # 0
            <6>1. k - 1 \in Nat /\ (k - 1) + 1 = k  BY <5>2
            <6>2. ~g[k - 1][d].ok  BY <3>5, <6>1
            <6>3. g[(k - 1) + 1][c] = Failed  BY <3>3, <6>1, <6>2 DEF Before
            <6> QED  BY <6>1, <6>3 DEF Failed
          <5> QED  BY <5>1, <5>2
        <4>3. from[c] = Failed  BY <1>13, <4>2
        <4> QED  BY <3>2, <4>1, <4>3 DEF Before, Failed
      <3> QED  BY <3>4, <3>5
    <2> QED  BY <2>1, <2>2, <2>3
  <1>15. from = [c \in Cluster |-> from[c]]  BY DEF from
  <1>16. from = [c \in Cluster |-> FileStep(f, from, c)]  BY <1>14, <1>15
  <1> QED  BY <1>16

LEMMA FileWalk ==
  ASSUME NEW f \in FatTable
  PROVE  \E from :
           /\ \A c \in Cluster : from[c] = FileStep(f, from, c)
           /\ \A b : readFile(f, b) = IF Sound(f, b) THEN from[b] ELSE Failed
  <1> DEFINE Is(g) == g = [c \in Cluster |-> FileStep(f, g, c)]
             from == CHOOSE g : Is(g)
  <1>1. Is(from)
    <2>1. \E g : Is(g)  BY FileExists
    <2> HIDE DEF Is
    <2> QED  BY <2>1
  <1>2. ASSUME NEW b PROVE readFile(f, b) = IF Sound(f, b) THEN from[b] ELSE Failed
    BY DEF readFile, FileStep
  <1> HIDE DEF from
  <1>3. ASSUME NEW c \in Cluster PROVE from[c] = FileStep(f, from, c)
    BY <1>1
  <1> QED  BY <1>2, <1>3

-----------------------------------------------------------------------------
(***************************************************************************)
(* On any table: the second walk gives what the chain holds, or fails.     *)
(***************************************************************************)
LEMMA BlockAndRest ==
  ASSUME NEW q \in Nat, NEW r \in 0..(Block - 1)
  PROVE  Block * q + r \in Nat /\ (Block * q + r) \div Block = q
  BY FileReadAssumption

LEMMA PreviousByte ==
  ASSUME NEW p \in Nat, p # 0
  PROVE  /\ p - 1 \in Nat
         /\ p % Block # 0 => (p - 1) \div Block = p \div Block
         /\ p % Block = 0 => /\ p - Block \in Nat
                             /\ (p - 1) \div Block = (p - Block) \div Block
                             /\ p \div Block = ((p - Block) \div Block) + 1
  <1> DEFINE q == p \div Block  r == p % Block
  <1>1. Block \in Nat /\ Block > 0  BY FileReadAssumption
  <1>2. q \in Nat /\ r \in 0..(Block - 1) /\ p = Block * q + r  BY <1>1
  <1>3. p - 1 \in Nat  OBVIOUS
  <1>4. ASSUME r # 0 PROVE (p - 1) \div Block = q
    <2> HIDE DEF q, r
    <2>1. r - 1 \in 0..(Block - 1)  BY <1>1, <1>2, <1>4
    <2> DEFINE x == Block * q
    <2>2. x \in Nat /\ p = x + r  BY <1>1, <1>2
    <2> HIDE DEF x
    <2>3. p - 1 = x + (r - 1)  BY <1>2, <2>1, <2>2
    <2>4. (Block * q + (r - 1)) \div Block = q  BY <1>2, <2>1, BlockAndRest
    <2> QED  BY <2>3, <2>4 DEF x
  <1>5. ASSUME r = 0
        PROVE  /\ p - Block \in Nat
               /\ (p - 1) \div Block = (p - Block) \div Block
               /\ q = ((p - Block) \div Block) + 1
    <2> HIDE DEF q, r
    <2>1. q # 0  BY <1>1, <1>2, <1>5
    <2>2. q - 1 \in Nat /\ Block * q = Block * (q - 1) + Block  BY <1>1, <1>2, <2>1
    <2>3. Block * (q - 1) \in Nat  BY <1>1, <2>2
    <2>4. p - Block = Block * (q - 1) /\ p - Block \in Nat  BY <1>1, <1>2, <1>5, <2>2, <2>3
    <2>5. p - 1 = Block * (q - 1) + (Block - 1)  BY <1>1, <1>2, <1>5, <2>2, <2>3
    <2>6. (p - Block) \div Block = q - 1  BY <1>1, <2>2, <2>4
    <2>7. (p - 1) \div Block = q - 1
      <3>1. Block - 1 \in 0..(Block - 1)  BY <1>1
      <3>2. (Block * (q - 1) + (Block - 1)) \div Block = q - 1
        BY <2>2, <3>1, BlockAndRest
      <3> QED  BY <2>5, <3>2
    <2> QED  BY <1>2, <2>4, <2>6, <2>7
  <1> QED  BY <1>3, <1>4, <1>5

\* Wherever n bytes of a chain pass from a cluster to the next, it is linked to it.
GoesOn(f, c, n) ==
    \A p \in Nat : p + Block < n => /\ NthCluster(f, c)[p \div Block] \in Cluster
                                    /\ Linked(f, NthCluster(f, c)[p \div Block])

\* A cluster in full and what the chain holds behind it.
LEMMA DataAndRest ==
  ASSUME NEW f \in FatTable, NEW c \in Cluster, Linked(f, c), NEW n \in Nat, Block <= n
  PROVE  Before(Data(c), Got(Slice(f, f[c], 0, n - Block))) = Got(Slice(f, c, 0, n))
  <1> DEFINE m == n - Block
  <1>1. m \in Nat /\ Block \in Nat /\ 0 + Block = Block /\ Block + m = n
    BY FileReadAssumption
  <1> HIDE DEF m
  <1>2. Slice(f, c, 0 + Block, m) = Slice(f, f[c], 0, m)  BY <1>1, SliceShift
  <1>3. Data(c) = Slice(f, c, 0, Block)  BY SliceBlock
  <1>4. Slice(f, c, 0, Block) \o Slice(f, c, 0 + Block, m) = Slice(f, c, 0, Block + m)
    <2>0. m \in Nat /\ Block \in Nat  BY <1>1
    <2>1. ASSUME NEW s \in Nat
          PROVE  Slice(f, c, s, Block) \o Slice(f, c, s + Block, m) = Slice(f, c, s, Block + m)
      BY <2>0, SliceJoin
    <2>2. 0 \in Nat  OBVIOUS
    <2> QED  BY <2>1, <2>2
  <1>5. Data(c) \o Slice(f, f[c], 0, m) = Slice(f, c, 0, n)  BY <1>1, <1>2, <1>3, <1>4
  <1> QED  BY <1>5 DEF Before, Got, m

LEMMA RestAlong ==
  ASSUME NEW f \in FatTable, NEW from,
         \A n \in Nat, c \in Cluster : from[n][c] = RestStep(f, from, n, c),
         NEW n \in Nat, NEW c \in Cluster, from[n][c].ok
  PROVE  from[n][c] = Got(Slice(f, c, 0, n)) /\ GoesOn(f, c, n)
  <1> DEFINE Holds(m, d) == from[m][d].ok =>
                              from[m][d] = Got(Slice(f, d, 0, m)) /\ GoesOn(f, d, m)
             Right == {m \in Nat : \A d \in Cluster : Holds(m, d)}
  <1>1. Block \in Nat /\ Block > 0  BY FileReadAssumption
  <1>2. ASSUME NEW m \in Nat, \A k \in Nat : k < m => k \in Right, NEW d \in Cluster,
               from[m][d].ok
        PROVE  from[m][d] = Got(Slice(f, d, 0, m)) /\ GoesOn(f, d, m)
    <2>1. from[m][d] = RestStep(f, from, m, d)  OBVIOUS
    <2>2. CASE m < Block
      <3>1. from[m][d] = Got(SubSeq(Data(d), 1, m))  BY <2>1, <2>2 DEF RestStep
      <3>2. SubSeq(Data(d), 1, m) = Slice(f, d, 0, m)
        <4>1. m <= Block  BY <1>1, <2>2
        <4> QED  BY <4>1, SliceBlock
      <3>3. GoesOn(f, d, m)  BY <1>1, <2>2 DEF GoesOn
      <3> QED  BY <3>1, <3>2, <3>3
    <2>3. CASE ~(m < Block) /\ Last(f, d)
      <3>1. m = Block /\ from[m][d] = Got(Data(d))  BY <1>2, <2>1, <2>3 DEF RestStep, Failed
      <3>2. GoesOn(f, d, m)  BY <1>1, <3>1 DEF GoesOn
      <3> QED  BY <3>1, <3>2, SliceBlock
    <2>4. CASE ~(m < Block) /\ ~Last(f, d)
      <3> DEFINE k == m - Block  e == f[d]
      <3>1. ~Broken(f, d)  BY <1>2, <2>1, <2>4 DEF RestStep, Failed
      <3>2. Linked(f, d) /\ e \in Cluster  BY <2>4, <3>1, NotBroken
      <3>3. k \in Nat /\ k < m /\ Block <= m  BY <1>1, <2>4
      <3>4. from[m][d] = Before(Data(d), from[k][e])  BY <2>1, <2>4, <3>1 DEF RestStep
      <3>5. from[k][e].ok  BY <1>2, <3>4 DEF Before, Failed
      <3>6. from[k][e] = Got(Slice(f, e, 0, k)) /\ GoesOn(f, e, k)
        <4>1. k \in Right  BY <1>2, <3>3
        <4> QED  BY <3>2, <3>5, <4>1
      <3>7. from[m][d] = Got(Slice(f, d, 0, m))  BY <3>2, <3>3, <3>4, <3>6, DataAndRest
      <3>8. ASSUME NEW p \in Nat, p + Block < m
            PROVE  /\ NthCluster(f, d)[p \div Block] \in Cluster
                   /\ Linked(f, NthCluster(f, d)[p \div Block])
        <4>1. CASE p < Block
          <5>1. p \div Block = 0 /\ NthCluster(f, d)[0] = d  BY <4>1, InBlocks, NthClusterIs
          <5> QED  BY <3>2, <5>1
        <4>2. CASE ~(p < Block)
          <5> DEFINE o == p - Block
          <5>1. o \in Nat /\ o + Block = p /\ o + Block < k  BY <1>1, <3>8, <4>2
          <5> HIDE DEF o
          <5>2. p \div Block = (o \div Block) + 1 /\ o \div Block \in Nat
            BY <5>1, InBlocks
          <5>3. NthCluster(f, d)[p \div Block] = NthCluster(f, e)[o \div Block]
            BY <3>2, <5>2, NthShift
          <5> QED  BY <3>6, <5>1, <5>3 DEF GoesOn
        <4> QED  BY <4>1, <4>2
      <3> QED  BY <3>7, <3>8 DEF GoesOn
    <2> QED  BY <2>2, <2>3, <2>4
  <1>3. \A m \in Nat : (\A k \in Nat : k < m => k \in Right) => m \in Right
    BY <1>2
  <1>4. Nat \subseteq Right
    <2> HIDE DEF Right
    <2> QED  BY <1>3, AllFromLess
  <1> QED  BY <1>4

\* What ReadsAlong says of a read, of any result of it.
Along(f, c, count, s, part) ==
    LET at(i) == part.bytes[i][1]
        in(i) == (s + i - 1) % Block
    IN  part.ok =>
            /\ Len(part.bytes) <= count
            /\ \A i \in 1..Len(part.bytes) :
                 /\ part.bytes[i][2] = in(i) + 1
                 /\ at(i) = IF i = 1 THEN NthCluster(f, c)[s \div Block]
                            ELSE IF in(i) = 0 THEN f[at(i - 1)] ELSE at(i - 1)
            /\ Len(part.bytes) < count =>
                 part.bytes = <<>> \/ f[at(Len(part.bytes))] = 0

\* What is taken of the cluster of the offset, when nothing is read behind it.
LEMMA HeadAlong ==
  ASSUME NEW f \in FatTable, NEW c \in Cluster, NEW s \in Nat, NEW n \in Nat, s + n <= Block,
         NEW count \in Nat, n <= count, n = count \/ f[c] = 0, s < Block
  PROVE  Along(f, c, count, s, Got(FirstPart(c, s, n)))
  <1> DEFINE h == FirstPart(c, s, n)
  <1>1. Len(h) = n /\ \A i \in 1..n : h[i] = <<c, s + i>>  BY HeadIs
  <1>1a. h \in Seq(Bytes)  BY HeadIs
  <1>2. s \div Block = 0 /\ NthCluster(f, c)[0] = c  BY InBlocks, NthClusterIs
  <1> HIDE DEF h
  <1>3. ASSUME NEW i \in 1..n
        PROVE  /\ h[i][2] = ((s + i - 1) % Block) + 1
               /\ h[i][1] = IF i = 1 THEN NthCluster(f, c)[s \div Block]
                            ELSE IF (s + i - 1) % Block = 0 THEN f[h[i - 1][1]] ELSE h[i - 1][1]
    <2>1. s + i - 1 \in Nat /\ s + i - 1 < Block  BY FileReadAssumption
    <2>2. (s + i - 1) % Block = s + i - 1  BY <2>1, InBlocks
    <2>3. h[i][1] = c /\ h[i][2] = s + i  BY <1>1
    <2>4. CASE i = 1  BY <1>2, <2>2, <2>3, <2>4
    <2>5. CASE i # 1
      <3>1. i - 1 \in 1..n /\ s + i - 1 # 0  BY <2>5
      <3>2. h[i - 1][1] = c  BY <1>1, <3>1
      <3> QED  BY <2>2, <2>3, <2>5, <3>1, <3>2
    <2> QED  BY <2>4, <2>5
  <1>4. n < count => h = <<>> \/ f[h[n][1]] = 0
    <2> SUFFICES ASSUME n < count, n # 0 PROVE f[h[n][1]] = 0  BY <1>1, <1>1a
    <2>1. n \in 1..n  OBVIOUS
    <2>2. h[n][1] = c  BY <1>1, <2>1
    <2> QED  BY <2>2
  <1> QED  BY <1>1, <1>3, <1>4 DEF Along, Got, h

\* And when the second walk goes on behind it.
LEMMA HeadAndRestAlong ==
  ASSUME NEW f \in FatTable, NEW c \in Cluster, NEW s \in Nat, s < Block,
         NEW count \in Nat, Block - s < count, NEW x \in Cluster, x = f[c],
         GoesOn(f, x, count - (Block - s))
  PROVE  Along(f, c, count, s, Got(FirstPart(c, s, Block - s)
                                      \o Slice(f, x, 0, count - (Block - s))))
  <1> DEFINE n == Block - s  m == count - n
             h == FirstPart(c, s, n)  y == Slice(f, x, 0, m)  t == h \o y
  <1>1. /\ Block \in Nat /\ Block > 0 /\ n \in Nat /\ n # 0 /\ m \in Nat /\ m # 0
        /\ s + n = Block /\ n + m = count
    BY FileReadAssumption
  <1> HIDE DEF n, m
  <1>2. h \in Seq(Bytes) /\ Len(h) = n /\ \A i \in 1..n : h[i] = <<c, s + i>>
    <2>1. n \in Nat /\ s + n <= Block  BY <1>1
    <2> QED  BY <2>1, HeadIs
  <1>3. y \in Seq(Bytes) /\ Len(y) = m
    <2>1. m \in Nat /\ 0 \in Nat  BY <1>1
    <2> QED  BY <2>1, SliceIs
  <1>4. ASSUME NEW k \in Nat, k < m
        PROVE  y[k + 1] = <<NthCluster(f, x)[k \div Block], (k % Block) + 1>>
    <2>1. k + 1 \in 1..m /\ 0 + (k + 1) - 1 = k  BY <1>1, <1>4
    <2> QED  BY <2>1 DEF Slice
  <1> HIDE DEF h, y
  <1>5. h \in Seq(Bytes) /\ y \in Seq(Bytes)  BY <1>2, <1>3
  <1>6. /\ t \in Seq(Bytes) /\ Len(t) = Len(h) + Len(y)
        /\ \A i \in 1..Len(h) : t[i] = h[i]
        /\ \A i \in 1..Len(y) : t[Len(h) + i] = y[i]
    BY <1>5, Joined
  <1> HIDE DEF t
  <1>7. Len(t) = count /\ \A i \in 1..n : t[i] = <<c, s + i>>
    BY <1>1, <1>2, <1>3, <1>6
  <1>8. ASSUME NEW k \in Nat, k < m
        PROVE  t[n + k + 1] = <<NthCluster(f, x)[k \div Block], (k % Block) + 1>>
    <2>1. k + 1 \in 1..m /\ n + (k + 1) = n + k + 1  BY <1>1, <1>8
    <2>2. t[n + (k + 1)] = y[k + 1]  BY <1>2, <1>3, <1>6, <2>1
    <2> QED  BY <1>4, <1>8, <2>1, <2>2
  <1>9. s \div Block = 0 /\ NthCluster(f, c)[0] = c  BY InBlocks, NthClusterIs
  <1>10. ASSUME NEW i \in 1..count
         PROVE  /\ t[i][2] = ((s + i - 1) % Block) + 1
                /\ t[i][1] = IF i = 1 THEN NthCluster(f, c)[s \div Block]
                             ELSE IF (s + i - 1) % Block = 0 THEN f[t[i - 1][1]] ELSE t[i - 1][1]
    <2>1. CASE i <= n
      <3>1. s + i - 1 \in Nat /\ s + i - 1 < Block  BY <1>1, <2>1
      <3>2. (s + i - 1) % Block = s + i - 1  BY <3>1, InBlocks
      <3>3. i \in 1..n  BY <2>1
      <3>4. t[i][1] = c /\ t[i][2] = s + i  BY <1>7, <3>3
      <3>5. CASE i = 1  BY <1>9, <3>2, <3>4, <3>5
      <3>6. CASE i # 1
        <4>1. i - 1 \in 1..n /\ s + i - 1 # 0  BY <1>1, <3>3, <3>6
        <4>2. t[i - 1][1] = c  BY <1>7, <4>1
        <4> QED  BY <3>2, <3>4, <3>6, <4>1, <4>2
      <3> QED  BY <3>5, <3>6
    <2>2. CASE ~(i <= n)
      <3> DEFINE k == i - n - 1
      <3>1. /\ k \in Nat /\ k < m /\ n + k + 1 = i /\ s + i - 1 = k + Block /\ i # 1
        BY <1>1, <2>2
      <3> HIDE DEF k
      <3>2. (k + Block) % Block = k % Block  BY <3>1, InBlocks
      <3>3. t[i] = <<NthCluster(f, x)[k \div Block], (k % Block) + 1>>  BY <1>8, <3>1
      <3>4. CASE k = 0
        <4>1. k % Block = 0 /\ k \div Block = 0  BY <1>1, <3>4, InBlocks
        <4>2. NthCluster(f, x)[0] = x  BY NthClusterIs
        <4>3. i - 1 = n /\ n \in 1..n  BY <1>1, <3>1, <3>4
        <4>4. t[i - 1][1] = c  BY <1>7, <4>3
        <4> QED  BY <3>1, <3>2, <3>3, <4>1, <4>2, <4>4
      <3>5. CASE k # 0
        <4>1. k - 1 \in Nat /\ k - 1 < m /\ n + (k - 1) + 1 = i - 1  BY <1>1, <3>1, <3>5
        <4>2. t[i - 1][1] = NthCluster(f, x)[(k - 1) \div Block]
          <5> DEFINE j == k - 1
          <5>1. j \in Nat /\ j < m /\ n + j + 1 = i - 1  BY <4>1
          <5> HIDE DEF j
          <5>2. t[n + j + 1] = <<NthCluster(f, x)[j \div Block], (j % Block) + 1>>
            BY <1>8, <5>1
          <5>3. t[i - 1][1] = NthCluster(f, x)[j \div Block]  BY <5>1, <5>2
          <5> QED  BY <5>3 DEF j
        <4>3. CASE k % Block # 0
          <5>1. (k - 1) \div Block = k \div Block  BY <3>1, <3>5, <4>3, PreviousByte
          <5> QED  BY <3>1, <3>2, <3>3, <4>2, <4>3, <5>1
        <4>4. CASE k % Block = 0
          <5> DEFINE o == k - Block
          <5>1. /\ o \in Nat /\ (k - 1) \div Block = o \div Block
                /\ k \div Block = (o \div Block) + 1
            BY <3>1, <3>5, <4>4, PreviousByte
          <5>2. o + Block < m  BY <1>1, <3>1
          <5> HIDE DEF o
          <5> DEFINE d == NthCluster(f, x)[o \div Block]
          <5>3. d \in Cluster /\ Linked(f, d)
            <6>1. GoesOn(f, x, m)  BY DEF m, n
            <6> QED  BY <5>1, <5>2, <6>1 DEF GoesOn
          <5>4. o \div Block \in Nat  BY <5>1, InBlocks
          <5>7. NthCluster(f, x)[(o \div Block) + 1] = f[d]
            BY <5>3, <5>4, NthClusterIs
          <5> HIDE DEF d
          <5>8. t[i - 1][1] = d  BY <4>2, <5>1 DEF d
          <5> QED  BY <3>1, <3>2, <3>3, <4>4, <5>1, <5>7, <5>8
        <4> QED  BY <4>3, <4>4
      <3> QED  BY <3>4, <3>5
    <2> QED  BY <2>1, <2>2
  <1>11. Along(f, c, count, s, Got(t))  BY <1>1, <1>7, <1>10 DEF Along, Got
  <1> QED  BY <1>11 DEF t, h, y, m, n

LEMMA TakenAlong ==
  ASSUME NEW f \in FatTable, NEW c \in Cluster, NEW s \in Nat, s < Block, NEW count \in Nat
  PROVE  Along(f, c, count, s, Taken(f, count, s, c))
  <1> DEFINE n == IF count < Block - s THEN count ELSE Block - s
             part == Taken(f, count, s, c)
  <1>1. Block \in Nat /\ Block - s \in Nat  BY FileReadAssumption
  <1>2. n \in Nat /\ s + n <= Block /\ n <= count
        /\ (n # count => n = Block - s /\ Block - s < count)
    BY <1>1
  <1>3. part = IF n = count \/ f[c] = 0 THEN Got(FirstPart(c, s, n))
               ELSE Before(FirstPart(c, s, n), Rest(f, f[c], count - n))
    BY DEF Taken
  <1> HIDE DEF n, part
  <1>4. CASE n = count \/ f[c] = 0
    <2>1. Along(f, c, count, s, Got(FirstPart(c, s, n)))  BY <1>2, <1>4, HeadAlong
    <2> QED  BY <1>3, <1>4, <2>1 DEF part
  <1>5. CASE ~(n = count \/ f[c] = 0)
    <2> DEFINE m == count - n
    <2>1. n = Block - s /\ Block - s < count /\ m \in Nat /\ m = count - (Block - s)
      BY <1>1, <1>2, <1>5
    <2> HIDE DEF m
    <2>2. part = Before(FirstPart(c, s, n), Rest(f, f[c], m))  BY <1>3, <1>5 DEF m
    <2>3. PICK from :
            /\ \A k \in Nat, d \in Cluster : from[k][d] = RestStep(f, from, k, d)
            /\ \A next, k : Rest(f, next, k) = IF Startable(next) THEN from[k][next] ELSE Failed
      BY RestWalk
    <2>4. CASE ~part.ok  BY <2>4 DEF Along, part
    <2>5. CASE part.ok
      <3>1. Rest(f, f[c], m).ok  BY <2>2, <2>5 DEF Before, Failed
      <3>2. Startable(f[c]) /\ Rest(f, f[c], m) = from[m][f[c]]
        BY <2>3, <3>1 DEF Failed
      <3>3. f[c] \in Cluster  BY <3>2, FatAssumption DEF Startable, Cluster
      <3>4. from[m][f[c]] = Got(Slice(f, f[c], 0, m)) /\ GoesOn(f, f[c], m)
        BY <2>1, <2>3, <3>1, <3>2, <3>3, RestAlong
      <3>5. part = Got(FirstPart(c, s, n) \o Slice(f, f[c], 0, m))
        BY <2>2, <3>2, <3>4 DEF Before, Got
      <3> DEFINE x == f[c]
      <3>6. x \in Cluster /\ x = f[c] /\ GoesOn(f, x, count - (Block - s))
        BY <2>1, <3>3, <3>4
      <3>7. part = Got(FirstPart(c, s, Block - s) \o Slice(f, x, 0, count - (Block - s)))
        BY <2>1, <3>5
      <3> HIDE DEF x
      <3>8. Along(f, c, count, s, part)  BY <2>1, <3>6, <3>7, HeadAndRestAlong
      <3> QED  BY <3>8 DEF part
    <2> QED  BY <2>4, <2>5
  <1> QED  BY <1>4, <1>5

\* The first walk only finds the place.
LEMMA SeekAlong ==
  ASSUME NEW f \in FatTable, NEW count \in Nat, NEW from,
         \A s \in Nat, c \in Cluster : from[s][c] = SeekStep(f, count, from, s, c),
         NEW s \in Nat, NEW c \in Cluster
  PROVE  Along(f, c, count, s, from[s][c])
  <1> DEFINE Right == {m \in Nat : \A d \in Cluster : Along(f, d, count, m, from[m][d])}
  <1>1. ASSUME NEW m \in Nat, \A k \in Nat : k < m => k \in Right, NEW d \in Cluster
        PROVE  Along(f, d, count, m, from[m][d])
    <2>1. from[m][d] = SeekStep(f, count, from, m, d)  OBVIOUS
    <2>2. CASE m < Block
      <3>1. from[m][d] = Taken(f, count, m, d)  BY <2>1, <2>2 DEF SeekStep
      <3> QED  BY <2>2, <3>1, TakenAlong
    <2>3. CASE ~(m < Block) /\ Last(f, d)
      <3>1. from[m][d] = Got(<<>>)  BY <2>1, <2>3 DEF SeekStep
      <3> QED  BY <3>1 DEF Along, Got
    <2>4. CASE ~(m < Block) /\ ~Last(f, d) /\ Broken(f, d)
      <3>1. from[m][d] = Failed  BY <2>1, <2>4 DEF SeekStep
      <3> QED  BY <3>1 DEF Along, Failed
    <2>5. CASE ~(m < Block) /\ ~Last(f, d) /\ ~Broken(f, d)
      <3> DEFINE k == m - Block  e == f[d]  part == from[m][d]
      <3>1. k \in Nat /\ k < m /\ m = k + Block  BY <2>5, FileReadAssumption
      <3>2. Linked(f, d) /\ e \in Cluster  BY <2>5, NotBroken
      <3>3. part = from[k][e]  BY <2>1, <2>5 DEF SeekStep
      <3>4. Along(f, e, count, k, part)
        <4>1. k \in Right  BY <1>1, <3>1
        <4> QED  BY <3>2, <3>3, <4>1
      <3> HIDE DEF k, part
      <3>5. \A i \in Nat \ {0} : (m + i - 1) % Block = (k + i - 1) % Block
        <4> TAKE i \in Nat \ {0}
        <4> DEFINE o == k + i - 1
        <4>1. o \in Nat /\ m + i - 1 = o + Block  BY <3>1, FileReadAssumption
        <4> HIDE DEF o
        <4>2. (o + Block) % Block = o % Block  BY <4>1, InBlocks
        <4> QED  BY <4>1, <4>2 DEF o
      <3>6. NthCluster(f, d)[m \div Block] = NthCluster(f, e)[k \div Block]
        <4>1. m \div Block = (k \div Block) + 1 /\ k \div Block \in Nat
          BY <3>1, InBlocks
        <4> QED  BY <3>2, <4>1, NthShift
      <3> HIDE DEF e
      <3>7. Along(f, d, count, m, part)
        <4> SUFFICES ASSUME part.ok
                     PROVE  /\ Len(part.bytes) <= count
                            /\ \A i \in 1..Len(part.bytes) :
                                 /\ part.bytes[i][2] = ((m + i - 1) % Block) + 1
                                 /\ part.bytes[i][1] =
                                      IF i = 1 THEN NthCluster(f, d)[m \div Block]
                                      ELSE IF (m + i - 1) % Block = 0
                                      THEN f[part.bytes[i - 1][1]] ELSE part.bytes[i - 1][1]
                            /\ Len(part.bytes) < count =>
                                 part.bytes = <<>> \/ f[part.bytes[Len(part.bytes)][1]] = 0
          BY DEF Along
        <4>1. /\ Len(part.bytes) <= count
              /\ \A i \in 1..Len(part.bytes) :
                   /\ part.bytes[i][2] = ((k + i - 1) % Block) + 1
                   /\ part.bytes[i][1] =
                        IF i = 1 THEN NthCluster(f, e)[k \div Block]
                        ELSE IF (k + i - 1) % Block = 0
                        THEN f[part.bytes[i - 1][1]] ELSE part.bytes[i - 1][1]
              /\ Len(part.bytes) < count =>
                   part.bytes = <<>> \/ f[part.bytes[Len(part.bytes)][1]] = 0
          BY <3>4 DEF Along
        <4>2. ASSUME NEW i \in 1..Len(part.bytes)
              PROVE  /\ part.bytes[i][2] = ((m + i - 1) % Block) + 1
                     /\ part.bytes[i][1] =
                          IF i = 1 THEN NthCluster(f, d)[m \div Block]
                          ELSE IF (m + i - 1) % Block = 0
                          THEN f[part.bytes[i - 1][1]] ELSE part.bytes[i - 1][1]
          <5>1. i \in Nat \ {0}  OBVIOUS
          <5>2. (m + i - 1) % Block = (k + i - 1) % Block  BY <3>5, <5>1
          <5> QED  BY <3>6, <4>1, <5>2
        <4> QED  BY <4>1, <4>2
      <3> QED  BY <3>7 DEF part
    <2> QED  BY <2>2, <2>3, <2>4, <2>5
  <1>2. \A m \in Nat : (\A k \in Nat : k < m => k \in Right) => m \in Right
    BY <1>1
  <1>3. Nat \subseteq Right
    <2> HIDE DEF Right
    <2> QED  BY <1>2, AllFromLess
  <1> QED  BY <1>3

LEMMA EveryReadAlong ==
  ASSUME NEW f \in FatTable, NEW b, NEW count \in Nat, NEW offset \in Nat
  PROVE  ReadsAlong(f, b, count, offset)
  <1>1. PICK from :
          /\ \A s \in Nat, c \in Cluster : from[s][c] = SeekStep(f, count, from, s, c)
          /\ \A d, o : preadFile(f, d, count, o) =
                IF Startable(d) THEN from[o][d] ELSE Failed
    BY SeekWalk
  <1>2. Along(f, b, count, offset, preadFile(f, b, count, offset))
    <2>1. CASE Startable(b)
      <3>1. b \in Cluster  BY <2>1, FatAssumption DEF Startable, Cluster
      <3> QED  BY <1>1, <2>1, <3>1, SeekAlong
    <2>2. CASE ~Startable(b)  BY <1>1, <2>2 DEF Along, Failed
    <2> QED  BY <2>1, <2>2
  <1> QED  BY <1>2 DEF Along, ReadsAlong

-----------------------------------------------------------------------------
(***************************************************************************)
(* On chains that end: both walks, and readFile(), by the number of the    *)
(* last cluster.                                                           *)
(***************************************************************************)
EndsAt(f, c, l) ==
    /\ Last(f, NthCluster(f, c)[l])
    /\ \A j \in Nat : j <= l => Startable(NthCluster(f, c)[j])
    /\ \A j \in Nat : j < l => Linked(f, NthCluster(f, c)[j])

\* The bytes of a chain whose last cluster has number l.
Full(l) == (l + 1) * Block

LEMMA FullIs ==
  ASSUME NEW l \in Nat
  PROVE  /\ Full(l) \in Nat /\ Block <= Full(l) /\ Full(0) = Block
         /\ l # 0 => l - 1 \in Nat /\ Full(l - 1) = Full(l) - Block
  <1>1. Block \in Nat /\ Block > 0  BY FileReadAssumption
  <1>2. Full(l) = l * Block + Block  BY <1>1 DEF Full
  <1>3. l * Block \in Nat  BY <1>1
  <1>4. Full(0) = Block  BY <1>1 DEF Full
  <1>5. ASSUME l # 0 PROVE l - 1 \in Nat /\ Full(l - 1) = Full(l) - Block
    <2>1. l - 1 \in Nat /\ (l - 1) + 1 = l  BY <1>5
    <2>2. Full(l - 1) = l * Block  BY <2>1 DEF Full
    <2> DEFINE x == l * Block
    <2>3. Full(l) = x + Block /\ Full(l - 1) = x /\ x \in Nat  BY <1>2, <1>3, <2>2
    <2> HIDE DEF x
    <2>4. Full(l - 1) = Full(l) - Block  BY <1>1, <2>3
    <2> QED  BY <2>1, <2>4
  <1> DEFINE x == l * Block
  <1>6. Full(l) = x + Block /\ x \in Nat  BY <1>2, <1>3
  <1> HIDE DEF x
  <1>7. Full(l) \in Nat /\ Block <= Full(l)  BY <1>1, <1>6
  <1> QED  BY <1>4, <1>5, <1>7

LEMMA EndsHere ==
  ASSUME NEW f \in FatTable, NEW c \in Cluster, EndsAt(f, c, 0)
  PROVE  Last(f, c) /\ Startable(c) /\ ~Startable(f[c]) /\ f[c] # 0
  <1>1. NthCluster(f, c)[0] = c  BY NthClusterIs
  <1>2. Last(f, c) /\ Startable(c)  BY <1>1 DEF EndsAt
  <1>3. f[c] \in Nat  BY DEF FatTable
  <1> QED  BY <1>2, <1>3, FatAssumption DEF Last, Startable

LEMMA EndsBehind ==
  ASSUME NEW f \in FatTable, NEW c \in Cluster, NEW l \in Nat, l # 0, EndsAt(f, c, l)
  PROVE  /\ ~Last(f, c) /\ ~Broken(f, c) /\ Linked(f, c) /\ f[c] \in Cluster
         /\ Startable(f[c]) /\ f[c] # 0 /\ EndsAt(f, f[c], l - 1)
  <1>1. NthCluster(f, c)[0] = c  BY NthClusterIs
  <1>2. Linked(f, c)  BY <1>1 DEF EndsAt
  <1>3. ~Last(f, c)  BY <1>2, LinkedNotLast
  <1>4. f[c] \in Cluster  BY <1>2 DEF Linked
  <1>5. \A j \in Nat : NthCluster(f, c)[j + 1] = NthCluster(f, f[c])[j]
    BY <1>2, NthShift
  <1>6. EndsAt(f, f[c], l - 1)
    <2>1. l - 1 \in Nat /\ (l - 1) + 1 = l  OBVIOUS
    <2>2. NthCluster(f, f[c])[l - 1] = NthCluster(f, c)[l]  BY <1>5, <2>1
    <2>3. ASSUME NEW j \in Nat, j <= l - 1 PROVE Startable(NthCluster(f, f[c])[j])
      <3>1. j + 1 \in Nat /\ j + 1 <= l  BY <2>3
      <3>2. Startable(NthCluster(f, c)[j + 1])  BY <3>1 DEF EndsAt
      <3> QED  BY <1>5, <3>2
    <2>4. ASSUME NEW j \in Nat, j < l - 1 PROVE Linked(f, NthCluster(f, f[c])[j])
      <3>1. j + 1 \in Nat /\ j + 1 < l  BY <2>4
      <3>2. Linked(f, NthCluster(f, c)[j + 1])  BY <3>1 DEF EndsAt
      <3>3. NthCluster(f, c)[j + 1] = NthCluster(f, f[c])[j]  BY <1>5
      <3> QED  BY <3>2, <3>3
    <2>5. Last(f, NthCluster(f, f[c])[l - 1])  BY <2>2 DEF EndsAt
    <2> QED  BY <2>3, <2>4, <2>5 DEF EndsAt
  <1>7. Startable(f[c])
    <2>1. NthCluster(f, f[c])[0] = f[c]  BY <1>4, NthClusterIs
    <2>2. 0 <= l - 1  OBVIOUS
    <2> QED  BY <1>6, <2>1, <2>2 DEF EndsAt
  <1>8. f[c] # 0  BY <1>7 DEF Startable
  <1> QED  BY <1>2, <1>3, <1>4, <1>6, <1>7, <1>8 DEF Broken

LEMMA FileIsSlice ==
  ASSUME NEW f \in FatTable, NEW from, \A c \in Cluster : from[c] = FileStep(f, from, c),
         NEW l \in Nat, NEW c \in Cluster, EndsAt(f, c, l)
  PROVE  from[c] = Got(Slice(f, c, 0, Full(l)))
  <1> DEFINE Right == {m \in Nat : \A d \in Cluster :
                         EndsAt(f, d, m) => from[d] = Got(Slice(f, d, 0, Full(m)))}
  <1>1. 0 \in Right
    <2> SUFFICES ASSUME NEW d \in Cluster, EndsAt(f, d, 0)
                 PROVE  from[d] = Got(Slice(f, d, 0, Full(0)))
      OBVIOUS
    <2>1. from[d] = Got(Data(d))  BY EndsHere DEF FileStep
    <2>2. Full(0) = Block  BY FullIs
    <2> QED  BY <2>1, <2>2, SliceBlock
  <1>2. ASSUME NEW m \in Nat, m \in Right PROVE m + 1 \in Right
    <2> SUFFICES ASSUME NEW d \in Cluster, EndsAt(f, d, m + 1)
                 PROVE  from[d] = Got(Slice(f, d, 0, Full(m + 1)))
      OBVIOUS
    <2>1. m + 1 \in Nat /\ m + 1 # 0 /\ (m + 1) - 1 = m  OBVIOUS
    <2>2. /\ ~Last(f, d) /\ ~Broken(f, d) /\ Linked(f, d) /\ f[d] \in Cluster
          /\ EndsAt(f, f[d], m)
      BY <2>1, EndsBehind
    <2> DEFINE e == Full(m + 1)
    <2>3. e \in Nat /\ Block <= e /\ Full(m) = e - Block  BY <2>1, FullIs
    <2>4. from[f[d]] = Got(Slice(f, f[d], 0, e - Block))  BY <1>2, <2>2, <2>3
    <2>5. from[d] = Before(Data(d), from[f[d]])  BY <2>2 DEF FileStep
    <2> HIDE DEF e
    <2>6. from[d] = Got(Slice(f, d, 0, e))  BY <2>2, <2>3, <2>4, <2>5, DataAndRest
    <2> QED  BY <2>6 DEF e
  <1>3. Nat \subseteq Right
    <2> HIDE DEF Right
    <2> QED  BY <1>1, <1>2, AllNaturals
  <1> QED  BY <1>3

LEMMA RestIsSlice ==
  ASSUME NEW f \in FatTable, NEW from,
         \A n \in Nat, c \in Cluster : from[n][c] = RestStep(f, from, n, c),
         NEW l \in Nat, NEW c \in Cluster, EndsAt(f, c, l), NEW n \in Nat
  PROVE  from[n][c] = IF n <= Full(l) THEN Got(Slice(f, c, 0, n)) ELSE Failed
  <1> DEFINE Right == {m \in Nat : \A d \in Cluster, k \in Nat :
                         EndsAt(f, d, m) =>
                           from[k][d] = IF k <= Full(m) THEN Got(Slice(f, d, 0, k)) ELSE Failed}
  <1>1. Block \in Nat /\ Block > 0  BY FileReadAssumption
  <1>2. ASSUME NEW m \in Nat, NEW d \in Cluster, NEW k \in Nat, k < Block
        PROVE  from[k][d] = IF k <= Full(m) THEN Got(Slice(f, d, 0, k)) ELSE Failed
    <2>1. Full(m) \in Nat /\ Block <= Full(m)  BY FullIs
    <2>2. k <= Block /\ k <= Full(m)  BY <1>1, <1>2, <2>1
    <2>3. from[k][d] = Got(SubSeq(Data(d), 1, k))  BY <1>2 DEF RestStep
    <2> QED  BY <2>2, <2>3, SliceBlock
  <1>3. 0 \in Right
    <2> SUFFICES ASSUME NEW d \in Cluster, NEW k \in Nat, EndsAt(f, d, 0)
                 PROVE  from[k][d] = IF k <= Full(0) THEN Got(Slice(f, d, 0, k)) ELSE Failed
      OBVIOUS
    <2>1. CASE k < Block
      <3>1. 0 \in Nat  OBVIOUS
      <3> QED  BY <1>2, <2>1, <3>1
    <2>2. CASE ~(k < Block)
      <3>1. from[k][d] = IF k = Block THEN Got(Data(d)) ELSE Failed
        BY <2>2, EndsHere DEF RestStep
      <3>2. Full(0) = Block  BY FullIs
      <3>3. k = Block \/ ~(k <= Block)  BY <1>1, <2>2
      <3>4. Data(d) = Slice(f, d, 0, Block)  BY SliceBlock
      <3> QED  BY <1>1, <3>1, <3>2, <3>3, <3>4
    <2> QED  BY <2>1, <2>2
  <1>4. ASSUME NEW m \in Nat, m \in Right PROVE m + 1 \in Right
    <2> SUFFICES ASSUME NEW d \in Cluster, NEW k \in Nat, EndsAt(f, d, m + 1)
                 PROVE  from[k][d] = IF k <= Full(m + 1) THEN Got(Slice(f, d, 0, k)) ELSE Failed
      OBVIOUS
    <2>1. m + 1 \in Nat /\ m + 1 # 0 /\ (m + 1) - 1 = m  OBVIOUS
    <2>2. CASE k < Block  BY <1>2, <2>1, <2>2
    <2>3. CASE ~(k < Block)
      <3> DEFINE r == k - Block  e == f[d]  z == Full(m + 1)
      <3>1. /\ ~Last(f, d) /\ ~Broken(f, d) /\ Linked(f, d) /\ e \in Cluster
            /\ EndsAt(f, e, m)
        BY <2>1, EndsBehind
      <3>2. z \in Nat /\ Full(m) = z - Block  BY <2>1, FullIs
      <3>3. r \in Nat /\ Block <= k  BY <1>1, <2>3
      <3>4. from[r][e] = IF r <= Full(m) THEN Got(Slice(f, e, 0, r)) ELSE Failed
        BY <1>4, <3>1, <3>3
      <3>5. from[k][d] = Before(Data(d), from[r][e])  BY <2>3, <3>1 DEF RestStep
      <3> HIDE DEF z
      <3>6. (r <= Full(m)) <=> (k <= z)  BY <1>1, <3>2
      <3>7. CASE k <= z
        <4>1. from[k][d] = Before(Data(d), Got(Slice(f, e, 0, r)))  BY <3>4, <3>5, <3>6, <3>7
        <4>2. from[k][d] = Got(Slice(f, d, 0, k))  BY <3>1, <3>3, <4>1, DataAndRest
        <4> QED  BY <3>7, <4>2 DEF z
      <3>8. CASE ~(k <= z)
        <4>1. from[k][d] = Before(Data(d), Failed)  BY <3>4, <3>5, <3>6, <3>8
        <4> QED  BY <3>8, <4>1 DEF z, Before, Failed
      <3> QED  BY <3>7, <3>8
    <2> QED  BY <2>2, <2>3
  <1>5. Nat \subseteq Right
    <2> HIDE DEF Right
    <2> QED  BY <1>3, <1>4, AllNaturals
  <1> QED  BY <1>5

\* What a read of count bytes from the byte s on gives, if the chain has e bytes.
Expected(f, c, count, s, e) ==
    IF s + count <= e THEN Got(Slice(f, c, s, count))
    ELSE IF s >= e THEN Got(<<>>) ELSE Failed

LEMMA TakenIsSlice ==
  ASSUME NEW f \in FatTable, NEW count \in Nat, NEW l \in Nat, NEW c \in Cluster,
         EndsAt(f, c, l), NEW s \in Nat, s < Block
  PROVE  Taken(f, count, s, c) = Expected(f, c, count, s, Full(l))
  <1> DEFINE e == Full(l)
  <1>1. Block \in Nat /\ Block > 0  BY FileReadAssumption
  <1>2. e \in Nat /\ Block <= e  BY FullIs
  <1>3. f[c] # 0
    <2>1. CASE l = 0  BY <2>1, EndsHere
    <2>2. CASE l # 0  BY <2>2, EndsBehind
    <2> QED  BY <2>1, <2>2
  <1> HIDE DEF e
  <1>4. CASE s + count <= Block
    <2>1. count <= Block - s /\ s + count <= e  BY <1>1, <1>2, <1>4
    <2>2. (IF count < Block - s THEN count ELSE Block - s) = count  BY <1>1, <2>1
    <2>3. Taken(f, count, s, c) = Got(FirstPart(c, s, count))  BY <2>2 DEF Taken
    <2>4. FirstPart(c, s, count) = Slice(f, c, s, count)  BY <1>4, SliceHead
    <2> QED  BY <2>1, <2>3, <2>4 DEF Expected, e
  <1>5. CASE ~(s + count <= Block)
    <2> DEFINE n == Block - s  m == count - n  x == f[c]
    <2>1. /\ n \in Nat /\ m \in Nat /\ n # count /\ ~(count < n) /\ s + n = Block
          /\ n + m = count /\ s + n <= Block
      BY <1>1, <1>5
    <2>2. Taken(f, count, s, c) = Before(FirstPart(c, s, n), Rest(f, x, m))
      BY <1>3, <2>1 DEF Taken
    <2>3. FirstPart(c, s, n) = Slice(f, c, s, n)
      <3> HIDE DEF n
      <3> QED  BY <2>1, SliceHead
    <2>4. PICK from :
            /\ \A k \in Nat, d \in Cluster : from[k][d] = RestStep(f, from, k, d)
            /\ \A next, k : Rest(f, next, k) = IF Startable(next) THEN from[k][next] ELSE Failed
      BY RestWalk
    <2> HIDE DEF n, m
    <2>5. CASE l = 0
      <3>1. ~Startable(x) /\ e = Block  BY <2>5, EndsHere, FullIs DEF e
      <3>2. Taken(f, count, s, c) = Failed  BY <2>2, <2>4, <3>1 DEF Before, Failed
      <3>3. ~(s + count <= e) /\ ~(s >= e)  BY <1>1, <1>5, <3>1
      <3> QED  BY <3>2, <3>3 DEF Expected, e
    <2>6. CASE l # 0
      <3>1. Linked(f, c) /\ x \in Cluster /\ Startable(x) /\ EndsAt(f, x, l - 1)
        BY <2>6, EndsBehind
      <3>2. l - 1 \in Nat /\ Full(l - 1) = e - Block  BY <2>6, FullIs DEF e
      <3>3. Rest(f, x, m) = IF m <= e - Block THEN Got(Slice(f, x, 0, m)) ELSE Failed
        <4>1. Rest(f, x, m) = from[m][x]  BY <2>4, <3>1
        <4>2. from[m][x] = IF m <= Full(l - 1) THEN Got(Slice(f, x, 0, m)) ELSE Failed
          BY <2>1, <2>4, <3>1, <3>2, RestIsSlice
        <4> QED  BY <3>2, <4>1, <4>2
      <3>4. (m <= e - Block) <=> (s + count <= e)  BY <1>1, <1>2, <2>1
      <3>5. CASE s + count <= e
        <4>1. Taken(f, count, s, c) = Before(Slice(f, c, s, n), Got(Slice(f, x, 0, m)))
          BY <2>2, <2>3, <3>3, <3>4, <3>5
        <4>2. Slice(f, c, 0 + Block, m) = Slice(f, x, 0, m)
          <5>1. 0 \in Nat /\ m \in Nat  BY <2>1
          <5> QED  BY <3>1, <5>1, SliceShift
        <4>3. Slice(f, c, s, n) \o Slice(f, c, s + n, m) = Slice(f, c, s, n + m)
          <5>1. n \in Nat /\ m \in Nat  BY <2>1
          <5>2. \A p \in Nat, q \in Nat :
                  Slice(f, c, s, p) \o Slice(f, c, s + p, q) = Slice(f, c, s, p + q)
            BY SliceJoin
          <5> QED  BY <5>1, <5>2
        <4>4. 0 + Block = s + n  BY <1>1, <2>1
        <4>5. Slice(f, c, s, n) \o Slice(f, x, 0, m) = Slice(f, c, s, count)
          BY <2>1, <4>2, <4>3, <4>4
        <4>6. Taken(f, count, s, c) = Got(Slice(f, c, s, count))
          BY <4>1, <4>5 DEF Before, Got
        <4> QED  BY <3>5, <4>6 DEF Expected, e
      <3>6. CASE ~(s + count <= e)
        <4>1. Taken(f, count, s, c) = Failed
          BY <2>2, <3>3, <3>4, <3>6 DEF Before, Failed
        <4>2. ~(s >= e)  BY <1>1, <1>2
        <4> QED  BY <3>6, <4>1, <4>2 DEF Expected, e
      <3> QED  BY <3>5, <3>6
    <2> QED  BY <2>5, <2>6
  <1> QED  BY <1>4, <1>5

LEMMA SeekIsSlice ==
  ASSUME NEW f \in FatTable, NEW count \in Nat, NEW from,
         \A s \in Nat, c \in Cluster : from[s][c] = SeekStep(f, count, from, s, c),
         NEW l \in Nat, NEW c \in Cluster, EndsAt(f, c, l), NEW s \in Nat
  PROVE  from[s][c] = Expected(f, c, count, s, Full(l))
  <1> DEFINE Right == {m \in Nat : \A d \in Cluster, k \in Nat :
                         EndsAt(f, d, m) => from[k][d] = Expected(f, d, count, k, Full(m))}
  <1>1. Block \in Nat /\ Block > 0  BY FileReadAssumption
  <1>2. ASSUME NEW m \in Nat, NEW d \in Cluster, EndsAt(f, d, m), NEW k \in Nat, k < Block
        PROVE  from[k][d] = Expected(f, d, count, k, Full(m))
    <2>1. from[k][d] = Taken(f, count, k, d)  BY <1>2 DEF SeekStep
    <2> QED  BY <1>2, <2>1, TakenIsSlice
  <1>3. 0 \in Right
    <2> SUFFICES ASSUME NEW d \in Cluster, NEW k \in Nat, EndsAt(f, d, 0)
                 PROVE  from[k][d] = Expected(f, d, count, k, Full(0))
      OBVIOUS
    <2>1. CASE k < Block
      <3>1. 0 \in Nat  OBVIOUS
      <3> QED  BY <1>2, <2>1, <3>1
    <2>2. CASE ~(k < Block)
      <3>1. from[k][d] = Got(<<>>)  BY <2>2, EndsHere DEF SeekStep
      <3>2. Full(0) = Block  BY FullIs
      <3>3. k + count <= Block => k = Block /\ count = 0  BY <1>1, <2>2
      <3>4. Slice(f, d, k, 0) = <<>>
        <4>1. 0 \in Nat  OBVIOUS
        <4>2. Slice(f, d, k, 0) \in Seq(Bytes) /\ Len(Slice(f, d, k, 0)) = 0
          BY <4>1, SliceIs
        <4> QED  BY <4>2
      <3>5. k >= Block  BY <1>1, <2>2
      <3> QED  BY <3>1, <3>2, <3>3, <3>4, <3>5 DEF Expected
    <2> QED  BY <2>1, <2>2
  <1>4. ASSUME NEW m \in Nat, m \in Right PROVE m + 1 \in Right
    <2> SUFFICES ASSUME NEW d \in Cluster, NEW k \in Nat, EndsAt(f, d, m + 1)
                 PROVE  from[k][d] = Expected(f, d, count, k, Full(m + 1))
      OBVIOUS
    <2>1. m + 1 \in Nat /\ m + 1 # 0 /\ (m + 1) - 1 = m  OBVIOUS
    <2>2. CASE k < Block  BY <1>2, <2>1, <2>2
    <2>3. CASE ~(k < Block)
      <3> DEFINE r == k - Block  e == f[d]  z == Full(m + 1)
      <3>1. /\ ~Last(f, d) /\ ~Broken(f, d) /\ Linked(f, d) /\ e \in Cluster
            /\ EndsAt(f, e, m)
        BY <2>1, EndsBehind
      <3>2. z \in Nat /\ Full(m) = z - Block  BY <2>1, FullIs
      <3>3. r \in Nat /\ r + Block = k  BY <1>1, <2>3
      <3>4. from[r][e] = Expected(f, e, count, r, Full(m))  BY <1>4, <3>1, <3>3
      <3>5. from[k][d] = from[r][e]  BY <2>3, <3>1 DEF SeekStep
      <3> HIDE DEF z, r
      <3>6. /\ (r + count <= Full(m)) <=> (k + count <= z)
            /\ (r >= Full(m)) <=> (k >= z)
        BY <1>1, <3>2, <3>3
      <3>7. Slice(f, d, r + Block, count) = Slice(f, e, r, count)  BY <3>1, <3>3, SliceShift
      <3>8. Expected(f, e, count, r, Full(m)) = Expected(f, d, count, k, z)
        BY <3>3, <3>6, <3>7 DEF Expected
      <3> QED  BY <3>4, <3>5, <3>8 DEF z
    <2> QED  BY <2>2, <2>3
  <1>5. Nat \subseteq Right
    <2> HIDE DEF Right
    <2> QED  BY <1>3, <1>4, AllNaturals
  <1> QED  BY <1>5

\* A chain that ends has a last cluster, and those before it are linked.
LEMMA ProperEnds ==
  ASSUME NEW f \in FatTable, NEW b, ProperChain(f, b)
  PROVE  b \in Cluster /\ \E l \in Nat : EndsAt(f, b, l)
  <1>1. /\ Startable(b) /\ b \in Cluster
        /\ \A c \in ChainOf(f, b) : Startable(c)
    BY FatAssumption DEF ProperChain, Sound, Startable, Cluster
  <1> DEFINE nth == NthCluster(f, b)
             On(k) == \A j \in Nat : j < k => nth[j] \in Cluster /\ Linked(f, nth[j])
             S == {nth[k] : k \in {m \in Nat : On(m)}}
  <1>2. nth[0] = b  BY <1>1, NthClusterIs
  <1>3. ASSUME NEW k \in Nat, nth[k] \in Cluster, Linked(f, nth[k])
        PROVE  nth[k + 1] = f[nth[k]] /\ f[nth[k]] \in Cluster
    BY <1>1, <1>3, NthClusterIs DEF Linked
  <1> HIDE DEF nth
  <1>4. ASSUME NEW k \in Nat, On(k) PROVE nth[k] \in Cluster
    <2>1. CASE k = 0  BY <1>1, <1>2, <2>1
    <2>2. CASE k # 0
      <3>1. k - 1 \in Nat /\ k - 1 < k /\ (k - 1) + 1 = k  BY <2>2
      <3>2. nth[k - 1] \in Cluster /\ Linked(f, nth[k - 1])  BY <1>4, <3>1
      <3>3. nth[(k - 1) + 1] \in Cluster  BY <1>3, <3>1, <3>2
      <3> QED  BY <3>1, <3>3
    <2> QED  BY <2>1, <2>2
  <1>5. S \in SUBSET Cluster
    <2> HIDE DEF On
    <2> QED  BY <1>4
  <1>6. b \in S
    <2>1. On(0) /\ 0 \in Nat  OBVIOUS
    <2> HIDE DEF On
    <2> QED  BY <1>2, <2>1
  <1>7. Closed(f, S)
    <2> SUFFICES ASSUME NEW k \in Nat, On(k), Linked(f, nth[k]) PROVE f[nth[k]] \in S
      <3> HIDE DEF On
      <3> QED  BY DEF Closed
    <2>1. nth[k] \in Cluster  BY <1>4
    <2>2. nth[k + 1] = f[nth[k]]  BY <1>3, <2>1
    <2>3. On(k + 1)
      <3> SUFFICES ASSUME NEW j \in Nat, j < k + 1
                   PROVE  nth[j] \in Cluster /\ Linked(f, nth[j])
        OBVIOUS
      <3>1. j < k \/ j = k  OBVIOUS
      <3> QED  BY <2>1, <3>1
    <2>4. k + 1 \in Nat  OBVIOUS
    <2> HIDE DEF On
    <2> QED  BY <2>2, <2>3, <2>4
  <1>8. ChainOf(f, b) \subseteq S  BY <1>5, <1>6, <1>7, ChainLeast
  <1>9. PICK e \in ChainOf(f, b) : Last(f, e)  BY DEF ProperChain, Sound
  <1>10. PICK l \in Nat : On(l) /\ e = nth[l]
    <2> HIDE DEF On
    <2> QED  BY <1>8, <1>9
  <1>11. ASSUME NEW j \in Nat, j <= l PROVE Startable(nth[j])
    <2> DEFINE In == {k \in Nat : k <= l => nth[k] \in ChainOf(f, b)}
    <2>1. 0 \in In  BY <1>1, <1>2, ChainStart
    <2>2. ASSUME NEW k \in Nat, k \in In PROVE k + 1 \in In
      <3> SUFFICES ASSUME k + 1 <= l PROVE nth[k + 1] \in ChainOf(f, b)  OBVIOUS
      <3>1. k < l /\ k <= l  OBVIOUS
      <3>2. nth[k] \in ChainOf(f, b)  BY <2>2, <3>1
      <3>3. nth[k] \in Cluster /\ Linked(f, nth[k])  BY <1>10, <3>1
      <3>4. f[nth[k]] \in ChainOf(f, b)  BY <3>2, <3>3, ChainStep
      <3> QED  BY <1>3, <3>3, <3>4
    <2>3. Nat \subseteq In
      <3> HIDE DEF In
      <3> QED  BY <2>1, <2>2, AllNaturals
    <2>4. nth[j] \in ChainOf(f, b)  BY <1>11, <2>3
    <2> QED  BY <1>1, <2>4
  <1>12. EndsAt(f, b, l)  BY <1>9, <1>10, <1>11 DEF EndsAt, nth
  <1> QED  BY <1>1, <1>12

LEMMA EveryReadIsPart ==
  ASSUME NEW f \in FatTable, NEW b, ProperChain(f, b), NEW count \in Nat, NEW offset \in Nat
  PROVE  ReadsPart(f, b, count, offset)
  <1> DEFINE file == readFile(f, b).bytes
             part == preadFile(f, b, count, offset)
  <1>1. b \in Cluster  BY ProperEnds
  <1>2. PICK l \in Nat : EndsAt(f, b, l)  BY ProperEnds
  <1> DEFINE e == Full(l)
  <1>3. e \in Nat  BY FullIs
  <1>4. Sound(f, b) /\ Startable(b)  BY DEF ProperChain, Sound
  <1>5. file = Slice(f, b, 0, e) /\ Len(file) = e
    <2>1. PICK from : /\ \A c \in Cluster : from[c] = FileStep(f, from, c)
                      /\ \A d : readFile(f, d) = IF Sound(f, d) THEN from[d] ELSE Failed
      BY FileWalk
    <2>2. from[b] = Got(Slice(f, b, 0, e))  BY <1>1, <1>2, <2>1, FileIsSlice
    <2>3. readFile(f, b) = Got(Slice(f, b, 0, e))  BY <1>4, <2>1, <2>2
    <2>4. Len(Slice(f, b, 0, e)) = e
      <3> HIDE DEF e
      <3>1. 0 \in Nat  OBVIOUS
      <3> QED  BY <1>1, <1>3, <3>1, SliceIs
    <2> QED  BY <2>3, <2>4 DEF Got
  <1>6. part = Expected(f, b, count, offset, e)
    <2>1. PICK from :
            /\ \A s \in Nat, c \in Cluster : from[s][c] = SeekStep(f, count, from, s, c)
            /\ \A d, o : preadFile(f, d, count, o) =
                  IF Startable(d) THEN from[o][d] ELSE Failed
      BY SeekWalk
    <2>2. part = from[offset][b]  BY <1>4, <2>1
    <2>3. from[offset][b] = Expected(f, b, count, offset, e)
      BY <1>1, <1>2, <2>1, SeekIsSlice
    <2> QED  BY <2>2, <2>3
  <1> HIDE DEF e, file, part
  <1>7. offset + count <= e =>
          SubSeq(file, offset + 1, offset + count) = Slice(f, b, offset, count)
    BY <1>1, <1>3, <1>5, SlicePart
  <1>8. IF offset + count <= Len(file)
        THEN part = Got(SubSeq(file, offset + 1, offset + count))
        ELSE part = IF offset >= Len(file) THEN Got(<<>>) ELSE Failed
    BY <1>5, <1>6, <1>7 DEF Expected
  <1> QED  BY <1>8 DEF ReadsPart, file, part

\* preadFile() on any table, from any cluster, with any offset and count: what
\* comes back follows the words of the table, and of a chain that ends it is the
\* part of readFile()'s bytes that was asked for (fd.h:134-178).
THEOREM ReadsAreParts ==
  ASSUME NEW f \in FatTable, NEW b, NEW count \in Nat, NEW offset \in Nat
  PROVE  /\ ReadsAlong(f, b, count, offset)
         /\ ProperChain(f, b) => ReadsPart(f, b, count, offset)
  BY EveryReadAlong, EveryReadIsPart

\* In particular with the tables and starts of the walks of Travel, whatever
\* they are (fd.h:134-178).
THEOREM ReadsCorrect == Spec => []PositionedReads
  <1>1. TypeOK => PositionedReads
    <2> SUFFICES ASSUME TypeOK, NEW offset \in 0..(2 * Block + 1),
                        NEW count \in 0..(2 * Block + 1)
                 PROVE  /\ ReadsAlong(fat, first, count, offset)
                        /\ ProperChain(fat, first) => ReadsPart(fat, first, count, offset)
      BY DEF PositionedReads
    <2>1. fat \in FatTable  BY DEF TypeOK
    <2>2. offset \in Nat /\ count \in Nat  BY FileReadAssumption
    <2> QED  BY <2>1, <2>2, ReadsAreParts
  <1> QED  BY <1>1, TypeCorrect, PTL
=============================================================================
