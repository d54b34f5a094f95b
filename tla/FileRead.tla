------------------------------ MODULE FileRead ------------------------------
(***************************************************************************)
(* What DosFd (fd.h) reads of a file through travel(): all of it, or the   *)
(* part that preadFile() puts together from two walks.  Travel has the     *)
(* walks step by step; here they are functions of the table.               *)
(***************************************************************************)
EXTENDS FatVolume, Sequences

CONSTANT Block   \* clusterSize() in bytes

ASSUME FileReadAssumption == Block \in Nat \ {0}

\* What reading the cluster at sector(c) gives.
Data(c) == [i \in 1..Block |-> <<c, i>>]

\* A read ends with bytes or with a failed assertion.
Got(bytes) == [ok |-> TRUE, bytes |-> bytes]
Failed     == [ok |-> FALSE, bytes |-> <<>>]
Before(bytes, r) == IF r.ok THEN Got(bytes \o r.bytes) ELSE Failed

\* readFile() of a chain that ends: its clusters in full.
readFile(fat, first) ==
    LET from[c \in Cluster] ==
            IF Last(fat, c) THEN Got(Data(c))
            ELSE IF Broken(fat, c) THEN Failed
            ELSE Before(Data(c), from[fat[c]])
    IN  IF Sound(fat, first) THEN from[first] ELSE Failed

\* preadFile()'s second walk.  It stops where the count is below a block; a
\* count used up at the end of a cluster takes it one cluster further, and
\* the assertion on the size fails if the chain ends before the count.
Rest(fat, next, count) ==
    LET from[n \in Nat] ==
          [c \in Cluster |->
            IF n < Block THEN Got(SubSeq(Data(c), 1, n))
            ELSE IF Last(fat, c) THEN IF n = Block THEN Got(Data(c)) ELSE Failed
            ELSE IF Broken(fat, c) THEN Failed
            ELSE Before(Data(c), from[n - Block][fat[c]])]
    IN  IF Startable(next) THEN from[count][next] ELSE Failed

\* A wrong variant: the part is taken from the start of the cluster.
FirstPartUnskipped(c, skip, n) == SubSeq(Data(c), 1, n)

\* What the read takes of the cluster that holds its offset.
FirstPart(c, skip, n) == SubSeq(Data(c), skip + 1, skip + n)

\* Its first walk goes to the cluster of the offset; a chain that ends before
\* gives nothing, and a word 0 after that cluster what there is.
preadFile(fat, first, count, offset) ==
    LET seek[skip \in Nat] ==
          [c \in Cluster |->
            IF skip < Block
            THEN LET n == IF count < Block - skip THEN count ELSE Block - skip
                     head == FirstPart(c, skip, n)
                 IN  IF n = count \/ fat[c] = 0 THEN Got(head)
                     ELSE Before(head, Rest(fat, fat[c], count - n))
            ELSE IF Last(fat, c) THEN Got(<<>>)
            ELSE IF Broken(fat, c) THEN Failed
            ELSE seek[skip - Block][fat[c]]]
    IN  IF Startable(first) THEN seek[offset][first] ELSE Failed

(***************************************************************************)
(* A positioned read of a chain that ends is that part of the file, however *)
(* offset and count lie to the clusters; it gives nothing if it starts     *)
(* behind the file, and fails if only its end is behind (fd.h:134-178).    *)
(* (A chain through the reserved words 0 and 1, which travel() follows,    *)
(* can break off where the second walk begins.)                            *)
(***************************************************************************)
ProperChain(fat, first) ==
    Sound(fat, first) /\ \A c \in ChainOf(fat, first) : Startable(c)

ReadsPart(fat, first, count, offset) ==
    LET file == readFile(fat, first).bytes
        part == preadFile(fat, first, count, offset)
    IN  IF offset + count <= Len(file)
        THEN part = Got(SubSeq(file, offset + 1, offset + count))
        ELSE part = IF offset >= Len(file) THEN Got(<<>>) ELSE Failed

\* On any table, what comes back is no more than asked for, and follows the
\* words of the table from the cluster of the offset on; an answer that is
\* short without an error begins behind the file, or stops at the word 0.
\* (The assertion that a cluster is not linked to itself does not see the
\* link from the first walk to the second: such a cluster is read twice.)
ReadsAlong(fat, first, count, offset) ==
    LET part == preadFile(fat, first, count, offset)
        at(i) == part.bytes[i][1]
        in(i) == (offset + i - 1) % Block
    IN  part.ok =>
            /\ Len(part.bytes) <= count
            /\ \A i \in 1..Len(part.bytes) :
                 /\ part.bytes[i][2] = in(i) + 1
                 /\ at(i) = IF i = 1 THEN NthCluster(fat, first)[offset \div Block]
                            ELSE IF in(i) = 0 THEN fat[at(i - 1)] ELSE at(i - 1)
            /\ Len(part.bytes) < count =>
                 part.bytes = <<>> \/ fat[at(Len(part.bytes))] = 0
=============================================================================
