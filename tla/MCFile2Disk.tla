----------------------------- MODULE MCFile2Disk -----------------------------
(***************************************************************************)
(* Small disks for File2Disk: a volume of five data clusters of two        *)
(* two-byte sectors after the root directory, two files, and a check of    *)
(* the first one and a half clusters, so that filecmp() takes two rounds.  *)
(***************************************************************************)
EXTENDS File2Disk, Sequences

MCFiles == {"IMG", "GRLDR"}
Img == {"IMG"}

MCVolStart == 3
MCFirstData == 2
MCRootCluster == 2

-----------------------------------------------------------------------------
(* Volumes, described by the clusters of the root directory and files. *)

Links(chains) ==
    [c \in Cluster |->
        IF c < 2 THEN EocMin
        ELSE IF \E s \in chains : \E i \in 1 .. Len(s) - 1 : s[i] = c
        THEN CHOOSE d \in Cluster :
                 \E s \in chains : \E i \in 1 .. Len(s) - 1 : s[i] = c /\ s[i + 1] = d
        ELSE IF \E s \in chains : s # <<>> /\ s[Len(s)] = c THEN EocMin
        ELSE 0]

Block(f, k) == (IF f = "IMG" THEN 10 ELSE 20) + k

Clusters(s) == {s[i] : i \in 1 .. Len(s)}

DirEnt(f, s, size) ==
    [name |-> f, begin |-> IF s = <<>> THEN 0 ELSE s[1], size |-> size]

File(f, s, size) ==
    [page |-> [k \in Cluster |-> IF k < Len(s) THEN Block(f, k) ELSE 0],
     size |-> size,
     own  |-> Clusters(s)]

\* A volume in which the kernel and the disk agree.  The last cluster of the
\* root directory has the end marker.
Healthy(root, img, isize, grldr, gsize) ==
    [fat  |-> Links({root, img, grldr}),
     dir  |-> [c \in Cluster |->
                  (IF c = root[1] THEN {DirEnt("IMG", img, isize)} ELSE {})
                  \union
                  (IF c = root[Len(root)] THEN {DirEnt("GRLDR", grldr, gsize)} ELSE {})],
     mark |-> root[Len(root)],
     data |-> [c \in Cluster |->
                  IF c \in Clusters(img)
                  THEN Block("IMG", (CHOOSE i \in 1 .. Len(img) : img[i] = c) - 1)
                  ELSE IF c \in Clusters(grldr)
                  THEN Block("GRLDR", (CHOOSE i \in 1 .. Len(grldr) : grldr[i] = c) - 1)
                  ELSE 0],
     file |-> [f \in {"IMG", "GRLDR"} |->
                  IF f = "IMG" THEN File(f, img, isize) ELSE File(f, grldr, gsize)]]

\* A large file and one of a cluster.
Plain == Healthy(<<2>>, <<3, 4, 5>>, 12, <<6>>, 4)
\* The same files after the file system has moved them.
Moved == Healthy(<<2>>, <<5, 6, 7>>, 11, <<3>>, 4)
\* It is in two pieces.
Fragmented == Healthy(<<2>>, <<3, 5, 6>>, 12, <<4>>, 4)
\* A root directory of two clusters; a file that does not fill its cluster.
TwoClusterRoot == Healthy(<<2, 7>>, <<3, 4>>, 7, <<5>>, 3)
\* A file of no bytes has no cluster.
Empty == Healthy(<<2>>, <<>>, 0, <<4>>, 4)
\* The name is not in the root directory.
Absent == [Plain EXCEPT !.dir = [c \in Cluster |-> {}]]
\* The volume label is spelt like the file.
Twice == [Plain EXCEPT !.dir[2] = @ \union {DirEnt("IMG", <<>>, 0)}]
\* The second block has been written to, and is not yet on the disk.
Dirty == [Plain EXCEPT !.file["IMG"].page[1] = 99]

Quiet == {Plain, Moved, Fragmented, TwoClusterRoot, Empty, Absent, Twice, Dirty}

\* The file's chain is a cycle; the other's chain is one; the root's is.
Cyclic == [Plain EXCEPT !.fat[5] = 3]
OtherCyclic == [TwoClusterRoot EXCEPT !.fat[5] = 6, !.fat[6] = 5]
RootCyclic == [TwoClusterRoot EXCEPT !.fat[7] = 2, !.mark = NFat]
\* A chain runs into a bad cluster; a first cluster lies outside the table.
BadLink == [TwoClusterRoot EXCEPT !.fat[5] = NFat]
BadStart == [Plain EXCEPT !.dir[2] = {DirEnt("IMG", <<NFat>>, 12)}]
RootBad == [TwoClusterRoot EXCEPT !.fat[2] = 2]
\* The table on the disk does not have the file's second cluster yet.
ShortChain == [Plain EXCEPT !.fat[3] = EocMin]
\* The path is of a file in a subdirectory; the root directory has another
\* of that name, and the two begin alike.
LookAlike ==
    [Plain EXCEPT !.fat = Links({<<2>>, <<3, 4, 5>>, <<6, 7>>}),
                  !.data = [Plain.data EXCEPT ![6] = Block("IMG", 0),
                                              ![7] = Block("IMG", 1)],
                  !.file["IMG"] = File("IMG", <<6, 7>>, 8)]

Corrupt == {Cyclic, OtherCyclic, RootCyclic, BadLink, BadStart, RootBad, ShortChain}

OneVolumes == {Plain, TwoClusterRoot} \union Corrupt
TwoVolumes == {Plain, Fragmented}
LookAlikeVolumes == {LookAlike}
SmallVolumes == {TwoClusterRoot}

-----------------------------------------------------------------------------
(* Partition tables. *)

Fat(begin) == [boot |-> TRUE, type |-> 12, begin |-> begin, size |-> 14]
Busy == [boot |-> FALSE, type |-> 7, begin |-> 40, size |-> 8]

Table4(e0, e1, e2, e3) ==
    [s \in Slot |-> CASE s = 0 -> e0 [] s = 1 -> e1 [] s = 2 -> e2 [] s = 3 -> e3]

\* One entry free behind one in use; none free.
Common == {Table4(Fat(MCVolStart), Busy, EmptyEntry, EmptyEntry),
           Table4(Fat(MCVolStart), Busy, Busy, Busy)}
\* No first entry; a first entry that is no FAT volume.
MCMbrs == Common \union {Table4(EmptyEntry, Busy, EmptyEntry, EmptyEntry),
                         Table4(Fat(1), EmptyEntry, EmptyEntry, EmptyEntry)}
OneFree == {Table4(Fat(MCVolStart), Busy, EmptyEntry, EmptyEntry)}
==============================================================================
