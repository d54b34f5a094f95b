--------------------------- MODULE File2DiskProofs ---------------------------
(***************************************************************************)
(* What File2Disk promises, for any number of processes and any tables and *)
(* volumes, and that a process which has the disk for itself implements    *)
(* PartitionTable.                                                         *)
(***************************************************************************)
EXTENDS File2Disk, Induction, TLAPS

-----------------------------------------------------------------------------
(***************************************************************************)
(* The inductive invariant.  A process that is past a point of the program *)
(* knows what was established there; what it knows is about its own copies *)
(* of the table and the FAT, so that no step of another process disturbs   *)
(* it, with the exception of the first entry, which no step changes.       *)
(***************************************************************************)
Cleared == {"edit", "commit", "write", "fsync"}
Targeted == Cleared \union {"busy"}
Checked == Targeted \union {"path", "compare", "choose"}
HasFat == Checked \union {"list", "search", "nchain"}
HasTable == HasFat \union {"open"}

EditOf(p) ==
    /\ \A s \in Slot \ {part[p]} : disk[p][s] = base[p][s]
    /\ disk[p][part[p]].type = LinuxType
    /\ disk[p][part[p]].begin = VolStart + sector(ent[p].begin)

Knows(p) ==
    /\ pc[p] \in HasTable => disk[p][0] = cache[0]
    /\ pc[p] \in HasFat => disk[p][0].begin = VolStart
    /\ pc[p] \in Checked =>
           Startable(ent[p].begin) /\ OneExtent(fat1[p], ent[p].begin)
    /\ pc[p] \in Targeted => part[p] \in 1 .. 3
    /\ pc[p] \in HasTable /\ ~Edited(p) => disk[p] = base[p]
    /\ pc[p] \in {"start"} \union (HasTable \ Cleared) => ~asked[p]
    /\ pc[p] \in Cleared => isfree(base[p][part[p]]) \/ asked[p]
    /\ Edited(p) => EditOf(p)

IInv ==
    /\ TypeOK
    /\ medium[0] = cache[0]
    /\ \A p \in Procs : Knows(p)

\* What a process step leaves alone of another process.
SameLocals(q) ==
    /\ part'[q] = part[q]
    /\ base'[q] = base[q]
    /\ disk'[q] = disk[q]
    /\ fat1'[q] = fat1[q]
    /\ ent'[q] = ent[q]
    /\ asked'[q] = asked[q]
    /\ pc'[q] = pc[q]

LEMMA KnowsKept ==
  ASSUME NEW q \in Procs, Knows(q), SameLocals(q), cache'[0] = cache[0]
  PROVE  Knows(q)'
  BY DEF Knows, SameLocals, Edited, EditOf, OneExtent, RunTo, Last,
         Startable, isfree, sector

\* A step of one process: it is enough to look at its own knowledge.
LEMMA OneMoves ==
  ASSUME IInv, NEW p \in Procs, TypeOK',
         cache'[0] = cache[0], medium'[0] = medium[0],
         \A q \in Procs \ {p} : SameLocals(q),
         Knows(p)'
  PROVE  IInv'
  <1>1. ASSUME NEW q \in Procs PROVE Knows(q)'
    <2>1. CASE q = p  BY <2>1
    <2>2. CASE q # p  BY <2>2, KnowsKept DEF IInv
    <2> QED  BY <2>1, <2>2
  <1> QED  BY <1>1 DEF IInv

-----------------------------------------------------------------------------
(* Facts about the operators. *)

LEMMA TravelEndType ==
  ASSUME NEW f, NEW b PROVE TravelEnd(f, b) \in {"done", "spin", "failed"}
  BY DEF TravelEnd

LEMMA PrintEndsType ==
  ASSUME NEW f, NEW end \in PrintEnds(f) PROVE end \in {"done", "spin", "failed"}
  BY TravelEndType DEF PrintEnds, PrintEndsOf, RootEnd

\* A table entry taken from the root directory is one of the volume's.
LEMMA RootEntriesType ==
  ASSUME TypeOK, NEW f, NEW d \in RootEntries(f) PROVE d \in DirEntry
  <1>1. vol.dir \in [Cluster -> SUBSET DirEntry]
    BY File2DiskAssumption DEF TypeOK, Volume
  <1> QED  BY <1>1 DEF RootEntries, ChainOf

LEMMA Remainder ==
  ASSUME NEW a \in Nat, NEW n \in Nat, a < n
  PROVE  a % n = a  BY SMT

LEMMA Quotient ==
  ASSUME NEW a \in Nat, NEW n \in Nat \ {0}
  PROVE  a \div n \in Nat  BY SMT

LEMMA ProductMonotone ==
  ASSUME NEW a \in Nat, NEW b \in Nat, NEW n \in Nat, a <= b
  PROVE  a * n \in Nat /\ b * n \in Nat /\ a * n <= b * n
  <1>1. (b - a) * n \in Nat  OBVIOUS
  <1>2. b * n = a * n + (b - a) * n  OBVIOUS
  <1>3. a * n \in Nat /\ b * n \in Nat  OBVIOUS
  <1> QED  BY <1>1, <1>2, <1>3

LEMMA Sizes ==
    /\ {VolStart, FirstData, NFat} \subseteq Nat
    /\ {SecPerClus, SectorBytes, CheckBytes, SectorLimit} \subseteq Nat \ {0}
    /\ VolStart + FirstData + NFat * SecPerClus < SectorLimit
  BY File2DiskAssumption, FatAssumption

\* The sectors of a cluster of the volume fit the fields of an entry.
LEMMA SectorFits ==
  ASSUME NEW b \in Nat, Startable(b)
  PROVE  sector(b) \in Nat /\ VolStart + sector(b) < SectorLimit
  <1>1. b - 2 \in Nat /\ b - 2 <= NFat  BY Sizes DEF Startable
  <1>2. NFat \in Nat /\ SecPerClus \in Nat  BY Sizes
  <1> DEFINE x == (b - 2) * SecPerClus
             y == NFat * SecPerClus
  <1>3. x \in Nat /\ y \in Nat /\ x <= y  BY <1>1, <1>2, ProductMonotone
  <1>4. sector(b) = FirstData + x  BY DEF sector
  <1>5. VolStart + FirstData + y < SectorLimit  BY Sizes
  <1>6. VolStart \in Nat /\ FirstData \in Nat /\ SectorLimit \in Nat  BY Sizes
  <1> HIDE DEF x, y
  <1> QED  BY <1>3, <1>4, <1>5, <1>6

\* sector() is the place of the cluster in the volume.
LEMMA FirstSectorIs ==
  ASSUME NEW b \in Nat PROVE VolStart + sector(b) = FirstSector(b)
  <1>1. VolStart \in Nat /\ FirstData \in Nat /\ SecPerClus \in Nat  BY Sizes
  <1> DEFINE x == (b - 2) * SecPerClus
  <1>2. x \in Int  BY <1>1
  <1>3. VolStart + (FirstData + x) = VolStart + FirstData + x
    <2> HIDE DEF x
    <2> QED  BY <1>1, <1>2
  <1> QED  BY <1>3 DEF sector, FirstSector

LEMMA NewEntryIs ==
  ASSUME IInv, NEW p \in Procs, pc[p] = "edit"
  PROVE  /\ NewEntry(p) \in Entry
         /\ NewEntry(p).type = LinuxType
         /\ NewEntry(p).begin = VolStart + sector(ent[p].begin)
  <1>1. Knows(p)  BY DEF IInv
  <1>2. ent[p] \in DirEntry  BY DEF IInv, TypeOK
  <1>3. ent[p].begin \in Nat /\ ent[p].size \in Nat  BY <1>2 DEF DirEntry
  <1>4. Startable(ent[p].begin) /\ disk[p][0].begin = VolStart
    BY <1>1 DEF Knows, Checked, Targeted, Cleared, HasFat
  <1>5. sector(ent[p].begin) \in Nat /\ VolStart + sector(ent[p].begin) < SectorLimit
    BY <1>3, <1>4, SectorFits
  <1>6. VolStart \in Nat /\ SectorLimit \in Nat /\ SectorBytes \in Nat \ {0}
    BY File2DiskAssumption
  <1>7. (sector(ent[p].begin) + VolStart) % SectorLimit = VolStart + sector(ent[p].begin)
    <2>1. sector(ent[p].begin) + VolStart \in Nat  BY <1>5, <1>6
    <2>2. sector(ent[p].begin) + VolStart < SectorLimit  BY <1>5, <1>6
    <2>3. (sector(ent[p].begin) + VolStart) % SectorLimit = sector(ent[p].begin) + VolStart
      BY <2>1, <2>2, <1>6, Remainder
    <2> QED  BY <2>3, <1>5, <1>6
  <1>8. (ent[p].size + SectorBytes - 1) \div SectorBytes \in Nat
    <2>1. ent[p].size + SectorBytes - 1 \in Nat  BY <1>3, <1>6
    <2> QED  BY <2>1, <1>6, Quotient
  <1>9. VolStart + sector(ent[p].begin) \in Nat  BY <1>5, <1>6
  <1> QED  BY <1>4, <1>7, <1>8, <1>9 DEF NewEntry, Entry, LinuxType

-----------------------------------------------------------------------------
(* Each step of a process preserves the invariant. *)

LEMMA InitIInv == ASSUME Init PROVE IInv
  <1>1. NoMbr \in Mbr  BY DEF NoMbr, Mbr, Entry, EmptyEntry
  <1>2. NoFat \in FatTable  BY DEF NoFat, FatTable
  <1>3. /\ medium \in Mbr
        /\ 0 \in 0 .. MaxMoves
        /\ 0 \in 0 .. MaxRuns
        /\ 0 \in 0 .. CheckBytes
    <2>1. medium \in Mbr  BY File2DiskAssumption DEF Init
    <2>2. MaxMoves \in Nat /\ MaxRuns \in Nat  BY File2DiskAssumption
    <2>3. CheckBytes \in Nat  BY Sizes
    <2> QED  BY <2>1, <2>2, <2>3
  <1>4. ent \in [Procs -> DirEntry]  BY File2DiskAssumption DEF Init, DirEntry
  <1>5. TypeOK
    BY <1>1, <1>2, <1>3, <1>4, File2DiskAssumption DEF Init, TypeOK, PCs
  <1>6. \A p \in Procs : Knows(p)
    BY DEF Init, Knows, HasTable, HasFat, Checked, Targeted, Cleared, Edited
  <1> QED  BY <1>5, <1>6 DEF Init, IInv

LEMMA ReadMbrIInv == ASSUME IInv, NEW p \in Procs, ReadMbr(p) PROVE IInv'
  <1> USE DEF ReadMbr, Goto, tables, world, args, found, cmp
  <1>1. TypeOK'  BY DEF IInv, TypeOK, PCs, Ended
  <1>2. \A q \in Procs \ {p} : SameLocals(q)  BY DEF IInv, TypeOK, SameLocals
  <1>3. pc'[p] \in {"failed", "open"} /\ disk'[p] = cache /\ base'[p] = cache /\ ~asked'[p]
    BY DEF IInv, TypeOK, Knows
  <1>4. Knows(p)'
    BY <1>3 DEF Knows, HasTable, HasFat, Checked, Targeted, Cleared, Edited
  <1> QED  BY <1>1, <1>2, <1>4, OneMoves DEF IInv

LEMMA OpenVolumeIInv == ASSUME IInv, NEW p \in Procs, OpenVolume(p) PROVE IInv'
  <1> USE DEF OpenVolume, Goto, tables, world, args, cmp
  <1>1. vol.fat \in FatTable  BY File2DiskAssumption DEF IInv, TypeOK, Volume
  <1>2. TypeOK'  BY <1>1 DEF IInv, TypeOK, PCs, Ended
  <1>3. \A q \in Procs \ {p} : SameLocals(q)  BY DEF IInv, TypeOK, SameLocals
  <1>4. pc'[p] \in {"failed", "list", "search"}
        /\ (pc'[p] # "failed" => disk[p][0].begin = VolStart)
    BY DEF IInv, TypeOK
  <1>5. Knows(p)'
    BY <1>4
       DEF IInv, Knows, HasTable, HasFat, Checked, Targeted, Cleared, Edited
  <1> QED  BY <1>2, <1>3, <1>5, OneMoves DEF IInv

LEMMA ListIInv == ASSUME IInv, NEW p \in Procs, List(p) PROVE IInv'
  <1> USE DEF List, tables, world, args, found, cmp
  <1>1. PICK label \in {"done", "spin", "failed"} : Goto(p, label)
    BY PrintEndsType DEF PrintThen
  <1> USE <1>1 DEF Goto
  <1>2. TypeOK'  BY DEF IInv, TypeOK, PCs, Ended
  <1>3. \A q \in Procs \ {p} : SameLocals(q)  BY DEF IInv, TypeOK, SameLocals
  <1>4. pc'[p] \in {"done", "spin", "failed"}  BY DEF IInv, TypeOK
  <1>5. Knows(p)'
    BY <1>4 DEF Knows, HasTable, HasFat, Checked, Targeted, Cleared, Edited
  <1> QED  BY <1>2, <1>3, <1>5, OneMoves DEF IInv

LEMMA FindFileIInv == ASSUME IInv, NEW p \in Procs, FindFile(p) PROVE IInv'
  <1>0. /\ pc[p] = "search"
        /\ UNCHANGED <<tables, world, args, part, base, disk, fat1, cmp, asked, runs>>
    BY DEF FindFile
  <1>1. PICK view \in RootViews(fat1[p]) :
          \/ Goto(p, RootEnd(view)) /\ RootEnd(view) # "done" /\ UNCHANGED ent
          \/ Goto(p, "failed") /\ UNCHANGED ent
          \/ /\ \E d \in RootEntries(view) : ent' = [ent EXCEPT ![p] = d]
             /\ Goto(p, "nchain")  BY DEF FindFile
  <1> USE <1>0 DEF Goto, tables, world, args, cmp
  <1>2. RootEnd(view) \in {"done", "spin", "failed"}
    BY TravelEndType DEF RootEnd
  <1>3. pc' = [pc EXCEPT ![p] = pc'[p]] /\ pc'[p] \in {"spin", "failed", "nchain"}
    <2>1. CASE Goto(p, RootEnd(view)) /\ RootEnd(view) # "done"
      BY <2>1, <1>2 DEF IInv, TypeOK
    <2>2. CASE Goto(p, "failed")  BY <2>2 DEF IInv, TypeOK
    <2>3. CASE Goto(p, "nchain")  BY <2>3 DEF IInv, TypeOK
    <2> QED  BY <1>1, <2>1, <2>2, <2>3
  <1>4. ent' \in [Procs -> DirEntry] /\ \A q \in Procs \ {p} : ent'[q] = ent[q]
    BY <1>1, RootEntriesType DEF IInv, TypeOK
  <1>5. TypeOK'  BY <1>3, <1>4 DEF IInv, TypeOK, PCs, Ended
  <1>6. \A q \in Procs \ {p} : SameLocals(q)
    BY <1>3, <1>4 DEF IInv, TypeOK, SameLocals
  <1>7. Knows(p)'
    BY <1>3
       DEF IInv, Knows, HasTable, HasFat, Checked, Targeted, Cleared, Edited
  <1> QED  BY <1>5, <1>6, <1>7, OneMoves DEF IInv

LEMMA NchainIInv == ASSUME IInv, NEW p \in Procs, Nchain(p) PROVE IInv'
  <1> USE DEF Nchain, Goto, tables, world, args, found, cmp
  <1>1. TravelEnd(fat1[p], ent[p].begin) \in {"done", "spin", "failed"}
    BY TravelEndType
  <1>2. pc' = [pc EXCEPT ![p] = pc'[p]] /\ pc'[p] \in {"spin", "failed", "path"}
    BY <1>1 DEF IInv, TypeOK
  <1>3. pc'[p] = "path" =>
            Startable(ent[p].begin) /\ OneExtent(fat1[p], ent[p].begin)
    BY DEF IInv, TypeOK, TravelEnd, Sound
  <1>4. TypeOK'  BY <1>2 DEF IInv, TypeOK, PCs, Ended
  <1>5. \A q \in Procs \ {p} : SameLocals(q)
    BY <1>2 DEF IInv, TypeOK, SameLocals
  <1>6. Knows(p)'
    <2>1. Startable(ent[p].begin)' = Startable(ent[p].begin)
          /\ OneExtent(fat1[p], ent[p].begin)' = OneExtent(fat1[p], ent[p].begin)
      BY DEF Startable, OneExtent, Last, RunTo
    <2> QED
      BY <1>2, <1>3, <2>1
         DEF IInv, Knows, HasTable, HasFat, Checked, Targeted, Cleared,
             Edited
  <1> QED  BY <1>4, <1>5, <1>6, OneMoves DEF IInv

\* A step that leaves the chain of p alone keeps what was checked of it.
LEMMA CheckedKept ==
  ASSUME NEW p \in Procs, ent'[p] = ent[p], fat1'[p] = fat1[p]
  PROVE  /\ Startable(ent[p].begin)' = Startable(ent[p].begin)
         /\ OneExtent(fat1[p], ent[p].begin)' = OneExtent(fat1[p], ent[p].begin)
  BY DEF Startable, OneExtent, Last, RunTo

LEMMA OpenPathIInv == ASSUME IInv, NEW p \in Procs, OpenPath(p) PROVE IInv'
  <1> USE DEF OpenPath, Goto, tables, world, args, found
  <1>1. vol.file[file[p]].size \in Nat
    BY File2DiskAssumption DEF IInv, TypeOK, Volume
  <1>2. TypeOK'
    <2>1. CheckBytes \in Nat  BY Sizes
    <2>2. total' \in [Procs -> 0 .. CheckBytes]  BY <1>1, <2>1 DEF IInv, TypeOK
    <2> QED  BY <2>2 DEF IInv, TypeOK, PCs
  <1>3. \A q \in Procs \ {p} : SameLocals(q)  BY DEF IInv, TypeOK, SameLocals
  <1>4. pc'[p] = "compare"  BY DEF IInv, TypeOK
  <1>5. Knows(p)'
    BY <1>4, CheckedKept
       DEF IInv, Knows, HasTable, HasFat, Checked, Targeted, Cleared, Edited
  <1> QED  BY <1>2, <1>3, <1>5, OneMoves DEF IInv

LEMMA CompareIInv == ASSUME IInv, NEW p \in Procs, Compare(p) PROVE IInv'
  <1> USE DEF tables, world, args, found
  <1>1. /\ blk' \in [Procs -> Nat]
        /\ pc' = [pc EXCEPT ![p] = pc'[p]]
        /\ pc'[p] \in {"compare", "choose", "differ"}
        /\ pc[p] = "compare"  BY DEF Compare, Goto, IInv, TypeOK
  <1>2. UNCHANGED <<tables, world, args, part, base, disk, found, total, asked, runs>>
    BY DEF Compare
  <1>3. TypeOK'  BY <1>1, <1>2 DEF IInv, TypeOK, PCs, Ended
  <1>4. \A q \in Procs \ {p} : SameLocals(q)
    BY <1>1, <1>2 DEF IInv, TypeOK, SameLocals
  <1>5. Knows(p)'
    BY <1>1, <1>2, CheckedKept
       DEF IInv, Knows, HasTable, HasFat, Checked, Targeted, Cleared, Edited
  <1> QED  BY <1>2, <1>3, <1>4, <1>5, OneMoves DEF IInv

LEMMA TargetType ==
  ASSUME IInv, NEW p \in Procs PROVE Target(p) \in 0 .. 9
  <1>1. CASE FreeSlots(p) = {}  BY <1>1 DEF Target, IInv, TypeOK
  <1>2. CASE part[p] # 0  BY <1>2 DEF Target, IInv, TypeOK
  <1>3. CASE part[p] = 0 /\ FreeSlots(p) # {}
    <2> DEFINE Least(s) == \A t \in FreeSlots(p) : s <= t
    <2>1. \E s \in FreeSlots(p) : Least(s)  BY <1>3 DEF FreeSlots, Slot
    <2>2. Target(p) \in FreeSlots(p)  BY <1>3, <2>1 DEF Target
    <2> QED  BY <2>2 DEF FreeSlots, Slot
  <1> QED  BY <1>1, <1>2, <1>3

LEMMA ChooseIInv == ASSUME IInv, NEW p \in Procs, Choose(p) PROVE IInv'
  <1> USE DEF tables, world, args, found, cmp
  <1>1. PICK label \in {"failed", "edit", "busy", "spin", "done"} :
            /\ Goto(p, label)
            /\ label \in {"edit", "busy"} => Target(p) \in 1 .. 3
            /\ label = "edit" => isfree(disk[p][Target(p)])
    BY PrintEndsType DEF Choose, PrintThen
  <1>2. pc[p] = "choose" /\ part' = [part EXCEPT ![p] = Target(p)]
    BY DEF Choose
  <1>3. UNCHANGED <<tables, world, args, base, disk, found, cmp, asked, runs>>
    BY DEF Choose
  <1>4. TypeOK'
    BY <1>1, <1>2, <1>3, TargetType DEF Goto, IInv, TypeOK, PCs, Ended, Prompts
  <1>5. \A q \in Procs \ {p} : SameLocals(q)
    BY <1>1, <1>2, <1>3 DEF Goto, IInv, TypeOK, SameLocals
  <1>6. pc'[p] = label /\ part'[p] = Target(p)
    BY <1>1, <1>2 DEF Goto, IInv, TypeOK
  <1>7. Knows(p)'
    BY <1>1, <1>2, <1>3, <1>6, CheckedKept
       DEF IInv, Knows, HasTable, HasFat, Checked, Targeted, Cleared,
           Edited, isfree
  <1> QED  BY <1>3, <1>4, <1>5, <1>7, OneMoves DEF IInv

LEMMA AnswerBusyIInv == ASSUME IInv, NEW p \in Procs, AnswerBusy(p) PROVE IInv'
  <1> USE DEF tables, world, args, found, cmp
  <1>1. /\ asked' \in [Procs -> BOOLEAN]
        /\ \A q \in Procs \ {p} : asked'[q] = asked[q]
        /\ pc' = [pc EXCEPT ![p] = pc'[p]]
        /\ pc'[p] \in {"edit", "quit"}
        /\ pc'[p] = "edit" => asked'[p]
        /\ pc[p] = "busy"  BY DEF AnswerBusy, Goto, IInv, TypeOK
  <1>2. UNCHANGED <<tables, world, args, part, base, disk, found, cmp, runs>>
    BY DEF AnswerBusy
  <1>3. TypeOK'  BY <1>1, <1>2 DEF IInv, TypeOK, PCs, Ended
  <1>4. \A q \in Procs \ {p} : SameLocals(q)
    BY <1>1, <1>2 DEF IInv, TypeOK, SameLocals
  <1>5. Knows(p)'
    BY <1>1, <1>2, CheckedKept
       DEF IInv, Knows, HasTable, HasFat, Checked, Targeted, Cleared,
           Edited, isfree
  <1> QED  BY <1>2, <1>3, <1>4, <1>5, OneMoves DEF IInv

LEMMA EditIInv == ASSUME IInv, NEW p \in Procs, Edit(p) PROVE IInv'
  <1> USE DEF tables, world, args, found, cmp
  <1>1. PICK label \in {"commit", "done", "spin", "failed"} : Goto(p, label)
    BY PrintEndsType DEF Edit, PrintThen
  <1>2. pc[p] = "edit" /\ disk' = [disk EXCEPT ![p][part[p]] = NewEntry(p)]
    BY DEF Edit
  <1>3. UNCHANGED <<tables, world, args, part, base, found, cmp, asked, runs>>
    BY DEF Edit
  <1>4. Knows(p) /\ TypeOK  BY DEF IInv
  <1>5. part[p] \in 1 .. 3 /\ disk[p] = base[p]
    BY <1>2, <1>4
       DEF Knows, Targeted, Cleared, HasTable, HasFat, Checked, Edited
  <1>6. part[p] \in Slot /\ part[p] # 0 /\ 0 \in Slot  BY <1>5 DEF Slot
  <1>7. NewEntry(p) \in Entry  BY <1>2, NewEntryIs
  <1>8. disk[p] \in [Slot -> Entry]  BY <1>4 DEF TypeOK, Mbr
  <1>9. disk'[p] = [disk[p] EXCEPT ![part[p]] = NewEntry(p)]
        /\ \A q \in Procs \ {p} : disk'[q] = disk[q]  BY <1>2, <1>4 DEF TypeOK
  <1>10. disk' \in [Procs -> Mbr]
    BY <1>2, <1>4, <1>7, <1>8, <1>9 DEF TypeOK, Mbr
  <1>11. TypeOK'
    BY <1>1, <1>3, <1>4, <1>10 DEF Goto, TypeOK, PCs, Ended, Prompts
  <1>12. \A q \in Procs \ {p} : SameLocals(q)
    BY <1>1, <1>3, <1>4, <1>9 DEF Goto, TypeOK, SameLocals
  <1>13. pc'[p] = label  BY <1>1, <1>4 DEF Goto, TypeOK
  <1>14. disk'[p][0] = disk[p][0]  BY <1>6, <1>8, <1>9
  <1>15. EditOf(p)'
    <2>1. disk'[p][part[p]] = NewEntry(p)  BY <1>6, <1>8, <1>9
    <2>2. \A s \in Slot \ {part[p]} : disk'[p][s] = base[p][s]
      BY <1>5, <1>8, <1>9
    <2> QED  BY <1>2, <1>3, <2>1, <2>2, NewEntryIs DEF EditOf, sector
  <1>16. Knows(p)'
    BY <1>2, <1>3, <1>4, <1>13, <1>14, <1>15, CheckedKept
       DEF Knows, HasTable, HasFat, Checked, Targeted, Cleared, Edited,
           isfree
  <1> QED  BY <1>3, <1>11, <1>12, <1>16, OneMoves DEF IInv

\* The steps after the table was set, which only move p's control.
LEMMA AnswerCommitIInv == ASSUME IInv, NEW p \in Procs, AnswerCommit(p) PROVE IInv'
  <1> USE DEF tables, world, args, found, cmp
  <1>1. /\ pc' = [pc EXCEPT ![p] = pc'[p]]
        /\ pc'[p] \in {"write", "quit"}
        /\ pc[p] = "commit"  BY DEF AnswerCommit, Goto, IInv, TypeOK
  <1>2. UNCHANGED <<tables, world, args, part, base, disk, found, cmp, asked, runs>>
    BY DEF AnswerCommit
  <1>3. TypeOK'  BY <1>1, <1>2 DEF IInv, TypeOK, PCs, Ended
  <1>4. \A q \in Procs \ {p} : SameLocals(q)
    BY <1>1, <1>2 DEF IInv, TypeOK, SameLocals
  <1>5. Knows(p)'
    BY <1>1, <1>2, CheckedKept
       DEF IInv, Knows, HasTable, HasFat, Checked, Targeted, Cleared,
           Edited, isfree, EditOf, sector
  <1> QED  BY <1>2, <1>3, <1>4, <1>5, OneMoves DEF IInv

LEMMA WriteIInv == ASSUME IInv, NEW p \in Procs, Write(p) PROVE IInv'
  <1> USE DEF Write, Goto, world, args, found, cmp
  <1>1. TypeOK'  BY DEF IInv, TypeOK, PCs
  <1>2. \A q \in Procs \ {p} : SameLocals(q)  BY DEF IInv, TypeOK, SameLocals
  <1>3. pc'[p] = "fsync"  BY DEF IInv, TypeOK
  <1>4. cache'[0] = cache[0]
    BY DEF IInv, Knows, HasTable, HasFat, Checked, Targeted, Cleared
  <1>5. Knows(p)'
    BY <1>3, <1>4, CheckedKept
       DEF IInv, Knows, HasTable, HasFat, Checked, Targeted, Cleared,
           Edited, isfree, EditOf, sector
  <1> QED  BY <1>1, <1>2, <1>4, <1>5, OneMoves DEF IInv

LEMMA FsyncIInv == ASSUME IInv, NEW p \in Procs, Fsync(p) PROVE IInv'
  <1> USE DEF Fsync, Goto, world, args, found, cmp
  <1>1. TypeOK'  BY DEF IInv, TypeOK, PCs, Ended
  <1>2. \A q \in Procs \ {p} : SameLocals(q)  BY DEF IInv, TypeOK, SameLocals
  <1>3. pc'[p] = "committed"  BY DEF IInv, TypeOK
  <1>4. cache'[0] = cache[0] /\ medium'[0] = medium[0]  BY DEF IInv
  <1>5. Knows(p)'
    BY <1>3 DEF Knows, HasTable, HasFat, Checked, Targeted, Cleared, Edited
  <1> QED  BY <1>1, <1>2, <1>4, <1>5, OneMoves

\* Both ways in which a process ends early.
LEMMA StopIInv == ASSUME IInv, NEW p \in Procs, Fail(p) \/ Interrupt(p) PROVE IInv'
  <1> USE DEF Fail, Interrupt, Goto, tables, world, args, found, cmp
  <1>1. pc' = [pc EXCEPT ![p] = pc'[p]] /\ pc'[p] \in {"failed", "dead"}
    BY DEF IInv, TypeOK
  <1>2. UNCHANGED <<tables, world, args, part, base, disk, found, cmp, asked, runs>>
    OBVIOUS
  <1>3. TypeOK'  BY <1>1, <1>2 DEF IInv, TypeOK, PCs, Ended
  <1>4. \A q \in Procs \ {p} : SameLocals(q)
    BY <1>1, <1>2 DEF IInv, TypeOK, SameLocals
  <1>5. Knows(p)'
    BY <1>1 DEF Knows, HasTable, HasFat, Checked, Targeted, Cleared, Edited
  <1> QED  BY <1>2, <1>3, <1>4, <1>5, OneMoves DEF IInv

LEMMA RunAgainIInv == ASSUME IInv, NEW p \in Procs, RunAgain(p) PROVE IInv'
  <1> USE DEF RunAgain, Goto, tables, world
  <1>1. NoMbr \in Mbr  BY DEF NoMbr, Mbr, Entry, EmptyEntry
  <1>2. NoFat \in FatTable  BY DEF NoFat, FatTable
  <1>3. [name |-> file[p], begin |-> 0, size |-> 0] \in DirEntry
    BY DEF IInv, TypeOK, DirEntry
  <1>4. CheckBytes \in Nat /\ MaxRuns \in Nat  BY Sizes, File2DiskAssumption
  <1>5. TypeOK'
    <2>1. mode' \in [Procs -> Modes] /\ part' \in [Procs -> 0 .. 9]
      BY File2DiskAssumption DEF IInv, TypeOK
    <2>2. total' \in [Procs -> 0 .. CheckBytes] /\ runs' \in [Procs -> 0 .. MaxRuns]
      BY <1>4 DEF IInv, TypeOK
    <2>3. base' \in [Procs -> Mbr] /\ disk' \in [Procs -> Mbr]
          /\ fat1' \in [Procs -> FatTable] /\ ent' \in [Procs -> DirEntry]
      BY <1>1, <1>2, <1>3 DEF IInv, TypeOK
    <2>4. blk' \in [Procs -> Nat] /\ asked' \in [Procs -> BOOLEAN] /\ pc' \in [Procs -> PCs]
      BY DEF IInv, TypeOK, PCs
    <2> QED  BY <2>1, <2>2, <2>3, <2>4 DEF IInv, TypeOK
  <1>6. \A q \in Procs \ {p} : SameLocals(q)  BY DEF IInv, TypeOK, SameLocals
  <1>7. pc'[p] = "start" /\ ~asked'[p]  BY DEF IInv, TypeOK
  <1>8. Knows(p)'
    BY <1>7 DEF Knows, HasTable, HasFat, Checked, Targeted, Cleared, Edited
  <1> QED  BY <1>5, <1>6, <1>8, OneMoves DEF IInv

-----------------------------------------------------------------------------
(* And so does the rest of the machine. *)

LEMMA WorldIInv == ASSUME IInv, WriteBack \/ ChangeVolume PROVE IInv'
  <1> USE DEF WriteBack, ChangeVolume, tables, world, args, found, cmp
  <1>1. UNCHANGED <<cache, args, part, base, disk, found, cmp, asked, runs, pc>>
    OBVIOUS
  <1>2. medium' \in {medium, cache}  OBVIOUS
  <1>3. vol' \in Volumes /\ moves' \in 0 .. MaxMoves
    <2>1. MaxMoves \in Nat  BY File2DiskAssumption
    <2> QED  BY <2>1 DEF IInv, TypeOK
  <1>4. TypeOK'  BY <1>1, <1>2, <1>3 DEF IInv, TypeOK
  <1>5. \A q \in Procs : Knows(q)'  BY <1>1, KnowsKept DEF IInv, SameLocals
  <1> QED  BY <1>1, <1>2, <1>4, <1>5 DEF IInv

LEMMA PowerLossIInv == ASSUME IInv, PowerLoss PROVE IInv'
  <1> USE DEF PowerLoss, world, args, found, cmp
  <1>1. TypeOK'  BY DEF IInv, TypeOK, PCs, Ended
  <1>2. \A q \in Procs : pc'[q] \in Ended  BY DEF Ended
  <1>3. \A q \in Procs : Knows(q)'
    BY <1>2
       DEF Knows, HasTable, HasFat, Checked, Targeted, Cleared, Edited,
           Ended
  <1> QED  BY <1>1, <1>3 DEF IInv

LEMMA StutterIInv == ASSUME IInv, UNCHANGED vars PROVE IInv'
  <1> USE DEF vars, tables, world, args, found, cmp
  <1>1. TypeOK'  BY DEF IInv, TypeOK
  <1>2. \A q \in Procs : Knows(q)'  BY KnowsKept DEF IInv, SameLocals
  <1> QED  BY <1>1, <1>2 DEF IInv

LEMMA NextIInv == ASSUME IInv, [Next]_vars PROVE IInv'
  <1>1. ASSUME NEW p \in Procs, Step(p) PROVE IInv'
    BY <1>1, ReadMbrIInv, OpenVolumeIInv, ListIInv, FindFileIInv, NchainIInv,
       OpenPathIInv, CompareIInv, ChooseIInv, EditIInv, WriteIInv, FsyncIInv,
       StopIInv
       DEF Step, Work
  <1>2. ASSUME NEW p \in Procs, User(p) PROVE IInv'
    BY <1>2, AnswerBusyIInv, AnswerCommitIInv, RunAgainIInv, StopIInv DEF User
  <1> QED  BY <1>1, <1>2, WorldIInv, PowerLossIInv, StutterIInv DEF Next

\* The inductive invariant of file2disk(), for any number of processes.
THEOREM Invariance == Spec => []IInv
  <1> QED  BY InitIInv, NextIInv, PTL DEF Spec

\* Every variable of every process keeps its type: no table, FAT or root
\* directory makes the program leave the domain of its data.
THEOREM TypeCorrect == Spec => []TypeOK
  <1>1. IInv => TypeOK  BY DEF IInv
  <1> QED  BY <1>1, Invariance, PTL

\* A table that is offered for writing differs from the one that was read in
\* one entry from 1 to 3, which begins where a checked chain begins.
THEOREM EditCorrect == Spec => []EditedEntry
  <1>1. IInv => EditedEntry
    <2> SUFFICES ASSUME IInv, NEW p \in Procs, Edited(p)
                 PROVE  /\ part[p] \in 1 .. 3
                        /\ Startable(ent[p].begin)
                        /\ OneExtent(fat1[p], ent[p].begin)
                        /\ EditOf(p)
                        /\ VolStart + sector(ent[p].begin) = FirstSector(ent[p].begin)
      BY DEF EditedEntry, EditOf
    <2>1. ent[p].begin \in Nat  BY DEF IInv, TypeOK, DirEntry
    <2>2. VolStart + sector(ent[p].begin) = FirstSector(ent[p].begin)
      BY <2>1, FirstSectorIs
    <2> QED  BY <2>2 DEF IInv, Knows, Edited, Checked, Targeted, Cleared
  <1> QED  BY <1>1, Invariance, PTL

-----------------------------------------------------------------------------
(* What the steps do to the tables. *)

\* Only three steps touch a table.
LEMMA TablesChange ==
  ASSUME [Next]_vars
  PROVE  \/ UNCHANGED tables
         \/ \E p \in Procs : Write(p)
         \/ \E p \in Procs : Fsync(p)
         \/ WriteBack
         \/ PowerLoss
  BY DEF Next, vars, Step, Work, User, ReadMbr, OpenVolume, List,
         FindFile, Nchain, OpenPath, Compare, Choose, Edit, Fail, AnswerBusy,
         AnswerCommit, RunAgain, Interrupt, ChangeVolume

\* No run, with whatever copy of the table, no other process and no loss of
\* power changes the entry of the volume that holds the file.
THEOREM HostIsKept == Spec => HostKept
  <1>1. ASSUME IInv, [Next]_vars PROVE cache'[0] = cache[0] /\ medium'[0] = medium[0]
    <2>1. medium[0] = cache[0]  BY <1>1 DEF IInv
    <2>2. CASE \E p \in Procs : Write(p)
      BY <1>1, <2>2
         DEF Write, IInv, Knows, HasTable, HasFat, Checked, Targeted,
             Cleared
    <2> QED
      BY <1>1, <2>1, <2>2, TablesChange DEF tables, Fsync, WriteBack, PowerLoss
  <1> QED  BY <1>1, Invariance, PTL DEF Spec, HostKept

LEMMA FreshWrite ==
  ASSUME IInv, NEW p \in Procs, Write(p), base[p] = cache
  PROVE  Overwritten \subseteq {s \in Slot : s = part[p] /\ asked[p]}
  <1> SUFFICES ASSUME NEW s \in Slot, ~isfree(cache[s]), cache'[s] # cache[s]
               PROVE  s = part[p] /\ asked[p]  BY DEF Overwritten
  <1>1. Knows(p) /\ pc[p] = "write" /\ cache' = disk[p]  BY DEF IInv, Write
  <1>2. EditOf(p)  BY <1>1 DEF Knows, Edited
  <1>3. s = part[p]  BY <1>1, <1>2 DEF EditOf
  <1>4. isfree(base[p][part[p]]) \/ asked[p]  BY <1>1 DEF Knows, Cleared
  <1> QED  BY <1>3, <1>4

\* A process that read the table as it still is when it writes replaces no
\* entry in use but the one its user agreed to lose.
THEOREM FreshWriteIsSafe == Spec => FreshBusyNeedsYes
  <1>1. IInv => \A p \in Procs : Write(p) /\ base[p] = cache =>
                    Overwritten \subseteq {s \in Slot : s = part[p] /\ asked[p]}
    BY FreshWrite
  <1> QED  BY <1>1, Invariance, PTL DEF FreshBusyNeedsYes

-----------------------------------------------------------------------------
(***************************************************************************)
(* A process that has the disk for itself.  Then the table it read is the  *)
(* one it writes over.                                                     *)
(***************************************************************************)
Fresh == \A p \in Procs : pc[p] \in HasTable \ {"fsync"} => base[p] = cache

\* No step of the only process but Write changes the table under it.
LEMMA FreshKept ==
  ASSUME NEW me, Procs = {me}, IInv, Fresh, [Next]_vars
  PROVE  Fresh'
  <1> USE DEF tables, world, args, found, cmp
  <1>1. me \in Procs  OBVIOUS
  <1> DEFINE AtHome == pc[me] \in HasTable \ {"fsync"} => base[me] = cache
  <1>2. AtHome  BY DEF Fresh
  <1> SUFFICES AtHome'  BY DEF Fresh
  <1> DEFINE Known == {"open", "list", "search", "nchain", "path", "compare",
                       "choose", "busy", "edit", "commit", "write"}
  <1>3. HasTable \ {"fsync"} = Known
    BY DEF HasTable, HasFat, Checked, Targeted, Cleared
  <1>4. \A l : Goto(me, l) => pc'[me] = l  BY <1>1 DEF Goto, IInv, TypeOK
  <1>5. CASE ReadMbr(me)  BY <1>1, <1>5 DEF ReadMbr, IInv, TypeOK
  <1>6. CASE \/ OpenVolume(me) \/ List(me) \/ FindFile(me) \/ Nchain(me) \/ OpenPath(me)
             \/ Choose(me) \/ Edit(me) \/ AnswerBusy(me) \/ AnswerCommit(me)
    <2>1. pc[me] \in Known /\ base' = base /\ cache' = cache
      BY <1>6
         DEF OpenVolume, List, FindFile, Nchain, OpenPath, Choose, Edit,
             AnswerBusy, AnswerCommit
    <2> QED  BY <1>2, <1>3, <2>1
  <1>7. CASE Compare(me)  BY <1>2, <1>3, <1>7 DEF Compare
  <1>8. CASE Write(me)
    <2>1. pc'[me] = "fsync"  BY <1>4, <1>8 DEF Write
    <2> QED  BY <1>3, <2>1
  <1>9. CASE Fsync(me) \/ Fail(me) \/ Interrupt(me) \/ RunAgain(me)
    <2>1. pc'[me] \in {"committed", "failed", "dead", "start"}
      BY <1>4, <1>9 DEF Fsync, Fail, Interrupt, RunAgain
    <2> QED  BY <1>3, <2>1
  <1>10. CASE WriteBack \/ ChangeVolume \/ UNCHANGED vars
    BY <1>2, <1>10 DEF WriteBack, ChangeVolume, vars
  <1>11. CASE PowerLoss
    <2>1. pc'[me] \in Ended  BY <1>1, <1>11 DEF PowerLoss, Ended
    <2> QED  BY <1>3, <2>1 DEF Ended
  <1> QED
    BY <1>5, <1>6, <1>7, <1>8, <1>9, <1>10, <1>11 DEF Next, Step, Work, User

LEMMA AloneInvariance ==
  ASSUME NEW me, Procs = {me}
  PROVE  Spec => [](IInv /\ Fresh)
  <1>1. Init => Fresh
    BY DEF Init, Fresh, HasTable, HasFat, Checked, Targeted, Cleared
  <1>2. IInv /\ Fresh /\ [Next]_vars => (IInv /\ Fresh)'  BY NextIInv, FreshKept
  <1> QED  BY <1>1, <1>2, InitIInv, PTL DEF Spec

\* One process never replaces an entry in use without its user's yes.
THEOREM AloneWriteIsSafe ==
  ASSUME NEW me, Procs = {me}
  PROVE  Spec => BusyNeedsYes
  <1>1. IInv /\ Fresh => \A p \in Procs : Write(p) =>
            Overwritten \subseteq {s \in Slot : s = part[p] /\ asked[p]}
    <2> SUFFICES ASSUME IInv, Fresh, NEW p \in Procs, Write(p)
                 PROVE  Overwritten \subseteq {s \in Slot : s = part[p] /\ asked[p]}
      OBVIOUS
    <2>1. base[p] = cache
      BY DEF Fresh, Write, HasTable, HasFat, Checked, Targeted, Cleared
    <2> QED  BY <2>1, FreshWrite
  <1> QED  BY <1>1, AloneInvariance, PTL DEF BusyNeedsYes

-----------------------------------------------------------------------------
(* The refinement of PartitionTable. *)

Confirmed == {part[p] : p \in {q \in Procs : asked[q]}}

LEMMA InitTable == ASSUME Init PROVE Table!Init  BY DEF Init, Table!Init

\* Each action of the only process is a step of the table or leaves it alone:
\* the write assigns an entry, a yes gives one up, a new run takes that back.
LEMMA StepTable ==
  ASSUME NEW me, Procs = {me}, IInv, Fresh, [Next]_vars
  PROVE  [Table!Next]_(Table!vars)
  <1> USE DEF tables, world, args, found, cmp
  <1>1. me \in Procs /\ Knows(me)  BY DEF IInv
  <1>2. part[me] \in 0 .. 9 /\ Slot = Table!Slot
    BY <1>1 DEF IInv, TypeOK, Slot, Table!Slot
  <1>3. Confirmed = IF asked[me] THEN {part[me]} ELSE {}  BY DEF Confirmed
  <1>4. Confirmed' = IF asked'[me] THEN {part'[me]} ELSE {}  BY DEF Confirmed
  <1>5. Table!vars = <<cache, medium, Confirmed>>  BY DEF Table!vars, Confirmed
  <1>6. ASSUME UNCHANGED tables, UNCHANGED Confirmed PROVE UNCHANGED Table!vars
    BY <1>6 DEF Table!vars, Confirmed
  <1>7. CASE \/ ReadMbr(me) \/ OpenVolume(me) \/ List(me) \/ FindFile(me) \/ Nchain(me)
             \/ OpenPath(me) \/ Compare(me) \/ Edit(me) \/ Fail(me) \/ AnswerCommit(me)
             \/ Interrupt(me) \/ ChangeVolume \/ UNCHANGED vars
    <2>1. UNCHANGED <<tables, part, asked>>
      BY <1>7
         DEF ReadMbr, OpenVolume, List, FindFile, Nchain, OpenPath, Compare,
             Edit, Fail, AnswerCommit, Interrupt, ChangeVolume, vars
    <2> QED  BY <1>3, <1>4, <1>6, <2>1
  <1>8. CASE Choose(me)
    <2>1. ~asked[me] /\ UNCHANGED <<tables, asked>>
      BY <1>1, <1>8
         DEF Choose, Knows, HasTable, HasFat, Checked, Targeted, Cleared
    <2> QED  BY <1>3, <1>4, <1>6, <2>1
  <1>9. CASE AnswerBusy(me) \/ RunAgain(me)
    <2>1. UNCHANGED tables  BY <1>9 DEF AnswerBusy, RunAgain
    <2>2. Confirmed' \in SUBSET (Slot \ {0}) \/ UNCHANGED Confirmed
      <3>1. CASE AnswerBusy(me)
        <4>1. part'[me] \in 1 .. 3
          BY <1>1, <3>1 DEF AnswerBusy, Knows, Targeted
        <4> QED  BY <1>4, <4>1 DEF Slot
      <3>2. CASE RunAgain(me)
        <4>1. ~asked'[me]  BY <1>1, <3>2 DEF RunAgain, IInv, TypeOK
        <4> QED  BY <1>4, <4>1
      <3> QED  BY <1>9, <3>1, <3>2
    <2>3. CASE UNCHANGED Confirmed  BY <1>6, <2>1, <2>3
    <2>4. CASE Confirmed' \in SUBSET (Slot \ {0})
      <3>1. PICK S \in SUBSET (Slot \ {0}) : S = Confirmed'  BY <2>4
      <3>2. Table!Ask(S)  BY <2>1, <3>1 DEF Table!Ask, Confirmed
      <3> QED  BY <1>2, <3>2 DEF Table!Next
    <2> QED  BY <2>2, <2>3, <2>4
  <1>10. CASE Write(me)
    <2>1. pc[me] = "write" /\ cache' = disk[me] /\ base[me] = cache
      BY <1>1, <1>10
         DEF Write, Fresh, HasTable, HasFat, Checked, Targeted, Cleared
    <2>2. part[me] \in 1 .. 3 /\ EditOf(me)
          /\ (isfree(base[me][part[me]]) \/ asked[me])
      BY <1>1, <2>1 DEF Knows, Targeted, Cleared, Edited
    <2>3. disk[me] \in [Slot -> Entry] /\ cache \in [Slot -> Entry]
      BY <1>1 DEF IInv, TypeOK, Mbr
    <2>4. part[me] \in Slot \ {0}  BY <2>2 DEF Slot
    <2>5. cache' = [cache EXCEPT ![part[me]] = cache'[part[me]]]
      BY <2>1, <2>2, <2>3, <2>4 DEF EditOf
    <2>6. cache'[part[me]] \in {e \in Entry : e.type = LinuxType}
      BY <2>1, <2>2, <2>3, <2>4 DEF EditOf
    <2>7. Table!IsFree(cache[part[me]]) \/ part[me] \in Confirmed
      BY <1>3, <2>1, <2>2 DEF Table!IsFree, isfree
    <2>8. UNCHANGED medium /\ UNCHANGED Confirmed
      BY <1>3, <1>4, <1>10 DEF Write
    <2>9. Table!Assign(part[me])
      BY <2>5, <2>6, <2>7, <2>8 DEF Table!Assign, Confirmed
    <2> QED  BY <1>2, <2>4, <2>9 DEF Table!Next
  <1>11. CASE Fsync(me) \/ WriteBack
    <2>1. cache' = cache /\ medium' \in {medium, cache} /\ UNCHANGED <<part, asked>>
      BY <1>11 DEF Fsync, WriteBack
    <2>2. UNCHANGED Confirmed  BY <1>3, <1>4, <2>1
    <2>3. CASE medium' = medium  BY <1>6, <2>1, <2>2, <2>3
    <2>4. CASE medium' = cache
      <3>1. Table!Flush  BY <2>1, <2>2, <2>4 DEF Table!Flush, Confirmed
      <3> QED  BY <3>1 DEF Table!Next
    <2> QED  BY <2>1, <2>3, <2>4
  <1>12. CASE PowerLoss
    <2>1. cache' = medium /\ UNCHANGED medium /\ ~asked'[me]
      BY <1>1, <1>12 DEF PowerLoss
    <2>2. Table!PowerLoss  BY <1>4, <2>1 DEF Table!PowerLoss, Confirmed
    <2> QED  BY <2>2 DEF Table!Next
  <1> QED  BY <1>7, <1>8, <1>9, <1>10, <1>11, <1>12 DEF Next, Step, Work, User

\* One process, run any number of times, does to the table what PartitionTable
\* says and nothing else.
THEOREM AloneImplementsTable ==
  ASSUME NEW me, Procs = {me}
  PROVE  Spec => ImplementsTable
  <1>1. IInv /\ Fresh /\ [Next]_vars => [Table!Next]_(Table!vars)  BY StepTable
  <1> QED
    BY <1>1, InitTable, AloneInvariance, PTL
       DEF Spec, ImplementsTable, Table!Spec

-----------------------------------------------------------------------------
(***************************************************************************)
(* The run of clusters behind a directory entry.  Where NthCluster follows *)
(* the chain and where ChainOf collects it, a chain of one extent is the   *)
(* interval from its first cluster to its last.                            *)
(***************************************************************************)

\* A word as NthCluster sees it, and the one it goes to from there.
Word == 0 .. NFat

Follow(fat) ==
    [c \in Word |-> IF c \in Cluster /\ Linked(fat, c) THEN fat[c] ELSE NFat]

\* NthCluster goes from a cluster to the one its word links it to.
LEMMA NthClusterIs ==
  ASSUME NEW fat \in FatTable, NEW b \in Cluster
  PROVE  /\ NthCluster(fat, b)[0] = b
         /\ \A k \in Nat : NthCluster(fat, b)[k + 1] =
               IF /\ NthCluster(fat, b)[k] \in Cluster
                  /\ Linked(fat, NthCluster(fat, b)[k])
               THEN fat[NthCluster(fat, b)[k]] ELSE NFat
  <1> DEFINE Nth(g) == [k \in Nat |->
                           IF k = 0 THEN b
                           ELSE IF g[k - 1] \in Cluster /\ Linked(fat, g[k - 1])
                           THEN fat[g[k - 1]] ELSE NFat]
             nth == NthCluster(fat, b)
  <1>1. Follow(fat) \in [Word -> Word]
    BY FatAssumption DEF Follow, Word, Cluster, Linked
  <1>2. b \in Word  BY FatAssumption DEF Word, Cluster
  <1>3. PICK g : Repeats(g, Word, b, Follow(fat))  BY <1>1, <1>2, Repetition
  <1>4. g = Nth(g)
    <2> USE <1>3 DEF Repeats
    <2>1. ASSUME NEW k \in Nat PROVE g[k] = Nth(g)[k]
      <3>1. CASE k = 0  BY <3>1
      <3>2. CASE k # 0
        <4>1. k - 1 \in Nat /\ k = (k - 1) + 1  BY <3>2
        <4>2. g[k] = Follow(fat)[g[k - 1]] /\ g[k - 1] \in Word  BY <4>1
        <4> QED  BY <4>2 DEF Follow
      <3> QED  BY <3>2
    <2> QED  BY <2>1
  <1>5. nth = CHOOSE h : h = Nth(h)  BY DEF NthCluster
  <1>6. nth = Nth(nth)
    <2> HIDE DEF Nth, nth
    <2> QED  BY <1>5
  <1>7. nth[0] = b
    <2> HIDE DEF nth
    <2> QED  BY <1>6
  <1>8. ASSUME NEW k \in Nat
        PROVE  nth[k + 1] = IF nth[k] \in Cluster /\ Linked(fat, nth[k])
                            THEN fat[nth[k]] ELSE NFat
    <2>1. k + 1 \in Nat /\ k + 1 # 0 /\ (k + 1) - 1 = k  OBVIOUS
    <2> HIDE DEF nth
    <2> QED  BY <1>6
  <1> QED  BY <1>7, <1>8

\* In a run it counts from the first cluster to the last, and ends there.
LEMMA RunIsRead ==
  ASSUME NEW fat \in FatTable, NEW b \in Cluster, NEW e \in b .. (NFat - 1),
         Last(fat, e), RunTo(fat, b, e), NEW k \in Nat
  PROVE  NthCluster(fat, b)[k] = IF k <= e - b THEN b + k ELSE NFat
  <1> DEFINE nth == NthCluster(fat, b)
             Right == {n \in Nat : nth[n] = IF n <= e - b THEN b + n ELSE NFat}
  <1>1. b \in Nat /\ e \in Nat /\ b <= e /\ NFat \in Nat /\ e < NFat
    BY FatAssumption DEF Cluster
  <1>2. 0 \in Right  BY <1>1, NthClusterIs
  <1>3. ASSUME NEW n \in Nat, n \in Right PROVE n + 1 \in Right
    <2>1. nth[n + 1] = IF nth[n] \in Cluster /\ Linked(fat, nth[n])
                       THEN fat[nth[n]] ELSE NFat  BY NthClusterIs
    <2>2. nth[n] = IF n <= e - b THEN b + n ELSE NFat  BY <1>3
    <2> HIDE DEF nth
    <2>3. CASE n < e - b
      <3>1. nth[n] = b + n /\ b + n \in b .. (e - 1)  BY <1>1, <2>2, <2>3
      <3>2. fat[b + n] = b + n + 1  BY <3>1 DEF RunTo
      <3>3. b + n \in Cluster /\ Linked(fat, b + n)
        BY <1>1, <2>3, <3>2 DEF Cluster, Linked
      <3> QED  BY <1>1, <2>1, <3>1, <3>2, <3>3
    <2>4. CASE n = e - b
      <3>1. nth[n] = e  BY <1>1, <2>2, <2>4
      <3>2. ~Linked(fat, e)  BY FatAssumption DEF Last, Linked, Cluster
      <3> QED  BY <2>1, <2>4, <3>1, <3>2
    <2>5. CASE n > e - b
      <3>1. nth[n] \notin Cluster  BY <2>2, <2>5 DEF Cluster
      <3> QED  BY <1>1, <2>1, <2>5, <3>1
    <2> QED  BY <1>1, <2>3, <2>4, <2>5
  <1>4. Nat \subseteq Right
    <2> HIDE DEF Right
    <2> QED  BY <1>2, <1>3, AllNaturals
  <1> QED  BY <1>4

\* The clusters of a run are its chain.
LEMMA RunIsChain ==
  ASSUME NEW fat \in FatTable, NEW b \in Cluster, NEW e \in b .. (NFat - 1),
         Last(fat, e), RunTo(fat, b, e)
  PROVE  ChainOf(fat, b) = b .. e
  <1>1. b \in Nat /\ e \in Nat /\ b <= e /\ NFat \in Nat /\ e < NFat
    BY FatAssumption DEF Cluster
  <1>2. b .. e \in SUBSET Cluster /\ b \in b .. e  BY <1>1 DEF Cluster
  <1>3. Closed(fat, b .. e)
    <2>1. ~Linked(fat, e)  BY FatAssumption DEF Last, Linked, Cluster
    <2>2. ASSUME NEW c \in b .. e, c # e PROVE fat[c] \in b .. e
      BY <1>1, <2>2 DEF RunTo
    <2> QED  BY <2>1, <2>2 DEF Closed
  <1>4. ASSUME NEW S \in SUBSET Cluster, b \in S, Closed(fat, S)
        PROVE  b .. e \subseteq S
    <2> DEFINE In == {n \in Nat : n <= e - b => b + n \in S}
    <2>1. 0 \in In  BY <1>1, <1>4
    <2>2. ASSUME NEW n \in Nat, n \in In PROVE n + 1 \in In
      <3> SUFFICES ASSUME n + 1 <= e - b PROVE b + (n + 1) \in S  OBVIOUS
      <3>1. b + n \in S /\ b + n \in b .. (e - 1)  BY <1>1, <2>2
      <3>2. fat[b + n] = b + n + 1  BY <3>1 DEF RunTo
      <3>3. Linked(fat, b + n)  BY <1>1, <3>2 DEF Linked, Cluster
      <3>4. fat[b + n] \in S  BY <1>4, <3>1, <3>3 DEF Closed
      <3> QED  BY <1>1, <3>2, <3>4
    <2>3. Nat \subseteq In
      <3> HIDE DEF In
      <3> QED  BY <2>1, <2>2, AllNaturals
    <2>4. ASSUME NEW c \in b .. e PROVE c \in S
      <3>1. c - b \in Nat /\ c - b <= e - b /\ b + (c - b) = c  BY <1>1
      <3>2. c - b \in In  BY <2>3, <3>1
      <3> QED  BY <3>1, <3>2
    <2> QED  BY <2>4
  <1> QED  BY <1>2, <1>3, <1>4 DEF ChainOf

-----------------------------------------------------------------------------
(***************************************************************************)
(* While the file system leaves the volume alone, what a process has read  *)
(* of it is what is there: the table, the directory entry of its file, and *)
(* the blocks it has compared.                                             *)
(***************************************************************************)
Compared == Targeted \union {"choose"}
Comparing == Compared \union {"compare"}
Located == Checked \union {"nchain"}

\* The first blocks of the file, up to number n, are where its chain says.
SameUpTo(p, n) ==
    \A k \in Cluster :
        k < n /\ InChain(p, k) => vol.data[ClusterOf(p, k)] = vol.file[file[p]].page[k]

Reads(p) ==
    /\ pc[p] \in HasFat => fat1[p] = vol.fat
    /\ pc[p] \in Located =>
           ent[p].name = file[p] /\ \E c \in Cluster : ent[p] \in vol.dir[c]
    /\ pc[p] \in Comparing => SameUpTo(p, blk[p])
    /\ pc[p] \in Compared => blk[p] * ClusterBytes >= total[p]
    /\ Edited(p) => disk[p][part[p]].size =
                        (ent[p].size + SectorBytes - 1) \div SectorBytes

AllRead == \A p \in Procs : Reads(p)

\* What Reads(q) is about stays as it is.
SameReads(q) ==
    /\ vol' = vol
    /\ file'[q] = file[q]
    /\ fat1'[q] = fat1[q]
    /\ ent'[q] = ent[q]
    /\ blk'[q] = blk[q]
    /\ total'[q] = total[q]

\* Nor does control get to a place where more is known.
NoFurther(q) ==
    /\ \A S \in {HasFat, Located, Comparing, Compared} : pc'[q] \in S => pc[q] \in S
    /\ Edited(q)' => Edited(q) /\ part'[q] = part[q] /\ disk'[q] = disk[q]

LEMMA ReadsKept ==
  ASSUME NEW q \in Procs, Reads(q), SameReads(q), NoFurther(q)
  PROVE  Reads(q)'
  <1>1. SameUpTo(q, blk[q])' <=> SameUpTo(q, blk[q])
    BY DEF SameReads, SameUpTo, InChain, ClusterOf
  <1> QED  BY <1>1 DEF Reads, SameReads, NoFurther

\* A step of one process leaves what the others have read alone.
LEMMA OthersRead ==
  ASSUME IInv, AllRead, NEW p \in Procs, Step(p) \/ User(p),
         NEW q \in Procs \ {p}
  PROVE  Reads(q)'
  <1>1. /\ vol' = vol /\ file'[q] = file[q] /\ fat1'[q] = fat1[q] /\ ent'[q] = ent[q]
        /\ blk'[q] = blk[q] /\ total'[q] = total[q]
        /\ part'[q] = part[q] /\ disk'[q] = disk[q] /\ pc'[q] = pc[q]
    <2> USE DEF IInv, TypeOK, Goto, tables, world, args, found, cmp
    <2>1. CASE ReadMbr(p) \/ OpenVolume(p) \/ Nchain(p) \/ OpenPath(p)
      BY <2>1 DEF ReadMbr, OpenVolume, Nchain, OpenPath
    <2>2. CASE List(p) \/ Choose(p) \/ Edit(p)
      BY <2>2 DEF List, Choose, Edit, PrintThen
    <2>3. CASE FindFile(p)  BY <2>3 DEF FindFile
    <2>4. CASE Compare(p)  BY <2>4 DEF Compare
    <2>5. CASE Write(p) \/ Fsync(p) \/ Fail(p)  BY <2>5 DEF Write, Fsync, Fail
    <2>6. CASE User(p)
      BY <2>6 DEF User, AnswerBusy, AnswerCommit, RunAgain, Interrupt
    <2> QED  BY <2>1, <2>2, <2>3, <2>4, <2>5, <2>6 DEF Step, Work
  <1>2. SameReads(q) /\ NoFurther(q)  BY <1>1 DEF SameReads, NoFurther, Edited
  <1> QED  BY <1>2, ReadsKept DEF AllRead

\* The steps that learn nothing of the volume.
LEMMA OthersStep ==
  ASSUME IInv, NEW p \in Procs, Reads(p),
         \/ ReadMbr(p) \/ List(p) \/ Nchain(p) \/ Choose(p) \/ Write(p) \/ Fsync(p)
         \/ Fail(p) \/ User(p)
  PROVE  Reads(p)'
  <1> USE DEF IInv, TypeOK, Goto, tables, world, args, found, cmp
  <1>1. CASE ReadMbr(p) \/ RunAgain(p) \/ Fail(p) \/ Interrupt(p) \/ Fsync(p)
    <2>1. pc'[p] \in Ended \union {"start", "open"}
      BY <1>1 DEF ReadMbr, RunAgain, Fail, Interrupt, Fsync, Ended
    <2> QED
      BY <2>1
         DEF Reads, Ended, HasFat, Located, Comparing, Compared, Checked,
             Targeted, Cleared, Edited
  <1>2. CASE List(p)
    <2>1. pc'[p] \in {"done", "spin", "failed"}
      BY <1>2, PrintEndsType DEF List, PrintThen
    <2> QED
      BY <2>1
         DEF Reads, HasFat, Located, Comparing, Compared, Checked, Targeted,
             Cleared, Edited
  <1>3. CASE Nchain(p)
    <2>1. pc[p] = "nchain" /\ pc'[p] \in {"spin", "failed", "path"} /\ SameReads(p)
      BY <1>3, TravelEndType DEF Nchain, SameReads
    <2> QED
      BY <2>1, ReadsKept
         DEF NoFurther, HasFat, Located, Comparing, Compared, Targeted,
             Cleared, Edited
  <1>4. CASE Choose(p)
    <2>1. pc[p] = "choose" /\ SameReads(p)
          /\ pc'[p] \in {"spin", "failed", "done", "edit", "busy"}
      BY <1>4, PrintEndsType DEF Choose, PrintThen, SameReads
    <2> QED
      BY <2>1, ReadsKept
         DEF NoFurther, HasFat, Located, Comparing, Compared, Checked,
             Edited
  <1>5. CASE AnswerBusy(p)
    <2>1. pc[p] = "busy" /\ SameReads(p) /\ pc'[p] \in {"edit", "quit"}
      BY <1>5 DEF AnswerBusy, SameReads
    <2> QED
      BY <2>1, ReadsKept
         DEF NoFurther, HasFat, Located, Comparing, Compared, Checked,
             Targeted, Edited
  <1>6. CASE AnswerCommit(p) \/ Write(p)
    <2>1. pc[p] \in {"commit", "write"} /\ SameReads(p)
          /\ pc'[p] \in {"write", "quit", "fsync"} /\ UNCHANGED <<part, disk>>
      BY <1>6 DEF AnswerCommit, Write, SameReads
    <2> QED
      BY <2>1, ReadsKept
         DEF NoFurther, HasFat, Located, Comparing, Compared, Checked,
             Targeted, Cleared, Edited
  <1> QED  BY <1>1, <1>2, <1>3, <1>4, <1>5, <1>6 DEF User

LEMMA OpenVolumeReads ==
  ASSUME IInv, NEW p \in Procs, OpenVolume(p) PROVE Reads(p)'
  <1>1. pc'[p] \in {"failed", "list", "search"} /\ vol' = vol
        /\ (pc'[p] # "failed" => fat1'[p] = vol.fat)
    BY DEF OpenVolume, Goto, IInv, TypeOK, world
  <1> QED
    BY <1>1
       DEF Reads, HasFat, Located, Comparing, Compared, Checked, Targeted,
           Cleared, Edited

\* What it finds in the root directory is an entry there, of the name.
LEMMA FindFileReads ==
  ASSUME IInv, NEW p \in Procs, Reads(p), FindFile(p) PROVE Reads(p)'
  <1> USE DEF IInv, TypeOK, Goto, world, args, cmp
  <1>1. pc[p] = "search" /\ vol' = vol /\ file' = file /\ fat1' = fat1
    BY DEF FindFile
  <1>2. PICK view \in RootViews(fat1[p]) :
          \/ RootEnd(view) # "done" /\ Goto(p, RootEnd(view))
          \/ Goto(p, "failed")
          \/ /\ \E d \in {x \in RootEntries(view) : x.name = file[p]} :
                    ent' = [ent EXCEPT ![p] = d]
             /\ Goto(p, "nchain")  BY DEF FindFile
  <1>3. RootEnd(view) \in {"done", "spin", "failed"}
    BY TravelEndType DEF RootEnd
  <1>4. CASE pc'[p] \in {"spin", "failed"}
    BY <1>4
       DEF Reads, HasFat, Located, Comparing, Compared, Checked, Targeted,
           Cleared, Edited
  <1>5. CASE pc'[p] = "nchain"
    <2>1. PICK d \in RootEntries(view) : d.name = file[p] /\ ent'[p] = d
      BY <1>2, <1>3, <1>5
    <2>2. \E c \in Cluster : d \in vol.dir[c]  BY DEF RootEntries, ChainOf
    <2>3. fat1[p] = vol.fat  BY <1>1 DEF Reads, HasFat
    <2> QED
      BY <1>1, <1>5, <2>1, <2>2
         DEF Reads, HasFat, Comparing, Compared, Targeted, Cleared, Edited
  <1> QED  BY <1>2, <1>3, <1>4, <1>5

LEMMA OpenPathReads ==
  ASSUME IInv, NEW p \in Procs, Reads(p), OpenPath(p) PROVE Reads(p)'
  <1>1. /\ pc[p] = "path" /\ pc'[p] = "compare" /\ blk'[p] = 0
        /\ vol' = vol /\ file' = file /\ fat1' = fat1 /\ ent' = ent
    BY DEF OpenPath, Goto, IInv, TypeOK, world, args, found
  <1>2. SameUpTo(p, blk[p])'
    <2>1. \A k \in Cluster : ~(k < 0)  BY DEF Cluster
    <2> QED  BY <1>1, <2>1 DEF SameUpTo
  <1> QED
    BY <1>1, <1>2
       DEF Reads, HasFat, Located, Compared, Checked, Targeted, Cleared,
           Edited

\* A round of filecmp()'s loop adds a block to those that are the same.
LEMMA CompareReads ==
  ASSUME IInv, NEW p \in Procs, Reads(p), Compare(p) PROVE Reads(p)'
  <1> USE DEF IInv, TypeOK, Goto, world, args, found
  <1>1. /\ pc[p] = "compare" /\ vol' = vol /\ file' = file /\ fat1' = fat1 /\ ent' = ent
        /\ total' = total  BY DEF Compare
  <1>2. CASE pc'[p] = "choose"
    <2>1. blk' = blk /\ blk[p] * ClusterBytes >= total[p]  BY <1>2 DEF Compare
    <2>2. SameUpTo(p, blk[p])' <=> SameUpTo(p, blk[p])
      BY <1>1, <2>1 DEF SameUpTo, InChain, ClusterOf
    <2> QED
      BY <1>1, <1>2, <2>1, <2>2
         DEF Reads, HasFat, Located, Comparing, Checked, Edited
  <1>3. CASE pc'[p] = "compare"
    <2>1. blk'[p] = blk[p] + 1 /\ BlockSame(p)  BY <1>3 DEF Compare
    <2>2. SameUpTo(p, blk[p])  BY <1>1 DEF Reads, Comparing
    <2>3. ASSUME NEW k \in Cluster, k < blk[p] + 1, InChain(p, k)
          PROVE  vol.data[ClusterOf(p, k)] = vol.file[file[p]].page[k]
      <3>1. k < blk[p] \/ k = blk[p]  BY <2>3 DEF Cluster
      <3> QED  BY <2>1, <2>2, <2>3, <3>1 DEF SameUpTo, BlockSame
    <2>4. SameUpTo(p, blk[p])'
      BY <1>1, <2>1, <2>3 DEF SameUpTo, InChain, ClusterOf
    <2> QED  BY <1>1, <1>3, <2>4 DEF Reads, Compared, Targeted, Cleared, Edited
  <1>4. CASE pc'[p] = "differ"
    BY <1>4
       DEF Reads, HasFat, Located, Comparing, Compared, Checked, Targeted,
           Cleared, Edited
  <1>5. pc'[p] \in {"choose", "compare", "differ"}  BY DEF Compare
  <1> QED  BY <1>2, <1>3, <1>4, <1>5

LEMMA EditReads ==
  ASSUME IInv, NEW p \in Procs, Reads(p), Edit(p) PROVE Reads(p)'
  <1> USE DEF IInv, TypeOK, Goto, tables, world, args, found, cmp
  <1>1. /\ pc[p] = "edit" /\ SameReads(p) /\ part' = part
        /\ disk' = [disk EXCEPT ![p][part[p]] = NewEntry(p)]
        /\ pc'[p] \in {"done", "spin", "failed", "commit"}
    BY PrintEndsType DEF Edit, PrintThen, SameReads
  <1>2. part[p] \in Slot  BY <1>1 DEF Knows, Targeted, Cleared, Slot
  <1>3. disk'[p][part[p]].size = (ent[p].size + SectorBytes - 1) \div SectorBytes
    <2>1. disk'[p][part[p]] = NewEntry(p)  BY <1>1, <1>2 DEF Mbr
    <2> QED  BY <2>1 DEF NewEntry
  <1>4. SameUpTo(p, blk[p])' <=> SameUpTo(p, blk[p])
    BY <1>1 DEF SameReads, SameUpTo, InChain, ClusterOf
  <1> QED
    BY <1>1, <1>3, <1>4
       DEF Reads, SameReads, HasFat, Located, Comparing, Compared, Checked,
           Targeted, Cleared

LEMMA InitReads == ASSUME Init PROVE AllRead
  BY DEF Init, AllRead, Reads, HasFat, Located, Comparing, Compared,
         Checked, Targeted, Cleared, Edited

LEMMA NextReads ==
  ASSUME MaxMoves = 0, IInv, AllRead, [Next]_vars PROVE AllRead'
  <1>1. ASSUME NEW p \in Procs, Step(p) \/ User(p) PROVE AllRead'
    <2>1. Reads(p)  BY DEF AllRead
    <2>2. Reads(p)'
      BY <1>1, <2>1, OthersStep, OpenVolumeReads, FindFileReads,
         OpenPathReads, CompareReads, EditReads
         DEF Step, Work
    <2> QED  BY <1>1, <2>2, OthersRead DEF AllRead
  <1>2. ~ChangeVolume  BY DEF ChangeVolume, IInv, TypeOK
  <1>3. CASE WriteBack \/ UNCHANGED vars
    <2>1. UNCHANGED <<vol, file, fat1, ent, total, blk, disk, part, pc>>
      BY <1>3 DEF WriteBack, vars, world, args, found, cmp
    <2>2. \A q \in Procs : SameReads(q) /\ NoFurther(q)
      BY <2>1 DEF SameReads, NoFurther, Edited
    <2> QED  BY <2>2, ReadsKept DEF AllRead
  <1>4. CASE PowerLoss
    <2>1. \A q \in Procs : pc'[q] \in Ended  BY <1>4 DEF PowerLoss, Ended
    <2> QED
      BY <2>1
         DEF AllRead, Reads, Ended, HasFat, Located, Comparing, Compared,
             Checked, Targeted, Cleared, Edited
  <1> QED  BY <1>1, <1>2, <1>3, <1>4 DEF Next

LEMMA ReadsInvariance ==
  ASSUME MaxMoves = 0 PROVE Spec => [](IInv /\ AllRead)
  <1>1. IInv /\ AllRead /\ [Next]_vars => AllRead'  BY NextReads
  <1> QED  BY <1>1, InitIInv, NextIInv, InitReads, PTL DEF Spec

\* The run of a checked chain, cluster by cluster.
LEMMA RunOf ==
  ASSUME IInv, NEW p \in Procs, Edited(p)
  PROVE  \E e \in ent[p].begin .. (NFat - 1) :
             /\ Last(fat1[p], e) /\ RunTo(fat1[p], ent[p].begin, e)
             /\ ent[p].begin \in Cluster /\ fat1[p] \in FatTable
  <1>1. Startable(ent[p].begin) /\ OneExtent(fat1[p], ent[p].begin)
    BY DEF IInv, Knows, Edited, Checked, Targeted, Cleared
  <1>2. ent[p].begin \in Cluster  BY <1>1 DEF Startable, Cluster
  <1>3. fat1[p] \in FatTable  BY DEF IInv, TypeOK
  <1> QED  BY <1>1, <1>2, <1>3 DEF OneExtent

\* While the volume does not change, the partition begins with what the path
\* shows, as far as the program has compared: of any volume, healthy or not.
THEOREM PartitionShowsFile ==
  ASSUME MaxMoves = 0
  PROVE  Spec => []ShowsPathFile
  <1>1. ASSUME IInv, AllRead, NEW p \in Procs, Edited(p), NEW k \in Cluster,
               k * ClusterBytes < total[p], InChain(p, k)
        PROVE  vol.data[ent[p].begin + k] = vol.file[file[p]].page[k]
    <2>1. Reads(p)  BY <1>1 DEF AllRead
    <2>2. SameUpTo(p, blk[p]) /\ blk[p] * ClusterBytes >= total[p]
      BY <1>1, <2>1 DEF Reads, Comparing, Compared, Targeted, Cleared, Edited
    <2>3. k < blk[p]
      <3> DEFINE a == k * ClusterBytes
                 b == blk[p] * ClusterBytes
      <3>1. k \in Nat /\ blk[p] \in Nat /\ total[p] \in Nat /\ ClusterBytes \in Nat
        <4>1. total[p] \in 0 .. CheckBytes /\ CheckBytes \in Nat
          BY <1>1, Sizes DEF IInv, TypeOK
        <4>2. SectorBytes \in Nat /\ SecPerClus \in Nat  BY Sizes
        <4>3. ClusterBytes \in Nat  BY <4>2 DEF ClusterBytes
        <4> QED  BY <1>1, <4>3 DEF IInv, TypeOK, Cluster
      <3>2. blk[p] <= k => b \in Nat /\ a \in Nat /\ b <= a  BY <3>1
      <3>3. a < total[p] /\ b >= total[p]  BY <1>1, <2>2
      <3> HIDE DEF a, b
      <3> QED  BY <3>1, <3>2, <3>3
    <2>4. vol.data[ClusterOf(p, k)] = vol.file[file[p]].page[k]
      BY <1>1, <2>2, <2>3 DEF SameUpTo
    <2>5. ClusterOf(p, k) = ent[p].begin + k
      <3>1. PICK e \in ent[p].begin .. (NFat - 1) :
                /\ Last(fat1[p], e) /\ RunTo(fat1[p], ent[p].begin, e)
                /\ ent[p].begin \in Cluster /\ fat1[p] \in FatTable
        BY <1>1, RunOf
      <3>2. k \in Nat  BY DEF Cluster
      <3>3. ClusterOf(p, k) = IF k <= e - ent[p].begin THEN ent[p].begin + k ELSE NFat
        BY <3>1, <3>2, RunIsRead DEF ClusterOf
      <3>4. NFat \notin Cluster  BY DEF Cluster
      <3> QED  BY <1>1, <3>3, <3>4 DEF InChain
    <2> QED  BY <2>4, <2>5
  <1>2. IInv /\ AllRead => ShowsPathFile  BY <1>1 DEF ShowsPathFile
  <1> QED  BY <1>2, ReadsInvariance, PTL

-----------------------------------------------------------------------------
(***************************************************************************)
(* The sectors of a run.  The entry has as many as the file's size asks    *)
(* for, rounded up, and that reaches into the last cluster of the run and  *)
(* not beyond.                                                             *)
(***************************************************************************)
LEMMA QuotientIs ==
  ASSUME NEW q \in Nat, NEW d \in Nat \ {0}, NEW r \in Nat, r < d
  PROVE  (q * d + r) \div d = q
  OBVIOUS

LEMMA DivisionIs ==
  ASSUME NEW n \in Nat, NEW d \in Nat \ {0}
  PROVE  /\ (n \div d) \in Nat /\ (n % d) \in Nat /\ (n % d) < d
         /\ n = (n \div d) * d + (n % d)
  OBVIOUS

LEMMA ProductIsNat ==
  ASSUME NEW i \in Nat, NEW j \in Nat PROVE i * j \in Nat
  OBVIOUS

\* Division by d, rounded up, is the least number of ds that hold n.
LEMMA CeilingIs ==
  ASSUME NEW n \in Nat, NEW d \in Nat \ {0}, NEW m \in Nat,
         m * d < n, NEW k \in Nat, n <= k * d
  PROVE  LET c == (n + d - 1) \div d
         IN  c \in Nat /\ m < c /\ c <= k /\ n <= c * d
  <1> DEFINE c == (n + d - 1) \div d
             r == (n + d - 1) % d
  <1>1. n + d - 1 \in Nat  OBVIOUS
  <1>2. c \in Nat /\ r \in Nat /\ r < d /\ n + d - 1 = c * d + r  OBVIOUS
  <1> HIDE DEF c, r
  <1>3. c * d \in Nat /\ m * d \in Nat /\ k * d \in Nat  BY <1>2
  <1>4. n <= c * d
    <2> DEFINE x == c * d
    <2> HIDE DEF x
    <2> QED  BY <1>2
  <1>5. m < c
    <2>1. c <= m => c * d <= m * d  BY <1>2
    <2> DEFINE x == c * d
               y == m * d
    <2>2. x \in Nat /\ y \in Nat /\ n <= x /\ y < n /\ (c <= m => x <= y)
      BY <1>3, <1>4, <2>1
    <2> HIDE DEF x, y
    <2> QED  BY <1>2
  <1>6. c <= k
    <2>1. k + 1 <= c => (k + 1) * d <= c * d  BY <1>2
    <2>2. (k + 1) * d = k * d + d  OBVIOUS
    <2> DEFINE x == c * d
               y == k * d
    <2>3. x \in Nat /\ y \in Nat /\ n <= y /\ n + d - 1 = x + r
          /\ (k + 1 <= c => y + d <= x)  BY <1>2
    <2> HIDE DEF x, y
    <2> QED  BY <1>2
  <1> QED  OBVIOUS

\* Counted from the first sector of cluster b, sector number i lies in the
\* cluster i \div SecPerClus further on.
LEMMA ClusterIs ==
  ASSUME NEW b \in Nat, 2 <= b, NEW i \in Nat
  PROVE  ClusterAt(FirstSector(b) + i) = b + (i \div SecPerClus)
  <1> DEFINE d == SecPerClus
             q == i \div d
             r == i % d
  <1>1. d \in Nat \ {0} /\ VolStart \in Nat /\ FirstData \in Nat  BY Sizes
  <1>2. q \in Nat /\ r \in Nat /\ r < d /\ i = q * d + r  BY <1>1
  <1>3. b - 2 \in Nat  OBVIOUS
  <1>4. (FirstSector(b) + i) - VolStart - FirstData = (b - 2 + q) * d + r
    <2>1. (b - 2 + q) * d = (b - 2) * d + q * d
      <3> HIDE DEF q, d
      <3> QED  BY <1>1, <1>2
    <2>2. (b - 2) * d \in Nat /\ q * d \in Nat  BY <1>1
    <2> DEFINE x == (b - 2) * d
               y == q * d
    <2>3. FirstSector(b) = VolStart + FirstData + x  BY DEF FirstSector
    <2>4. (b - 2 + q) * d = x + y /\ x \in Nat /\ y \in Nat /\ i = y + r
      BY <1>2, <2>1, <2>2
    <2> HIDE DEF x, y, q, r, d
    <2> QED  BY <1>1, <1>2, <2>3, <2>4
  <1>5. ((b - 2 + q) * d + r) \div d = b - 2 + q
    <2> HIDE DEF q, r, d
    <2>1. b - 2 + q \in Nat  BY <1>2
    <2> QED  BY <1>1, <1>2
  <1>6. ClusterAt(FirstSector(b) + i) = 2 + (b - 2 + q)
    <2> DEFINE z == FirstSector(b) + i
    <2>1. ClusterAt(z) = 2 + ((z - VolStart - FirstData) \div d)
      BY DEF ClusterAt
    <2> HIDE DEF q, r, d
    <2> DEFINE w == (b - 2 + q) * d + r
    <2>2. z - VolStart - FirstData = w  BY <1>4
    <2>3. w \div d = b - 2 + q  BY <1>5
    <2> HIDE DEF w, z
    <2>4. ClusterAt(z) = 2 + (b - 2 + q)  BY <2>1, <2>2, <2>3
    <2> QED  BY <2>4 DEF z
  <1>7. 2 + (b - 2 + q) = b + q
    <2> HIDE DEF q
    <2> QED  BY <1>2
  <1> QED  BY <1>6, <1>7

\* The sectors that start in the last cluster of a run and end there cover
\* its clusters, and no other.
LEMMA RunCovered ==
  ASSUME NEW b \in Nat, 2 <= b, NEW e \in Nat, b <= e, NEW n \in Nat,
         (e - b) * SecPerClus < n, n <= (e - b + 1) * SecPerClus
  PROVE  {ClusterAt(s) : s \in FirstSector(b) .. FirstSector(b) + n - 1} = b .. e
  <1> DEFINE d == SecPerClus
             f == FirstSector(b)
  <1>1. d \in Nat \ {0} /\ VolStart \in Nat /\ FirstData \in Nat  BY Sizes
  <1>2. f \in Nat
    <2>1. b - 2 \in Nat  OBVIOUS
    <2>2. (b - 2) * d \in Nat  BY <1>1
    <2> DEFINE x == (b - 2) * d
    <2>3. f = VolStart + FirstData + x  BY DEF FirstSector
    <2> HIDE DEF x, f
    <2> QED  BY <1>1, <2>3 DEF x
  <1>3. ASSUME NEW s \in f .. f + n - 1 PROVE ClusterAt(s) \in b .. e
    <2> DEFINE i == s - f
               q == i \div d
               r == i % d
    <2>1. i \in Nat /\ i < n /\ s = f + i
      <3> HIDE DEF f
      <3> QED  BY <1>2
    <2>2. ClusterAt(s) = b + q  BY <2>1, ClusterIs
    <2>3. q \in Nat /\ r \in Nat /\ r < d /\ i = q * d + r
      <3> HIDE DEF i
      <3> QED  BY <1>1, <2>1
    <2> HIDE DEF q, r, i
    <2>4. q < e - b + 1
      <3>1. e - b + 1 \in Nat  OBVIOUS
      <3>2. e - b + 1 <= q => (e - b + 1) * d <= q * d  BY <1>1, <2>3
      <3>3. (e - b + 1) * d \in Nat /\ q * d \in Nat  BY <1>1, <2>3
      <3> DEFINE x == (e - b + 1) * d
                 y == q * d
      <3>4. /\ x \in Nat /\ y \in Nat /\ n <= x /\ i = y + r
            /\ (e - b + 1 <= q => x <= y)  BY <2>3, <3>2, <3>3
      <3> HIDE DEF x, y, d
      <3> QED  BY <2>1, <2>3, <3>4
    <2> QED  BY <2>2, <2>3, <2>4
  <1>4. ASSUME NEW c \in b .. e
        PROVE  \E s \in f .. f + n - 1 : ClusterAt(s) = c
    <2> DEFINE i == (c - b) * d
    <2>1. c - b \in Nat /\ e - b \in Nat /\ c - b <= e - b  OBVIOUS
    <2>2. i \in Nat /\ i <= (e - b) * d  BY <1>1
    <2>3. i < n
      <3> DEFINE x == (e - b) * d
      <3>1. x \in Nat /\ x < n /\ i <= x  BY <1>1
      <3> HIDE DEF x, i
      <3> QED  BY <2>2, <3>1
    <2>4. i \div d = c - b
      <3>1. ((c - b) * d + 0) \div d = c - b
        <4> HIDE DEF d
        <4>1. 0 \in Nat /\ 0 < d  BY <1>1
        <4> QED  BY <1>1
      <3>2. (c - b) * d + 0 = (c - b) * d  BY <2>2
      <3> QED  BY <3>1, <3>2
    <2>5. ClusterAt(f + i) = b + (i \div d)
      <3> HIDE DEF i
      <3> QED  BY <2>2, ClusterIs
    <2>6. f + i \in f .. f + n - 1
      <3> HIDE DEF f, i
      <3> QED  BY <1>2, <2>2, <2>3
    <2>7. b + (c - b) = c  OBVIOUS
    <2> QED  BY <2>4, <2>5, <2>6
  <1> HIDE DEF f
  <1> QED  BY <1>3, <1>4 DEF f

\* What a volume owes for its file to be found: a directory entry with a run
\* behind it is of the file of its name, which has the clusters of the run and
\* the size of the entry, and that size needs every cluster of the run.
Consistent(v) ==
    \A c \in Cluster : \A d \in v.dir[c] :
        Startable(d.begin) =>
            \A e \in d.begin .. (NFat - 1) :
                Last(v.fat, e) /\ RunTo(v.fat, d.begin, e) =>
                    /\ v.file[d.name].own = ChainOf(v.fat, d.begin)
                    /\ v.file[d.name].size = d.size
                    /\ (e - d.begin) * ClusterBytes < d.size
                    /\ d.size <= (e - d.begin + 1) * ClusterBytes

\* On consistent volumes that do not change, the partition is the file: its
\* clusters and no other, with room for each of its bytes.
THEOREM PartitionIsFile ==
  ASSUME MaxMoves = 0, \A v \in Volumes : Consistent(v)
  PROVE  Spec => []MapsPathFile
  <1>1. ASSUME IInv, AllRead, NEW p \in Procs, Edited(p)
        PROVE  /\ Covered(p) = vol.file[file[p]].own
               /\ disk[p][part[p]].size * SectorBytes >= vol.file[file[p]].size
    <2> DEFINE b == ent[p].begin
               x == disk[p][part[p]]
               n == ent[p].size
               sb == SectorBytes
               d == SecPerClus
    <2>1. PICK e \in b .. (NFat - 1) :
              /\ Last(fat1[p], e) /\ RunTo(fat1[p], b, e)
              /\ b \in Cluster /\ fat1[p] \in FatTable  BY <1>1, RunOf
    <2>2. /\ fat1[p] = vol.fat /\ ent[p].name = file[p]
          /\ \E c \in Cluster : ent[p] \in vol.dir[c]
          /\ x.size = (n + sb - 1) \div sb
      BY <1>1
         DEF AllRead, Reads, HasFat, Located, Checked, Targeted, Cleared,
             Edited
    <2>3. Startable(b) /\ x.begin = VolStart + sector(b)
      BY <1>1 DEF IInv, Knows, Edited, EditOf, Checked, Targeted, Cleared
    <2>4. vol \in Volumes /\ ent[p] \in DirEntry  BY <1>1 DEF IInv, TypeOK
    <2>5. b \in Nat /\ n \in Nat /\ e \in Nat /\ NFat \in Nat /\ 2 <= b /\ b <= e
      BY <2>3, <2>4, FatAssumption DEF DirEntry, Startable
    <2>6. /\ vol.file[file[p]].own = ChainOf(vol.fat, b)
          /\ vol.file[file[p]].size = n
          /\ (e - b) * ClusterBytes < n
          /\ n <= (e - b + 1) * ClusterBytes
      BY <2>1, <2>2, <2>3, <2>4 DEF Consistent
    <2>7. vol.file[file[p]].own = b .. e  BY <2>1, <2>2, <2>6, RunIsChain
    <2>8. sb \in Nat \ {0} /\ d \in Nat \ {0}  BY Sizes
    <2> HIDE DEF b, x, n, sb, d
    <2>9. /\ x.size \in Nat /\ (e - b) * d < x.size /\ x.size <= (e - b + 1) * d
          /\ n <= x.size * sb
      <3>1. e - b \in Nat /\ e - b + 1 \in Nat  BY <2>5
      <3>2. (e - b) * d \in Nat /\ (e - b + 1) * d \in Nat  BY <2>8, <3>1
      <3>3. ClusterBytes = sb * d  BY DEF ClusterBytes, sb, d
      <3>4. (e - b) * (sb * d) = ((e - b) * d) * sb  BY <2>8, <3>1
      <3>5. (e - b + 1) * (sb * d) = ((e - b + 1) * d) * sb  BY <2>8, <3>1
      <3>6. ((e - b) * d) * sb < n /\ n <= ((e - b + 1) * d) * sb
        BY <2>6, <3>3, <3>4, <3>5
      <3> DEFINE m == (e - b) * d
                 k == (e - b + 1) * d
      <3> HIDE DEF m, k
      <3>7. m \in Nat /\ k \in Nat /\ m * sb < n /\ n <= k * sb
        BY <3>2, <3>6 DEF m, k
      <3>8. /\ x.size \in Nat /\ m < x.size /\ x.size <= k
            /\ n <= x.size * sb  BY <2>2, <2>5, <2>8, <3>7, CeilingIs
      <3> QED  BY <3>8 DEF m, k
    <2>10. x.begin = FirstSector(b)  BY <2>3, <2>5, FirstSectorIs
    <2>11. Covered(p) = {ClusterAt(s) : s \in FirstSector(b) .. FirstSector(b) + x.size - 1}
      BY <2>10 DEF Covered, x
    <2>12. Covered(p) = b .. e  BY <2>5, <2>9, <2>11, RunCovered DEF d
    <2>13. x.size * sb \in Nat  BY <2>8, <2>9, ProductIsNat
    <2> QED  BY <2>6, <2>7, <2>9, <2>12, <2>13, <2>5 DEF x, sb
  <1>2. IInv /\ AllRead => MapsPathFile  BY <1>1 DEF MapsPathFile
  <1> QED  BY <1>2, ReadsInvariance, PTL
=============================================================================
