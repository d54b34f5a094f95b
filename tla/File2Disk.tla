------------------------------ MODULE File2Disk ------------------------------
(***************************************************************************)
(* file2disk(): the program reads the partition table (MBR) of the disk a  *)
(* file lives on and the FAT of its first partition, checks that the file  *)
(* is one run of clusters whose content it can read through the disk, and  *)
(* rewrites the table with an entry that points at the file.               *)
(*                                                                         *)
(* One step is one access to something the process shares with the kernel, *)
(* the user or other processes; between two steps anything may happen to   *)
(* the table, the volume and the power.  Any access may fail; a failed     *)
(* access or assertion ends the process.                                   *)
(***************************************************************************)
EXTENDS FatVolume, FiniteSets

CONSTANTS
    Procs,        \* processes that run file2disk on the one disk
    Files,        \* base names of the files on the volume
    Paths,        \* those the processes are given, a subset of Files
    Modes,        \* the letters of the option: subset of {"", "A", "C", "X"}
    Parts,        \* the digits of the option, 0 being its default
    Mbrs,         \* partition tables the disk may start with
    Volumes,      \* states the FAT volume may be in
    VolStart,     \* the sector the volume starts at
    RootCluster,  \* boot.root_cluster
    FirstData,    \* boot.reserved + boot.fat32_length * boot.fats
    SecPerClus,   \* boot.cluster_size, in sectors
    SectorBytes,  \* 512
    CheckBytes,   \* how much of the file filecmp() compares: 3000
    SectorLimit,  \* 2^32: an entry holds sector numbers below it
    MaxMoves,     \* bound: how often the file system changes the volume
    MaxRuns       \* bound: how often each process runs the program again

-----------------------------------------------------------------------------
Slot == 0 .. 3

Entry == [boot : BOOLEAN, type : 0 .. 255, begin : Nat, size : Nat]

Mbr == [Slot -> Entry]

LinuxType == 131

isfree(e) == e.type = 0

\* A root directory entry, as far as file2disk() looks at it.
DirEntry == [name : Files, begin : Nat, size : Nat]

(***************************************************************************)
(* The volume: its table, the root directory entries by cluster and the    *)
(* cluster with the end marker (none when it is no cluster), the content   *)
(* of each cluster as the disk holds it, and for each file what open()ing  *)
(* its path yields: content by cluster-sized block, size in bytes, and the *)
(* clusters the file occupies.                                             *)
(***************************************************************************)
Volume ==
    [fat  : FatTable,
     dir  : [Cluster -> SUBSET DirEntry],
     mark : Nat,
     data : [Cluster -> Nat],
     file : [Files -> [page : [Cluster -> Nat], size : Nat, own : SUBSET Cluster]]]

\* The sectors of the volume fit the 32-bit fields of a table entry.
ASSUME File2DiskAssumption ==
    /\ Paths \subseteq Files
    /\ Modes \subseteq {"", "A", "C", "X"}
    /\ Parts \subseteq 0 .. 9
    /\ Mbrs \subseteq Mbr
    /\ \A v \in Volumes : v \in Volume
    /\ RootCluster \in Nat
    /\ FirstData \in Nat
    /\ VolStart \in Nat \ {0}
    /\ {SecPerClus, SectorBytes, CheckBytes, SectorLimit} \subseteq Nat \ {0}
    /\ VolStart + FirstData + NFat * SecPerClus < SectorLimit
    /\ {MaxMoves, MaxRuns} \subseteq Nat

ClusterBytes == SectorBytes * SecPerClus   \* clusterSize()

VARIABLES
    cache,   \* the MBR as open(bdev) shows it: the kernel's buffer cache
    medium,  \* the MBR on the medium
    vol,     \* the volume
    moves,   \* number of changes of vol
    \* per process, its arguments:
    file, mode, part,
    \* its data:
    base,    \* the MBR as it read it
    disk,    \* b.disk: the MBR it edits
    fat1,    \* its copy of the table
    ent,     \* e: the directory entry it found
    total,   \* filecmp()'s total
    blk,     \* filecmp()'s i, in clusters
    asked,   \* it was told to continue with a busy entry
    runs,
    pc

tables == <<cache, medium>>
world == <<vol, moves>>
args == <<file, mode>>
found == <<fat1, ent>>
cmp == <<total, blk>>
vars == <<tables, world, args, part, base, disk, found, cmp, asked, runs, pc>>

EmptyEntry == [boot |-> FALSE, type |-> 0, begin |-> 0, size |-> 0]
NoMbr == [s \in Slot |-> EmptyEntry]
NoFat == [c \in Cluster |-> 0]

-----------------------------------------------------------------------------
Ended == {"committed", "done", "quit", "differ", "failed", "dead"}

\* Waiting for the user to type an answer.
Prompts == {"busy", "commit"}

\* Whether a process has set its entry and still may write it.
Edited(p) == pc[p] \in {"commit", "write", "fsync"}

Goto(p, label) == pc' = [pc EXCEPT ![p] = label]

Init ==
    /\ medium \in Mbrs
    /\ cache = medium
    /\ vol \in Volumes
    /\ moves = 0
    /\ file \in [Procs -> Paths]
    /\ mode \in [Procs -> Modes]
    /\ part \in [Procs -> Parts]
    /\ base = [p \in Procs |-> NoMbr]
    /\ disk = [p \in Procs |-> NoMbr]
    /\ fat1 = [p \in Procs |-> NoFat]
    /\ ent = [p \in Procs |-> [name |-> file[p], begin |-> 0, size |-> 0]]
    /\ total = [p \in Procs |-> 0]
    /\ blk = [p \in Procs |-> 0]
    /\ asked = [p \in Procs |-> FALSE]
    /\ runs = [p \in Procs |-> 0]
    /\ pc = [p \in Procs |-> "start"]

(***************************************************************************)
(* Reading the root directory (readRoot) and printing it (print): both     *)
(* walk chains of the copied table, and read the directory from the disk.  *)
(*                                                                         *)
(* A cluster ends the reading if it has the end marker.  In one without    *)
(* it, readRoot() runs on behind its buffer, over what the stack holds:    *)
(* a byte of zero at the right place ends the reading as the marker would, *)
(* which is likely; or the walk goes on; or the process crashes (Fail).    *)
(* That the stack looks like an entry of the file's name is left out.      *)
(* A view is the table as the walk of one reading sees it.                 *)
(***************************************************************************)
RootView(fat) ==
    IF vol.mark \in Cluster THEN [fat EXCEPT ![vol.mark] = EocMin] ELSE fat

RootViews(fat) ==
    {RootView(fat)} \union
    {[fat EXCEPT ![c] = EocMin] : c \in ChainOf(RootView(fat), RootCluster) \ {vol.mark}}

RootEnd(view) == TravelEnd(view, RootCluster)

RootEntries(view) == UNION {vol.dir[c] : c \in ChainOf(view, RootCluster)}

\* How print() may end: it measures the chain of every entry it lists, and
\* the first that is not sound decides.
PrintEndsOf(fat, view) ==
    LET bad == {TravelEnd(fat, d.begin) :
                    d \in {x \in RootEntries(view) : Startable(x.begin)}} \ {"done"}
    IN  IF RootEnd(view) # "done" THEN {RootEnd(view)}
        ELSE IF bad = {} THEN {"done"} ELSE bad

PrintEnds(fat) == UNION {PrintEndsOf(fat, view) : view \in RootViews(fat)}

\* Print, and go on to label if that comes to an end.
PrintThen(p, label) ==
    \E end \in PrintEnds(fat1[p]) : Goto(p, IF end = "done" THEN label ELSE end)

-----------------------------------------------------------------------------
(* The steps of a process. *)

\* DskFd b(bdev), and the check of the first entry.
ReadMbr(p) ==
    /\ pc[p] = "start"
    /\ base' = [base EXCEPT ![p] = cache]
    /\ disk' = [disk EXCEPT ![p] = cache]
    /\ Goto(p, IF isfree(cache[0]) THEN "failed" ELSE "open")
    /\ UNCHANGED <<tables, world, args, part, found, cmp, asked, runs>>

\* DosFd a(b.fd,e0.begin): no boot sector is found anywhere else.
OpenVolume(p) ==
    /\ pc[p] = "open"
    /\ IF disk[p][0].begin = VolStart
       THEN /\ fat1' = [fat1 EXCEPT ![p] = vol.fat]
            /\ Goto(p, IF mode[p] = "" THEN "list" ELSE "search")
       ELSE /\ Goto(p, "failed")
            /\ UNCHANGED fat1
    /\ UNCHANGED <<tables, world, args, part, base, disk, ent, cmp, asked, runs>>

\* Without an option the program prints what it read and returns.
List(p) ==
    /\ pc[p] = "list"
    /\ PrintThen(p, "done")
    /\ UNCHANGED <<tables, world, args, part, base, disk, found, cmp, asked, runs>>

\* findFile(): one entry of the root directory, as it was read, has the name.
FindFile(p) ==
    /\ pc[p] = "search"
    /\ \E view \in RootViews(fat1[p]) :
        LET hits == {d \in RootEntries(view) : d.name = file[p]}
        IN  \/ /\ RootEnd(view) # "done"
               /\ Goto(p, RootEnd(view))
               /\ UNCHANGED ent
            \/ /\ RootEnd(view) = "done"
               /\ Cardinality(hits) # 1
               /\ Goto(p, "failed")
               /\ UNCHANGED ent
            \/ /\ RootEnd(view) = "done"
               /\ Cardinality(hits) = 1
               /\ \E d \in hits : ent' = [ent EXCEPT ![p] = d]
               /\ Goto(p, "nchain")
    /\ UNCHANGED <<tables, world, args, part, base, disk, fat1, cmp, asked, runs>>

\* A wrong variant: the assertion is missing.
NchainUnchecked(p) ==
    /\ pc[p] = "nchain"
    /\ LET end == TravelEnd(fat1[p], ent[p].begin)
       IN  Goto(p, IF end # "done" THEN end ELSE "path")
    /\ UNCHANGED <<tables, world, args, part, base, disk, found, cmp, asked, runs>>

\* nchain() and the assertion that it is 1.
Nchain(p) ==
    /\ pc[p] = "nchain"
    /\ LET end == TravelEnd(fat1[p], ent[p].begin)
       IN  Goto(p, IF end # "done" THEN end
                   ELSE IF OneExtent(fat1[p], ent[p].begin) THEN "path" ELSE "failed")
    /\ UNCHANGED <<tables, world, args, part, base, disk, found, cmp, asked, runs>>

\* A wrong variant: the greater of the two sizes.
OpenPathMax(p) ==
    /\ pc[p] = "path"
    /\ LET size == vol.file[file[p]].size
       IN  total' = [total EXCEPT ![p] = IF size > CheckBytes THEN size ELSE CheckBytes]
    /\ blk' = [blk EXCEPT ![p] = 0]
    /\ Goto(p, "compare")
    /\ UNCHANGED <<tables, world, args, part, base, disk, found, asked, runs>>

\* filecmp() opens the file by its path.
OpenPath(p) ==
    /\ pc[p] = "path"
    /\ LET size == vol.file[file[p]].size
       IN  total' = [total EXCEPT ![p] = IF size < CheckBytes THEN size ELSE CheckBytes]
    /\ blk' = [blk EXCEPT ![p] = 0]
    /\ Goto(p, "compare")
    /\ UNCHANGED <<tables, world, args, part, base, disk, found, asked, runs>>

\* The cluster preadFile() reads for a block of the file, if it has one.
ClusterOf(p, k) == NthCluster(fat1[p], ent[p].begin)[k]

InChain(p, k) == ClusterOf(p, k) \in Cluster

\* A wrong variant: reading the block is enough.
BlockReadable(p) ==
    InChain(p, blk[p]) => (blk[p] + 1) * ClusterBytes <= vol.file[file[p]].size

\* One round of filecmp()'s loop: a block that is short in the file counts
\* as a difference, one beyond the chain as none.
BlockSame(p) ==
    LET f == vol.file[file[p]]
    IN  InChain(p, blk[p]) =>
            /\ (blk[p] + 1) * ClusterBytes <= f.size
            /\ f.page[blk[p]] = vol.data[ClusterOf(p, blk[p])]

\* A wrong variant: the loop does not advance.
CompareSameBlock(p) ==
    /\ pc[p] = "compare"
    /\ \/ /\ blk[p] * ClusterBytes >= total[p]
          /\ Goto(p, "choose")
       \/ /\ blk[p] * ClusterBytes < total[p]
          /\ BlockSame(p)
          /\ UNCHANGED pc
       \/ /\ blk[p] * ClusterBytes < total[p]
          /\ ~BlockSame(p)
          /\ Goto(p, "differ")
    /\ UNCHANGED <<tables, world, args, part, base, disk, found, cmp, asked, runs>>

Compare(p) ==
    /\ pc[p] = "compare"
    /\ \/ /\ blk[p] * ClusterBytes >= total[p]
          /\ Goto(p, "choose")
          /\ UNCHANGED blk
       \/ /\ blk[p] * ClusterBytes < total[p]
          /\ BlockSame(p)
          /\ blk' = [blk EXCEPT ![p] = @ + 1]
          /\ UNCHANGED pc
       \/ /\ blk[p] * ClusterBytes < total[p]
          /\ ~BlockSame(p)
          /\ Goto(p, "differ")
          /\ UNCHANGED blk
    /\ UNCHANGED <<tables, world, args, part, base, disk, found, total, asked, runs>>

\* The entry to use: the one the user named, or else the first free one; 0
\* when there is none.
FreeSlots(p) == {s \in Slot : isfree(disk[p][s])}

Target(p) ==
    IF part[p] # 0 \/ FreeSlots(p) = {} THEN part[p]
    ELSE CHOOSE s \in FreeSlots(p) : \A t \in FreeSlots(p) : s <= t

\* A wrong variant: no question when the entry is in use.
ChooseSilently(p) ==
    /\ pc[p] = "choose"
    /\ part' = [part EXCEPT ![p] = Target(p)]
    /\ Goto(p, IF Target(p) \in 1 .. 3 THEN "edit" ELSE "failed")
    /\ UNCHANGED <<tables, world, args, base, disk, found, cmp, asked, runs>>

Choose(p) ==
    /\ pc[p] = "choose"
    /\ part' = [part EXCEPT ![p] = Target(p)]
    /\ \/ /\ Target(p) \notin 1 .. 3
          /\ Goto(p, "failed")
       \/ /\ Target(p) \in 1 .. 3
          /\ isfree(disk[p][Target(p)])
          /\ Goto(p, "edit")
       \/ /\ Target(p) \in 1 .. 3
          /\ ~isfree(disk[p][Target(p)])
          /\ PrintThen(p, "busy")
    /\ UNCHANGED <<tables, world, args, base, disk, found, cmp, asked, runs>>

\* A wrong variant: every answer is taken for a yes.
AnswerBusyAny(p) ==
    /\ pc[p] = "busy"
    /\ Goto(p, "edit")
    /\ \/ asked' = [asked EXCEPT ![p] = TRUE]
       \/ UNCHANGED asked
    /\ UNCHANGED <<tables, world, args, part, base, disk, found, cmp, runs>>

\* "Continue[Ny]?"
AnswerBusy(p) ==
    /\ pc[p] = "busy"
    /\ \/ /\ asked' = [asked EXCEPT ![p] = TRUE]
          /\ Goto(p, "edit")
       \/ /\ Goto(p, "quit")
          /\ UNCHANGED asked
    /\ UNCHANGED <<tables, world, args, part, base, disk, found, cmp, runs>>

\* A wrong variant: the first data cluster is taken to be number 0.
sectorFromZero(b) == FirstData + b * SecPerClus

sector(b) == FirstData + (b - 2) * SecPerClus

\* A wrong variant: the size is rounded down.
NewEntryFloor(p) ==
    [boot  |-> mode[p] = "A",
     type  |-> LinuxType,
     begin |-> (sector(ent[p].begin) + disk[p][0].begin) % SectorLimit,
     size  |-> ent[p].size \div SectorBytes]

NewEntry(p) ==
    [boot  |-> mode[p] = "A",
     type  |-> LinuxType,
     begin |-> (sector(ent[p].begin) + disk[p][0].begin) % SectorLimit,
     size  |-> (ent[p].size + SectorBytes - 1) \div SectorBytes]

\* A wrong variant: entries are counted from one.
EditFromOne(p) ==
    /\ pc[p] = "edit"
    /\ disk' = [disk EXCEPT ![p][part[p] - 1] = NewEntry(p)]
    /\ PrintThen(p, IF mode[p] \in {"A", "C"} THEN "commit" ELSE "done")
    /\ UNCHANGED <<tables, world, args, part, base, found, cmp, asked, runs>>

\* A wrong variant: making the entry active makes the others inactive.
EditOnlyActive(p) ==
    /\ pc[p] = "edit"
    /\ disk' = [disk EXCEPT ![p] =
           [s \in Slot |-> IF s = part[p] THEN NewEntry(p) ELSE [@[s] EXCEPT !.boot = FALSE]]]
    /\ PrintThen(p, IF mode[p] \in {"A", "C"} THEN "commit" ELSE "done")
    /\ UNCHANGED <<tables, world, args, part, base, found, cmp, asked, runs>>

\* Set the entry in the copy of the table and print the result; only the
\* letters A and C go on to offer to write it.
Edit(p) ==
    /\ pc[p] = "edit"
    /\ disk' = [disk EXCEPT ![p][part[p]] = NewEntry(p)]
    /\ PrintThen(p, IF mode[p] \in {"A", "C"} THEN "commit" ELSE "done")
    /\ UNCHANGED <<tables, world, args, part, base, found, cmp, asked, runs>>

\* "Commit changes[Ny]?"
AnswerCommit(p) ==
    /\ pc[p] = "commit"
    /\ \/ Goto(p, "write")
       \/ Goto(p, "quit")
    /\ UNCHANGED <<tables, world, args, part, base, disk, found, cmp, asked, runs>>

\* write(fd,&b.disk,512)
Write(p) ==
    /\ pc[p] = "write"
    /\ cache' = disk[p]
    /\ Goto(p, "fsync")
    /\ UNCHANGED <<medium, world, args, part, base, disk, found, cmp, asked, runs>>

\* fsync(fd), whose result is not looked at, and the report of the commit.
Fsync(p) ==
    /\ pc[p] = "fsync"
    /\ \/ medium' = cache
       \/ UNCHANGED medium
    /\ Goto(p, "committed")
    /\ UNCHANGED <<cache, world, args, part, base, disk, found, cmp, asked, runs>>

\* A system call of one of the steps above fails, or what it read fails an
\* assertion of a constructor: the process ends.
Fail(p) ==
    /\ pc[p] \in {"start", "open", "list", "search", "path", "compare", "choose",
                  "edit", "write"}
    /\ Goto(p, "failed")
    /\ UNCHANGED <<tables, world, args, part, base, disk, found, cmp, asked, runs>>

\* The user starts the program once more.
RunAgain(p) ==
    /\ pc[p] \in Ended
    /\ runs[p] < MaxRuns
    /\ runs' = [runs EXCEPT ![p] = @ + 1]
    /\ \E m \in Modes, n \in Parts :
           /\ mode' = [mode EXCEPT ![p] = m]
           /\ part' = [part EXCEPT ![p] = n]
    /\ base' = [base EXCEPT ![p] = NoMbr]
    /\ disk' = [disk EXCEPT ![p] = NoMbr]
    /\ fat1' = [fat1 EXCEPT ![p] = NoFat]
    /\ ent' = [ent EXCEPT ![p] = [name |-> file[p], begin |-> 0, size |-> 0]]
    /\ total' = [total EXCEPT ![p] = 0]
    /\ blk' = [blk EXCEPT ![p] = 0]
    /\ asked' = [asked EXCEPT ![p] = FALSE]
    /\ Goto(p, "start")
    /\ UNCHANGED <<tables, world, file>>

\* The user kills the program: the only way out of a walk that never ends.
Interrupt(p) ==
    /\ pc[p] \notin Ended
    /\ Goto(p, "dead")
    /\ UNCHANGED <<tables, world, args, part, base, disk, found, cmp, asked, runs>>

-----------------------------------------------------------------------------
(* The rest of the machine. *)

\* The kernel writes the table to the medium when it sees fit.
WriteBack ==
    /\ medium' = cache
    /\ UNCHANGED <<cache, world, args, part, base, disk, found, cmp, asked, runs, pc>>

\* Power is lost, or the stick is pulled out while the program runs: what
\* only the cache held is gone, and so are the processes.
PowerLoss ==
    /\ cache' = medium
    /\ pc' = [p \in Procs |-> IF pc[p] \in Ended THEN pc[p] ELSE "dead"]
    /\ asked' = [p \in Procs |-> FALSE]
    /\ UNCHANGED <<medium, world, args, part, base, disk, found, cmp, runs>>

\* The file system, which stays mounted, changes the volume.
ChangeVolume ==
    /\ moves < MaxMoves
    /\ moves' = moves + 1
    /\ vol' \in Volumes
    /\ UNCHANGED <<tables, args, part, base, disk, found, cmp, asked, runs, pc>>

\* What the program does without its user.
Work(p) ==
    \/ ReadMbr(p)
    \/ OpenVolume(p)
    \/ List(p)
    \/ FindFile(p)
    \/ Nchain(p)
    \/ OpenPath(p)
    \/ Compare(p)
    \/ Choose(p)
    \/ Edit(p)
    \/ Write(p)
    \/ Fsync(p)

Step(p) == Work(p) \/ Fail(p)

User(p) == AnswerBusy(p) \/ AnswerCommit(p) \/ RunAgain(p) \/ Interrupt(p)

Next ==
    \/ \E p \in Procs : Step(p) \/ User(p)
    \/ WriteBack
    \/ PowerLoss
    \/ ChangeVolume

Spec == Init /\ [][Next]_vars

\* A process that is not waiting for its user is scheduled, and cannot count
\* on a failure to end it; nobody makes the user answer, and the file system
\* and the kernel owe nothing.
Fairness == \A p \in Procs : WF_vars(Work(p))

FairSpec == Spec /\ Fairness

-----------------------------------------------------------------------------
(* Properties. *)

PCs == Ended \union Prompts \union
    {"start", "open", "list", "search", "nchain", "path", "compare", "choose",
     "edit", "write", "fsync", "spin"}

TypeOK ==
    /\ {cache, medium} \subseteq Mbr
    /\ vol \in Volumes
    /\ moves \in 0 .. MaxMoves
    /\ file \in [Procs -> Files]
    /\ mode \in [Procs -> Modes]
    /\ part \in [Procs -> 0 .. 9]
    /\ base \in [Procs -> Mbr]
    /\ disk \in [Procs -> Mbr]
    /\ fat1 \in [Procs -> FatTable]
    /\ ent \in [Procs -> DirEntry]
    /\ total \in [Procs -> 0 .. CheckBytes]
    /\ blk \in [Procs -> Nat]
    /\ asked \in [Procs -> BOOLEAN]
    /\ runs \in [Procs -> 0 .. MaxRuns]
    /\ pc \in [Procs -> PCs]

\* The entry of the volume the file lives on is never changed, neither in
\* the cache nor on the medium, by any number of processes with old copies
\* of the table, whatever options they have and wherever power is lost.
HostKept == [][cache'[0] = cache[0] /\ medium'[0] = medium[0]]_vars

\* Where the clusters of the volume lie on the disk: the first data cluster
\* is number 2.
FirstSector(c) == VolStart + FirstData + (c - 2) * SecPerClus

ClusterAt(s) == 2 + (s - VolStart - FirstData) \div SecPerClus

\* The table a process offers to write differs from the one it read in one
\* entry, which begins at the first sector of a chain that was a single run
\* of clusters when the process read the FAT.
EditedEntry ==
    \A p \in Procs : Edited(p) =>
        /\ part[p] \in 1 .. 3
        /\ \A s \in Slot \ {part[p]} : disk[p][s] = base[p][s]
        /\ Startable(ent[p].begin)
        /\ OneExtent(fat1[p], ent[p].begin)
        /\ disk[p][part[p]].type = LinuxType
        /\ disk[p][part[p]].begin = FirstSector(ent[p].begin)

\* The entries in use that a write of the table replaces.
Overwritten == {s \in Slot : ~isfree(cache[s]) /\ cache'[s] # cache[s]}

\* Nothing in use is replaced without the user's yes (file2disk.cpp:228-229).
BusyNeedsYes ==
    [][\A p \in Procs : Write(p) =>
           Overwritten \subseteq {s \in Slot : s = part[p] /\ asked[p]}]_vars

\* With other processes at work, the same holds of a write whose process
\* read the table as it still is; one with an old copy has no such promise.
FreshBusyNeedsYes ==
    [][\A p \in Procs : Write(p) /\ base[p] = cache =>
           Overwritten \subseteq {s \in Slot : s = part[p] /\ asked[p]}]_vars

\* One process keeps the promise of module PartitionTable, run after run.
Table == INSTANCE PartitionTable
         WITH Tables <- Mbrs,
              Linux <- {e \in Entry : e.type = LinuxType},
              asked <- {part[p] : p \in {q \in Procs : asked[q]}}

ImplementsTable == Table!Spec

\* The clusters the new entry covers.
Covered(p) ==
    LET e == disk[p][part[p]]
    IN  {ClusterAt(s) : s \in e.begin .. e.begin + e.size - 1}

\* The new partition is the file (README.md:4): it covers the clusters of the
\* file, no sector of another one, and has room for every byte of the file.
MapsPathFile ==
    \A p \in Procs : Edited(p) =>
        /\ Covered(p) = vol.file[file[p]].own
        /\ disk[p][part[p]].size * SectorBytes >= vol.file[file[p]].size

\* The new partition begins with what the path shows: filecmp() has compared
\* consecutive clusters from the partition's first one, as many as it was
\* asked for or the chain has.
ShowsPathFile ==
    \A p \in Procs : Edited(p) =>
        \A k \in Cluster :
            k * ClusterBytes < total[p] /\ InChain(p, k) =>
                vol.data[ent[p].begin + k] = vol.file[file[p]].page[k]

\* A run that refuses a file as different has seen a difference
\* (file2disk.cpp:213).
DifferOnlyIfDifferent ==
    \A p \in Procs : pc[p] = "differ" =>
        \E k \in 0 .. blk[p] :
            vol.data[ClusterOf(p, k)] # vol.file[file[p]].page[k]

Working(p) == pc[p] \notin Ended \union Prompts

\* On a volume without cyclic chains a run always gets to a question or to
\* its end.
Settles == \A p \in Procs : Working(p) ~> ~Working(p)
=============================================================================
