# Verification of file2disk

file2disk makes a file on a FAT32 flash disk appear as a partition: it finds
the clusters of the file, checks that they are one run, and writes an entry
that points at them into the partition table (MBR) of the disk. The repository
also holds the author's support headers, among them a poll loop and a reader
of files from a torrent swarm. Paths below are relative to the repository
(`src/` here is the repository's `src/`).

## 1. Inventory

| part | state | operations | what makes it correct |
|---|---|---|---|
| FAT reader, `src/fd.h` `DosFd` | copy of the FAT (`fat1`, `nfat1`), boot sector | `travel`, `chain`, `nchain`, `readFile`, `preadFile`, `readRoot`, `findFile`, `sector` | a walk visits the chain, all of it, and ends; `nchain()==1` means one extent; a positioned read returns the bytes of the file |
| the command, `src/file2disk.cpp` | copy of the MBR (`b.disk`), options, found entry | read, find, compare, choose, two prompts, write, fsync, print | the host entry stays; one entry changes, after a yes if it was in use; it covers the file |
| MBR and geometry, `src/fs.h` | none | `isfree`, `Geometry`, `sc`, `s0..c1` | encoding and decoding agree |
| poll loop, `src/include/io.h` `TSocket` | `fds` under `mutex`, wake-up pipe, `done`, a thread | `add`, `remove`, `count`, `unpoll`, `close`, `runonce`, `run` | an added descriptor is polled, a removed one is not called any more, the destructor ends the thread |
| torrent read, `src/include/tor.hpp` `Request`, `File`, `Block` | request list, peers, their input buffers, a condition variable | `alloc`, `send`, `recv`, handler, `read` | each byte of the buffer comes from its block; `read` ends |
| messages, `Msg` | input buffer | `unpack`, `str` | the result does not depend on how the stream is cut |
| bencode, `Value`, `Torrent` | the torrent, filled as it is read | `read*`, `operator<<`, `readT` | the files lie one behind the other; the hash is that of `info` in the file |
| gstreamer element, `TorFile` | path, fileno, offset, the torrent and its loop | start, stop, size, seek, `create` | what is pushed is the file, byte after byte, to its end |
| strings and options, `str.h`, `opt.h` | none / option table | `split`, `replace`, numbers, parse | against reference definitions |
| logging, GUI, tables | - | - | not part of the logic |

How they interact: the command calls the FAT reader and the MBR structure, and
shares the disk with the kernel (buffer cache), with the mounted file system
that owns the file, with other programs that write the table, and with the
user. The torrent read runs in its caller's thread and waits on a condition
variable; its handlers run on the poll loop's thread, which other threads
reach through `add`, `remove` and the pipe.

What is hard: the command works on copies (table, FAT) of things that change
under it, waits for its user between reading and writing, checks one thing and
uses another (the chain and the size, the base name and the path), and can
lose power between write and disk. The chain walk must end on tables nobody
vouches for. The poll loop and the torrent read have the usual hazards of
threads: stale copies, early and lost signals, waits without a timeout.
`PROJECT.json` lists each hazard at its line.

## 2. Modules

| module | models | role |
|---|---|---|
| `FatVolume` | what a FAT word says, the chain of a cluster, extents | operators on one table, used by all others |
| `Travel` | `DosFd::travel` with the visitors of `chain()` and `nchain()` | the loop, one iteration per step |
| `TravelProofs` | | proofs about `Travel` and `FileRead` |
| `PartitionTable` | what a user of the program is promised about the table | abstract specification |
| `File2Disk` | `file2disk()`, `filecmp`, `ask`, `print`, the constructors, and what they see of `findFile`, `readRoot` and `preadFile` | the detailed specification |
| `File2DiskProofs` | | proofs about `File2Disk`, with the refinement |
| `PollLoop` | `TSocket`: the loop's thread, threads that add sockets, the destructor, the pipe | one component, three kinds of threads |
| `PollLoopProofs` | | proofs about `PollLoop` |
| `FileRead` | `readFile`, `preadFile` | operators on one table, checked along with `Travel` |
| `BlockRequest` | the range of `File::read`, `Request`'s constructor, the search of `Request::recv` | the loop, one block per step |
| `BlockRequestProofs` | | proofs about `BlockRequest` |
| `Messages` | the peers' messages: `str()` of each, `Msg::unpack` | operators on sequences of bytes |
| `PieceStream` | the handler on one connection, byte by byte, with `Request::send` and `recv` | composes `BlockRequest` and `Messages` |
| `PieceStreamProofs` | | proofs about `PieceStream` and `Messages` |
| `SwarmRead` | `File::read`, `File::operator()`, `Block`, the rest of `Request` | reader, loop's thread and peers |
| `SwarmReadProofs` | | proofs about `SwarmRead` |
| `Torrent` | `struct Torrent` | what `Metainfo` fills and `TorSource` uses |
| `Metainfo` | bencode, `Torrent::readT` | recursive operators |
| `TorSource` | `TorFile`, `File::bestsize`, the element's functions, the player's bus watch | the element; the reading of a torrent file is its parameter `Loaded` |
| `TorSourceProofs` | | proofs about `TorSource` |
| `Induction` | | induction and recursion over numbers, for the proofs |
| `MCTravel`, `MCFile2Disk`, `MCPollLoop`, `MCPieceStream`, `MCSwarmRead`, `MCTorSource` | | instances for TLC |

Next to some definitions stands a wrong variant, named as such: a plausible
mistake in that place. It is not part of the specification; put in place of
the definition it makes a property fail, which shows what that property is
sensitive to (`PROJECT.json`, "mutants").

### FatVolume and Travel

`fat[c]` is `fat1[c]`. A word is a link to another cluster (`Linked`), an end
mark (`Last`, 0x0FFFFFF8 and above), or neither (`Broken`: the cluster itself,
or a number outside the table). `ChainOf` is the least set closed under links,
the reference for what `chain()` should return; `OneExtent` the reference for
`nchain()==1`. `TravelEnd` says how a walk goes: `done`, `failed`, or `spin`
for a cycle of two clusters or more, which the code does not detect. `NthCluster`
is the cluster a positioned read finds at a block, used by `File2Disk` for the
reads of `filecmp`.

`Travel` has the loop's variables (`pos` is its `start`), the two visitors'
results (`seen`, `frags`) and a control state. `stops` is the set of clusters at
which a visitor returns false. `frags` is capped at 2 because callers only
compare it with 1.

### FileRead

`preadFile` reads the part of a file by two walks: the first goes to the cluster
of the offset and takes the part that is in it (`FirstPart`), the second reads on
from the word behind it (`Rest`). A result is bytes or a failed assertion; a byte
is its cluster and its place in it. `ReadsPart` compares it with `readFile` on
chains that end, `ReadsAlong` says what holds on any table.

### File2Disk

A process is a control state `pc` with the program's data: options (`mode`,
`part`), `disk` (its MBR copy, edited in place), `base` (that copy as read; kept
for the properties), `fat1`, the found entry `ent`, `filecmp`'s `total` and
`blk`, and whether the user agreed to lose a busy entry (`asked`). `cache` and
`medium` are the MBR in the kernel's buffer cache and on the disk. `vol` is the
volume: FAT, root directory by cluster with the cluster of its end marker, data
by cluster, and per file what its path yields (content by block, size, clusters).

One action per access to something shared:

| action | code |
|---|---|
| `ReadMbr`, `OpenVolume` | `DskFd b`, the check of entry 0, `DosFd a` (copy of the FAT) |
| `List` | mode 0: `print` and return |
| `FindFile`, `Nchain` | `findFile` (one match in the root directory), `nchain`, its assertion |
| `OpenPath`, `Compare` | `filecmp`, one block of `clusterSize()` per step |
| `Choose`, `AnswerBusy` | the entry to use, "Continue[Ny]?" |
| `Edit`, `AnswerCommit` | the new entry, the second `print`, "Commit changes[Ny]?" |
| `Write`, `Fsync` | `write` into the cache; `fsync`, which may fail unnoticed |
| `Fail`, `Interrupt`, `RunAgain` | `pexit`/`passert`, the user's Ctrl-C, the next run |
| `WriteBack`, `PowerLoss`, `ChangeVolume` | kernel, machine and mounted file system |

`print` and `findFile` walk chains of the copied FAT, so they may fail or never return;
the control state `spin` is the latter. A directory cluster without an end marker is
read beyond the buffer it is in (`fd.h:187`); `RootViews` are the outcomes: the reading
ends there or goes on with the next cluster (`Fail` is a crash). What lies on the stack
is taken not to look like the file's entry. Contents are numbers, names members of a
set; cylinder/head/sector fields are zero in the code and left out, and so is the boot
code in the MBR, which travels with the table.

`PartitionTable` has the two tables and the set of entries the user gave up; an
entry other than the first may be assigned when it is free or given up, one at
a time. The refinement maps `asked` to the entries of the processes that got a
yes.

### PollLoop

A descriptor number stands for what it was opened for, and numbers are used
again: `gen[fd]` counts the opens, and the table `fds` and its copy `ee` hold the
count under which a number was registered, so that "the handler of another
socket" can be said. `event` is what has arrived at a socket, `pipe` the bytes in
the pipe. What is under the mutex is one step (`Snapshot` of the table, `Add`,
`Remove`, `Clean`); `poll()`, each handler, the look at `wfd`, the write and the
close are steps of their own.

| action | code |
|---|---|
| `Snapshot`, `Poll`, `Interrupted` | the copy under the mutex, `poll()` on it, EINTR |
| `Handle`, `Remove`, `Unpoll`, `LoopWrites`, `Close` | one number of the round: read, handler, and when it is finished `remove()`, the wake-up, `::close` |
| `RoundOver`, `Clean` | `run()`'s loop, its end |
| `Connect`, `Add`, `ClientUnpoll`, `ClientWrites` | a client's `connect()` and `add3()` |
| `Destroy`, `Unset`, `Join` | `close()` and the join in the destructor |
| `Arrive` | the network |

A write to the pipe blocks while it is full (`PipeCap`), and kills the process
(`killed`, SIGPIPE) when the loop has closed the other end. `remove()` is called by
the loop alone, as in the repository. The destructor is called when no client is
in a call: anything else is a use after destruction.

### BlockRequest and SwarmRead

`BlockRequest` computes with the width of `size_t` (`% Word`). `ReadRange` is the code
before the constructor, `Cut` one turn of its loop, `Found` the search for the block
of a message: the first that fits, unless the search has given up before.

`PieceStream` follows some of those reads over one connection. The peer says a
handshake and then messages from a small set, among them ones `unpack` does not
know, blocks twice, and blocks before or after anything else; `wire` is what has
not arrived, `input` what is not a whole message yet, `buf` the reader's memory.
`Arrive` is the whole handler: it appends what has come, unpacks it, and handles
every complete message. Bytes of the torrent are numbers that tell positions apart.

`SwarmRead` has blocks of one size and whole messages. `got` is the blocks with
their status set, `owner` the peer `alloc()` gave each to, `status` the condition
variable's word. The reader (`rpc`) is at one point of `File::read`; the loop's
thread (`hpc`) is between sockets, in the handler, about to signal, or about to
close. `conn` is the part of `TSocket`'s table that belongs to this read, and of
the sockets that are not in it yet; `PollLoop` shows that the table can be relied
on (nobody is refused, the handler is the socket's own).

| action | code |
|---|---|
| `Round`, `Alloc`, `DoneSize`, `Clear` | the head of the loop, `free()`, `alloc()` per peer, `n1`, `wait.status = 0` |
| `Skip`, `Refuse`, `Connect`, `Add` | the loop over the peers |
| `Wait` | `wait.wait()`, `n2`, the count of attempts |
| `Take`, `Message`, `Decide`, `Signal`, `Close` | `runonce()` calls the handler: its messages, `count2`, `signal`, the close |
| `Say`, `HangUp` | the peer |

`Take` reads the socket and `Message` handles one message at a time: the reader can
run in between. `swarm.quick` says whether a socket may be handled while the reader
is still connecting; `swarm` is chosen at the start and stays.

### Metainfo and TorSource

`Metainfo` parses sequences of characters as `read()` does: numbers with their sign
anywhere and the width of an int, strings, lists, dictionaries of which the last
value of a key counts, `e` as the default value. `Write` is `operator<<`, which sorts
the keys. `readT` fills a torrent in the order of the code, so that its result at
an exception is what had been filled; it appends to a torrent that was read
before. The hash is the text it is computed of (SHA-1 does not collide here).

`TorSource` does not extend `Metainfo`: its constant `Loaded` says what reading a
text makes of a torrent, and `MCTorSource`, which has both, gives it `readT`. So the
runs are about the parser of the code, and the proofs about any.

`TorSource` is the element between `start` and `stop`, called by one thread of
GstBaseSrc while the user sets the properties.

| action | code |
|---|---|
| `SetPath`, `SetFileno` | `gst_torsrc_set_property` |
| `Start`, `Stop` | `TorFile::start` with `openT` and `File::start`, `TorFile::stop` |
| `GetSize`, `Seek` | `fsize` with a fileno the torrent has not; `do_seek` |
| `Create`, `Fill` | `create`: the size of the buffer, then `File::read` and what becomes of it |
| `Quit`, `Leave` | the bus watch and the end of `torsrc_play`; a user who stops before |

`Fill` takes from `SwarmRead` what a read can bring: everything, a part from the
first byte on, nothing, or that it does not return: `StayOut`, with `Waiting` from
then on. The element has one peer (`tor.hpp:1147`); when that is refused or says
nothing, `File::read` waits at `tor.hpp:1122` without a timeout, and the user cannot
stop the element either, as that joins the thread. A buffer of a range whose end lies before its begin
(the offset is behind the file) is what the code makes of it: a success with the
wrapped length, which takes the offset back to the end.

## 3. Runs

| run | question | result |
|---|---|---|
| `travel` | all tables of 5 words over {cluster, bad, end}, starts around each bound, a visitor that stops or not | `NchainOneIffExtent`, `SeesWholeChain`, `OutcomeMatchesShape`; `ReturnsUnlessCyclic` under weak fairness; `PositionedReads` for every offset and count up to two clusters and a byte |
| `f2d_one` | one user, two runs, every option, healthy and corrupt volumes, one change of the volume, power losses | `EditedEntry`, `BusyNeedsYes`, and the refinement `ImplementsTable` |
| `f2d_quiet` | a volume nobody changes, two runs | `MapsPathFile`, `ShowsPathFile`, `Settles` |
| `f2d_two` | two processes, one change of the volume, power losses | `HostKept`, `EditedEntry`, `FreshBusyNeedsYes` |
| `f2d_lookalike` | is the mapped file the one named? | no: namesake with the same first 3000 bytes (violation) |
| `f2d_small` | is a file refused as different really different? | no: a file shorter than its cluster (violation) |
| `poll` | one client, two socket numbers opened up to three times, signal and destructor at any point | `OwnHandler`, `NeverRefused`, `KilledOnlyByInterrupt`, `ClosedAtEnd`, `NeverFull` |
| `poll_live` | two clients at once, each number opened once | `Served`, `Joins` under fairness |
| `blocks` | all reads of files up to 7 bytes in torrents up to 16, pieces up to 4, blocks up to 5; two of them over a connection with up to five messages cut anywhere | `BlocksAreRange`, `BlocksFitPieces`, `RecvFinds`, `ReportsFilePart`, `CutsEnd`; `HeardAsTold`, `BufferIsRange` |
| `swarm` | one quick peer, or two slow ones, that repeat, delay, stop and refuse | `NoLateUse`, `WaitsForSomeone`, `WholeOrPrefix`, `Returns` |
| `swarm_lost` | does the reader always wait for someone, with two quick peers? | no: a signal is erased (violation) |
| `source` | whole and broken torrent files, two starts, two seeks or changes of fileno, reads that bring little, all or nothing, or stay out | `PushesInOrder`, `EosAfterAll`, `ServesPath`, `HashesFile`; `StreamEnds` under fairness: an end, or a read that stays out |

Deadlock is not checked: programs, loop and read end, and TLC would report the end.

### What the runs say against the code

- `f2d_lookalike`, `f2d_small`, `swarm_lost`: see "findings" in `PROJECT.json`.
- Two processes that both found an entry free: the second replaces what the first
  wrote without a question. `FreshBusyNeedsYes` is what is left: a process whose copy
  of the table is current never does that. `BusyNeedsYes` fails for two processes.
- The length of the partition is not compared with the chain: on a FAT that lacks
  the end of the chain (`ShortChain`) the new entry covers more than was checked.
  `MapsPathFile` holds on consistent volumes only.
- A failed `fsync` is reported as a commit.
- `File::read` with every peer refused waits for good. `WaitsForSomeone` says that this
  is the only way to wait for nobody when peers are slower than the connecting, or
  when there is just one. For the element, whose peer is just one, it is the way in
  which what is played comes to no end: `StreamEnds` says that there is no other.
- `File::read` behind the end of a file (`off > length`) returns 0 with a wrapped
  length and no bytes; the comment says EOF (`tor.hpp:1095`). Only the offset just at
  the end gives EOF.
- With two quick peers a handler can also come after the read has returned:
  `NoLateUse` fails in the instance of `swarm_lost`. It holds for one peer, and when no
  socket ends while others are still being connected.
- A signal that interrupts `poll()` ends the loop for good; the next wake-up is a
  SIGPIPE (`KilledOnlyByInterrupt` says that nothing else does that).
- `preadFile`: a cluster linked to itself is noticed by neither walk when the link
  leads from the first to the second (it is read twice, `ReadsAlong`); a chain
  through the reserved words breaks off there; a word 0 gives a short answer
  without an error. A count used up at the end of a cluster reads the next one in vain.
- `readRoot` misses entries behind the first full cluster of the directory, unless
  it is lucky: the program then does not find the file, and changes nothing.
- An element started on one torrent and then on another has the files of both in
  one list with the hash of the second: fileno 0 is the first torrent's file, asked
  of the second torrent's peers. Started twice on one torrent it also has files
  beyond those of the torrent. `ServesPath` says what is left.
- `HashesFile` holds for files whose `info` is written with sorted keys and plain
  numbers, with whatever keys. For others (`unsorted`, `zeros`) the hash is wrong, and
  peers do not know the torrent; nothing reports it.
- A fileno the torrent does not have crashes the element when its size is asked
  for (`GetSize`), a piece length of 0 when the size of a buffer is computed
  (`Create`). A length of 2 GB or more wraps in the parser.
- `File::start` has no `return` at its end and its result is used nowhere.
- A message with an unknown identifier has the type of `Port` (`tor.hpp:272`), which
  the handler ignores as well.

### Bounds

Five FAT words allow every shape that matters to `travel`: runs, breaks
forwards and backwards, self-links, longer cycles, bad words, chains through the
reserved words. The volumes of `MCFile2Disk` have eight words, one directory
cluster or two, a file of up to three clusters and a small one; a cluster is two
sectors of two bytes and the compared prefix one and a half clusters, so that
`filecmp` takes two rounds and leaves a cluster unread. `MaxMoves` bounds changes
of the volume, `MaxRuns` repeated runs; one change is enough to fall between any
two reads, two runs are enough to find the first run's entry.

`PollLoop`: the pipe's number lies between the two socket numbers, so that a round
handles one socket before it empties the pipe and one after. `MaxGen` bounds how
often a number is opened: three opens make more wake-ups than `NeverFull` allows for
(two per open and number), so a loop that does not empty its pipe fills it; the
capacity is 11, one or two bytes more than that. Real pipes
hold 65536 bytes. `NeverFull`'s bound grows with the numbers in use, so with more
than about 16000 sockets at once the promise ends. That two clients race for
numbers that are opened again is left to the proofs, which hold for any number of
clients: TLC needs millions of states for it.

`BlockRequest`: `Word` is 64 instead of 2^64; every sum stays below it except the
difference that wraps in the code. Piece, block and offset sizes include every
order of size among them.

`FileRead`: clusters of two bytes, so that a range can begin and end within or at
the end of each. `PieceStream`: a read of blocks of a whole piece and of a part, and
one that begins inside a piece; five messages, which is enough for the handshake, the
unchoke, every block and one more; up to 40 bytes sent ahead, so that several
messages arrive at once. Bytes arrive by 1, 4, 17 or all that there are: within a
length, just behind one, and in the middle of what follows.

`TorSource`: a word of int is 64 and of `size_t` 1024, above every length in the
torrents. Three files in three pieces, the last one reached by fileno 2; one file;
files that the pieces do not cover, an empty one; a piece length of 0; and one
broken file for each exception of the parser and of `readT`. A hash has two characters, buffers
are up to two pieces.

`SwarmRead`: three blocks, of which a peer is given two at a time, so that a read
takes more than one round; four names of sockets; `MaxSays` messages per connection,
one more than a peer needs for its blocks, so that answers repeat.

### Fairness

`Travel`, `BlockRequest` and each process of `File2Disk` get weak fairness of their own
steps: the code is sequential and never waits except for its user. The user, the
kernel's write-back and the file system get none. `TorSource` gets weak fairness of the
thread that pulls and of the player's loop, which run; that is not the promise that a
read returns. `File::read` may wait for good, so one way for the fair `Fill` to happen
is `StayOut`, after which the thread does nothing more, and `StreamEnds` names that
outcome beside the end and the crash. In `PollLoop` the loop's thread, clients inside a call and the
destructor go on; sockets, signals and the owner of the loop need not do anything; the
mutex is assumed not to starve anyone (it is held for a few instructions). In
`SwarmRead` both threads go on, and every connection ends some day, by an answer or a
hang-up, which is the network's part and not in the code: a peer that stays connected
and silent blocks the read for good, for there is no timeout. What peers send, and
whether they do, is theirs.

## 4. Proofs

All for any value of the constants that fits the named assumptions: any table
size, tables, volumes and options, any number of processes, sockets, clients,
peers, blocks and messages, any file, range, piece length and torrent. Where a
theorem needs more than that, its `ASSUME` says what, and below why.

`Induction`. The library's induction theorems take an operator as a parameter and
cannot be cited. `AllNaturals` says the same of a set that holds 0 and with each
number the next, and follows from the library's theorem that inclusion of finite sets
is well-founded; a formula is put in by way of the set of numbers it holds for.
`LeastNumber` and `Repetition` (repeating a step defines a function on all numbers)
follow from it, and give `NthCluster`, which is defined by recursion, its value.
`Stepwise` does the same for a recursion whose steps differ and that has an end, such as
that of `Arrive` over the messages that came, and `Descent` for one that goes down by more
than one. The rest is about parts and joins of sequences.

`TravelProofs`. Neither `nchain`'s nor `chain`'s property is inductive: that a walk
is done says nothing of where it has been. The invariant `IInv` adds `Trail` (what
was seen is linked, belongs to the chain and leads to `pos`) and `Breaks` (no break
so far means the run `first..pos-1`; a break means no single extent). `Trail` makes
`seen` with the last cluster a closed set, hence the whole chain, by the least
fixed point lemmas. Theorems: `TypeCorrect`, `NchainCorrect`, `ChainCorrect`,
`OutcomeCorrect`. Assumption: cluster numbers lie below the end marks
(`FatAssumption`).

What `FileRead` defines by recursion is shown to exist first (`Descent` for the two
walks of `preadFile`, which count down; for `readFile`, which follows the table and may
meet a cycle, by cutting the walk off after each number of clusters). Its values are
stated with `Slice`, the bytes of a chain by number. By induction over the count the
second walk gives such a slice or fails, and by induction over the offset the first one
finds where it begins; that is `ReadsAlong`, for any table. `ProperEnds` finds the last
cluster of a chain that ends, and by induction over the clusters before it `readFile` is
the slice of the whole chain and a positioned read a part of it. `ReadsAreParts` states
both for any offset and count, `ReadsCorrect` is `PositionedReads`.

`File2DiskProofs`. `IInv` says, per control state, what a process knows (`Knows`):
its copy has the host entry, the chain was checked, the target is 1..3, the entry
was free or given up, and the edited table is the read one but for one entry. It
is about the process's own copies, so other processes cannot disturb it, except
for the host entry; that no step changes the host entry is proved along with it.
Theorems: `TypeCorrect`, `EditCorrect`, `HostIsKept`, `FreshWriteIsSafe`. With one
process, `Fresh` (the copy is the table) is invariant too and gives
`AloneWriteIsSafe` and the refinement `AloneImplementsTable`. Assumption
`File2DiskAssumption`: the types of the parameters, and that the volume's sectors
fit the 32-bit fields of an entry.

What the new partition shows is about a volume that nobody changes while the program
runs, so both theorems assume `MaxMoves = 0` (with a change between any two reads
they are false, and the code cannot know). The invariant `AllRead` is about
`filecmp`'s loop: every block below `blk` was the same on both sides (`Reads`). The
positioned read goes along the chain and the partition along the disk; `RunIsRead`
says, by induction along the chain, that in one extent the n-th cluster is the first
one plus n, and the rest is arithmetic of sectors and bytes. `PartitionShowsFile`
needs nothing of the volume: what was compared is what the partition shows at that
place. `PartitionIsFile` says that the entry is the file of the path, and needs
what the comparison of a prefix cannot see. `Consistent` states it of each volume:
the entry found by the base name is that of the path, and its chain is as long as its
size says. Volumes that are not consistent in this sense are those of `f2d_lookalike`
and `ShortChain`; those of `f2d_quiet` are.

`PollLoopProofs`. `OwnHandler` is about the numbers of the current round, but what keeps
it is the whole life of a number. `IInv` has six parts: what the table has is open and
is what it was registered as (`Registered`); the copy agrees with the table on all
numbers still to look at (`Copied`); the finished number is out of the table before it
is closed (`Finished`); a client between `connect()` and `add()` owns an open number
that is not in the table (`Held`); how the loop's end, `done` and the pipe's ends belong
together (`Ends`); and every open number is a client's, the table's or the pipe's
(`Accounted`). Theorems: `TypeCorrect`, `HandlerIsOwn`, `NoneRefused`,
`OnlyInterruptKills`, `AllClosed`. They use that only the loop removes and closes, which
is how the repository uses the class. `PipeNeverFull` counts what is in the pipe and
what may still come before the round is over (`Coming`): in one round a socket's number
can be removed once and added once after that, a client that has added one is about to
write, and the pipe is emptied in every second round at least, since its read end is
always in the table (`Listed`). That is two bytes for each number in each of two rounds,
and one for each client: the pipe never holds more than four bytes per socket number
and one per client, and one with room for more is never full. The theorem says both. Assumption `PollLoopAssumption`: types, that the pipe's ends are two numbers,
and that numbers and clients are finitely many.

`BlockRequestProofs`. `IInv` says of the loop variable that it is the end of the blocks
so far (`Cursor`, `Chained`), of each block that it begins where the one before it ended,
and that it stays in its piece and within the block size (`PartsOfPieces`). `CutIntoBlocks`,
`BlocksFit` and `SearchFinds` hold for all reads that `BlockRequestAssumption` allows.
`SearchFinds` is where the division matters: positions grow, hence pieces and offsets
in them grow in that order, so that the search cannot have given up before the block.
`ReportsPart` assumes `Sane`: the sums of offset, length and count stay below the
width of `size_t`, and a read that begins in the file begins in the torrent. Without it
the code's sums wrap and the property is false.

`SwarmReadProofs`. `IInv` relates the two threads: where each socket is (`Placed`); that
the handler works and signals only while the reader waits unsignalled, and that from the
signal to the next connection no socket is left to handle (`Turns`); and that a reader
that begins to wait has for each peer with blocks a socket that is still to be handled,
unless it was refused (`Arranged`). Only `Base`, which has the types and the meaning of
the reported length, holds for every swarm, and gives `ReportIsDone`.
`RequestOutlivesHandlers` and `NoSignalLost` assume `NoHurry`: one peer, or sockets that
end only after the reader has connected all. It cannot be left out: `swarm_lost` is the
run in which two quick peers lose a signal.

`PieceStreamProofs`. `unpack` recurses over its input, and what the input is depends on
all the cuts before. The proof goes by places: messages are laid end to end (`Laid`),
and `Places` has where each begins. `CutMessage` says of one message of the protocol, or
a frame that `unpack` does not know, what one turn does with any beginning of a stream
that starts with it: nothing before its last byte is there, and then it is taken off as
a whole. `UnpackStream`, by induction over the messages, is the theorem
`UnpackReturnsMessages`. The invariant `StreamInv` has `OnItsWay` (what was said and not
heard begins in the input and goes on on the wire, and no complete message is left in
the input), `Working` (requests were asked of blocks that exist, pieces are their
answers, and the buffer has the torrent's bytes at the blocks done and nothing
elsewhere) and `Closes` (closed means all blocks done). That the blocks fill the range,
and that `recv` finds each, is what `BlockRequestProofs` gives. Theorems:
`StreamInvariance`, `MessagesAreHeard`, `BufferHasRange`, `StreamCutsBlocks`.

They need `WireAssumption`: what the peer says of itself is speakable (a
message of the protocol, or a frame of any other identifier or length, with a length that
fits 32 bits) and no piece, and the numbers of a piece fit their 32 bits. One length is
excluded: `unpack` tells a handshake by its first bytes, `\023Bit...`, and a frame of 323119476
bytes begins with the same four. That is 323 MB, and a peer answers blocks of 16 KB.

`TorSourceProofs`. `PushesInOrder` and `EosAfterAll` need to know that the sums in
`bestsize()` and `read()` do not wrap. `IInv` has `InFile`: as long as fileno stays, the
offset is the end of what was pushed and lies in the file, and a buffer that is being
filled ends below the width of a `size_t`. The theorems assume `ReadsTorrents` (reading
a text leaves a torrent a torrent: numbers in their ranges, which the parser's widths
guarantee) and are about behaviours in which the torrent stays `Small`: its pieces, one
more and a buffer are below 2^64 bytes. In the run `source` both are so throughout. A
piece length is a 32-bit number, so a torrent beyond that would need 2^32 hashes, and
one start brings at most 2^28 (`tor.hpp:771`).

`PathIsServed` gives `ServesPath`, for any parser that does with a well-formed text what
the text describes (`ReadsDescribed`: its files come behind those that the torrent has,
each at its place, and its hash replaces the old one). `readT` does so with the torrents
of the run `source`, onto an empty torrent and onto each other. The invariant `PInv` says
that a torrent started from one path only begins with its files (`Holds`), that what was
pushed lies in them (`InPlace`), and that the offset is in the file or, when a range ran
backwards because the pieces end before the file, at a place where nothing more is read
(`AtPlace`). Files that the pieces do not cover can lie anywhere, so their ends are
assumed to be below 2^64 too (`Roomy`).

Only model-checked:

- Liveness (`ReturnsUnlessCyclic`, `Settles`, `Served`, `Joins`, `CutsEnd`, `Returns`,
  `StreamEnds`): the prover has neither fairness nor ENABLED.
- `HashesFile`: it is about the parser, whose operators are recursive. Under the
  hypothesis that `ServesPath` is proved from, nothing of it would be left to prove.

## 5. Not modelled

The search for the block device: `finddev` takes any file of `/dev` with the number
of the device, a character device too, and `findDisk` strips digits, which is wrong for
names like `mmcblk0p1`; either way the program opens nothing or finds no signature, and
ends (`Fail`). The layout of the listing with its cylinder, head and sector numbers,
logging, GUI helpers, build files. File2Disk assumes sectors of 512 bytes as the
code does in `sector()` and `read512()`; other sizes pass the constructor's check and
are listed as a hazard. It also assumes that the file lives on the volume of entry 0,
as the code does.

Of `TSocket`: `remove()` and `add1`/`add2` from outside (no caller), and the outcome of
the two data races, `count1`/`count2` on the map and the test of `wfd`. Of the torrent
read: the input buffer that two sockets of a peer share; the sends of the reader on
a socket the loop may have closed; exceptions of `connect()`; replies to keep-alives.
The tracker (`Announce`, `Host`) is used by a test driver only; string helpers and the
option parser by nothing that is modelled. `PROJECT.json` lists each at its line.

What GstBaseSrc and the pipeline do around the element is taken from how the code
uses them: one thread pulls, seeks lie within the size that was told, `stop` comes
after the thread has been joined. GstBaseSrc also ends the stream by itself at that
size, which is the same end.

## 6. Plan

All modules above are written, checked and proved about as section 4 says. What
could come next is a parser of `Metainfo` without recursive operators, to prove
`HashesFile` about, and the parts of section 5 that the hazards without a property name.
