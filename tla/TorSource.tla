----------------------------- MODULE TorSource -----------------------------
(***************************************************************************)
(* The gstreamer source element of tor.hpp: TorFile with the File and the  *)
(* Torrent in it, driven by GstBaseSrc, which starts, sizes, seeks, pulls  *)
(* buffers in one thread and stops, while a user may set the properties at *)
(* any time.  What a read brings is SwarmRead's subject: here it brings    *)
(* all, a part, or an error.  What a torrent file says is Metainfo's: here *)
(* it is a parameter.                                                      *)
(***************************************************************************)
EXTENDS Torrent

CONSTANTS
    Loaded(_, _),  \* what reading a text makes of a torrent: a Result
    Disks,         \* what may stand at each path: a function to Metafile
    FileNos,       \* the values of the property fileno
    BlockSize,     \* of GstBaseSrc
    Ahead,         \* 3 MB, what a buffer holds at most before it is rounded up
    MaxStarts,     \* bound: starts
    MaxMoves       \* bound: seeks and settings of fileno

\* A text, and what it describes to a reader of the format: the text of its
\* info, whether that is as operator<< would write it, and the files' lengths.
Metafile == [text : Seq(Nat), info : Seq(Nat), plain : BOOLEAN, lengths : Seq(Nat)]

ASSUME TorSourceAssumption ==
    /\ \A disk \in Disks : \A p \in DOMAIN disk : disk[p] \in Metafile
    /\ FileNos \subseteq Nat /\ {BlockSize, Ahead} \subseteq Nat \ {0}
    /\ {MaxStarts, MaxMoves} \subseteq Nat

VARIABLES
    disk,
    location, fileno,  \* the properties path and fileno
    offset,
    tor,      \* f_.tor
    thr,      \* whether f_ has a loop
    base,     \* GstBaseSrc: "null", "ready" between start and stop
    flow,     \* what the last create returned; "waiting" in one that never will;
              \* or "crashed"
    count,    \* bytes of the buffer that create is about to fill, or None
    starts,   \* history: the paths that were started
    moves,    \* history: seeks and settings of fileno
    origin,   \* history: the offset of the last seek
    fixed,    \* history: fileno has not been set since then
    pushed    \* history: the buffers since then

elem == <<location, fileno, offset, tor, thr>>
hist == <<starts, moves, origin, fixed, pushed>>
vars == <<disk, elem, base, flow, count, hist>>

NoBuffer == -1

Init ==
    /\ disk \in Disks
    /\ location \in DOMAIN disk /\ fileno \in FileNos
    /\ offset = 0
    /\ tor = NoTorrent /\ thr = FALSE
    /\ base = "null" /\ flow = "none" /\ count = NoBuffer
    /\ starts = <<>> /\ moves = 0 /\ origin = 0 /\ fixed = TRUE /\ pushed = <<>>

Valid == tor.info_hash # <<>> /\ thr

HasFile == fileno < Len(tor.files)
TheFile == tor.files[fileno + 1]

\* The size GstBaseSrc is told; 0 is told as unknown.
fsize == IF tor.info_hash # <<>> /\ HasFile THEN TheFile.length ELSE 0

totalsize == (tor.info_pieces * tor.pieceLength) % SizeWord

Least(S) == CHOOSE x \in S : \A y \in S : x <= y

Up == flow # "crashed"

\* The thread that pulls is in File::read() and does not come back.
Waiting == flow = "waiting"

----------------------------------------------------------------------------
(* The element's functions.                                                *)

\* The properties, at any time, under a lock that nobody else takes.
SetPath ==
    /\ Up
    /\ \E p \in DOMAIN disk \ {location} : location' = p
    /\ UNCHANGED <<disk, fileno, offset, tor, thr, base, flow, count, hist>>

SetFileno ==
    /\ Up /\ moves < MaxMoves
    /\ \E n \in FileNos \ {fileno} : fileno' = n
    /\ moves' = moves + 1 /\ fixed' = FALSE
    /\ UNCHANGED <<disk, location, offset, tor, thr, base, flow, count,
                   starts, origin, pushed>>

\* A thread for the torrent, unless there is none to read.
FileStart == thr' = (thr \/ tor'.info_hash # <<>>)

\* The loop is ended and joined.
FileStop == thr' = FALSE

\* An exception ends start() early; what readT() did to tor stays.
Start ==
    /\ Up /\ base = "null" /\ Len(starts) < MaxStarts
    /\ LET r == Loaded(disk[location].text, tor) IN
        /\ tor' = r.tor
        /\ IF r.ok THEN FileStart /\ base' = "ready" ELSE UNCHANGED <<thr, base>>
    /\ offset' = 0
    /\ flow' = "none"
    /\ starts' = Append(starts, location)
    /\ origin' = 0 /\ fixed' = TRUE /\ pushed' = <<>>
    /\ UNCHANGED <<disk, location, fileno, count, moves>>

\* The pipeline is set to NULL; the torrent stays.
Stop ==
    /\ Up /\ base = "ready" /\ count = NoBuffer
    /\ FileStop
    /\ base' = "null"
    /\ UNCHANGED <<disk, location, fileno, offset, tor, flow, count, hist>>

\* fsize() of a file the torrent has not dereferences a null pointer.
GetSize ==
    /\ Up /\ base = "ready" /\ count = NoBuffer
    /\ tor.info_hash # <<>> /\ ~HasFile
    /\ flow' = "crashed"
    /\ UNCHANGED <<disk, elem, base, count, hist>>

\* GstBaseSrc seeks within the size it was told.
Seek ==
    /\ Up /\ base = "ready" /\ count = NoBuffer /\ moves < MaxMoves
    /\ fsize > 0
    /\ \E to \in 0..fsize : offset' = to
    /\ moves' = moves + 1
    /\ origin' = offset' /\ fixed' = TRUE /\ pushed' = <<>>
    /\ flow' = "none"
    /\ UNCHANGED <<disk, location, fileno, tor, thr, base, count, starts>>

\* bestsize(): to the end of the piece after Ahead bytes, or after the end of
\* the file or the torrent.
bestsize ==
    LET b == (TheFile.offset + offset) % SizeWord
        e == Least({(b + Ahead) % SizeWord,
                    (TheFile.offset + TheFile.length) % SizeWord, totalsize})
        up == tor.pieceLength * ((e + tor.pieceLength - 1) \div tor.pieceLength)
    IN  IF ~HasFile \/ b >= up THEN BlockSize ELSE up - b

\* create() asks bestsize() and gets a buffer; a piece length of 0 divides.
Create ==
    /\ Up /\ base = "ready" /\ count = NoBuffer
    /\ flow \in {"none", "ok"}
    /\ IF HasFile /\ tor.pieceLength = 0
       THEN flow' = "crashed" /\ UNCHANGED count
       ELSE count' = bestsize /\ UNCHANGED flow
    /\ UNCHANGED <<disk, elem, base, hist>>

\* What File::read() is to bring: up to the end of the file or the torrent.
Begin == (TheFile.offset + offset) % SizeWord
ToRead == (Least({(Begin + count) % SizeWord,
                  (TheFile.offset + TheFile.length) % SizeWord, totalsize})
           + SizeWord - Begin) % SizeWord

\* A range whose end lies before its beginning has no blocks to wait for.
Backward == Begin + ToRead >= SizeWord

Ends(result) ==
    /\ flow' = result /\ count' = NoBuffer
    /\ UNCHANGED <<disk, elem, base, hist>>

\* A wrong variant: the offset moves by what was asked for.
PushAsked(n) ==
    /\ offset' = (offset + count) % SizeWord
    /\ pushed' = Append(pushed, [tag |-> offset, n |-> n, at |-> Begin, room |-> count,
                                 hash |-> tor.info_hash])
    /\ flow' = "ok" /\ count' = NoBuffer
    /\ UNCHANGED <<disk, location, fileno, tor, thr, base, starts, moves, origin, fixed>>

\* A wrong variant: the offset stays.
PushStays(n) ==
    /\ offset' = offset
    /\ pushed' = <<[tag |-> offset, n |-> n, at |-> Begin, room |-> count,
                    hash |-> tor.info_hash]>>
    /\ flow' = "ok" /\ count' = NoBuffer
    /\ UNCHANGED <<disk, location, fileno, tor, thr, base, starts, moves, origin, fixed>>

\* A buffer of n bytes.
Push(n) ==
    /\ offset' = (offset + n) % SizeWord
    /\ pushed' = Append(pushed, [tag |-> offset, n |-> n, at |-> Begin, room |-> count,
                                 hash |-> tor.info_hash])
    /\ flow' = "ok" /\ count' = NoBuffer
    /\ UNCHANGED <<disk, location, fileno, tor, thr, base, starts, moves, origin, fixed>>

\* File::read() stays in its wait for good: there is no timeout, and the only
\* peer, the one of the constructor, was refused or says nothing.
StayOut ==
    /\ flow' = "waiting"
    /\ UNCHANGED <<disk, elem, base, count, hist>>

\* A wrong variant: a read that brought nothing ends the stream.
FillOrEnd ==
    /\ Up /\ count # NoBuffer /\ ~Waiting
    /\ IF ~Valid \/ ~HasFile THEN Ends("error")
       ELSE IF Backward THEN Push(ToRead)
       ELSE \/ Ends("eos")
            \/ \E n \in 1..ToRead : Push(n)
            \/ StayOut

\* f_.read() into the buffer: an error, the end, all of it, as much as came
\* without a gap before the peers gave up, or no return.
Fill ==
    /\ Up /\ count # NoBuffer /\ ~Waiting
    /\ IF ~Valid \/ ~HasFile THEN Ends("error")
       ELSE IF ToRead = 0 THEN Ends("eos")
       ELSE IF Backward THEN Push(ToRead)
       ELSE \/ Ends("error")
            \/ \E n \in 1..ToRead : Push(n)
            \/ StayOut

\* The player's bus watch leaves the main loop at either message, after which
\* the player sets the pipeline to NULL.
Quit == flow \in {"eos", "error"} /\ Stop

\* The user may have enough before.
Leave == flow \notin {"eos", "error"} /\ Stop

Next ==
    \/ SetPath \/ SetFileno \/ Start \/ Seek \/ GetSize
    \/ Create \/ Fill \/ Quit \/ Leave

\* GstBaseSrc's task pulls until it is told to end, and the main loop runs.  A
\* fair Fill may still be one that stays out.
Spec == Init /\ [][Next]_vars /\ WF_vars(Create \/ Fill) /\ WF_vars(Quit)

----------------------------------------------------------------------------
(* Properties.                                                             *)

\* The metainfo has pieces for all its files, as a usable torrent does.
Covered == HasFile => TheFile.offset + TheFile.length <= totalsize

\* Since a seek the element pushes the file from there on, byte after byte:
\* each buffer is tagged with its own offset, begins where the last one ended,
\* and fits the memory it was given, however little each read brings
\* (tor.hpp:1182-1229, 1002-1017).
PushesInOrder ==
    fixed /\ Covered =>
        \A k \in 1..Len(pushed) :
            /\ pushed[k].n \in 1..pushed[k].room
            /\ pushed[k].tag = IF k = 1 THEN origin
                               ELSE pushed[k - 1].tag + pushed[k - 1].n

\* The end of the stream is the end of the file: all from the seek on has been
\* pushed, and a swarm that brings nothing is an error, not an end.
EosAfterAll ==
    flow = "eos" /\ fixed /\ Covered /\ base = "ready" =>
        IF pushed = <<>> THEN origin = TheFile.length
        ELSE pushed[Len(pushed)].tag + pushed[Len(pushed)].n = TheFile.length

\* Where the files lie, as they are described: each behind the one before it.
Places(m) ==
    LET at[no \in 0..Len(m.lengths)] ==
            IF no = 0 THEN 0 ELSE at[no - 1] + m.lengths[no]
    IN  at

\* What is pushed comes from the torrent at the path and from the file fileno
\* in it, also when the element was stopped and started again, or a start
\* failed.  (Started with one path and then with another, it asks the second
\* torrent for the places of the first one's files.)
ServesPath ==
    LET m == disk[location]
    IN  m.plain /\ fixed /\ (\A k \in 1..Len(starts) : starts[k] = location) =>
            \A k \in 1..Len(pushed) :
                /\ pushed[k].hash = m.info
                /\ fileno < Len(m.lengths) =>
                    pushed[k].at = Places(m)[fileno] + pushed[k].tag

\* The hash by which peers know the torrent is that of the bytes of info in
\* the file, although it is computed from what the parser made of them: for a
\* file that is written as operator<< would, with keys this code knows or not
\* (tor.hpp:609-776).
HashesFile ==
    base = "ready" =>
        (disk[starts[Len(starts)]].plain =>
             tor.info_hash = disk[starts[Len(starts)]].info)

\* What is played comes to its end and is stopped, if not by the user then for
\* an end or an error, whatever fileno is set to meanwhile; unless a read stays
\* out for good, which nothing in the code prevents (tor.hpp:1122, 1147).  So
\* the element never pulls and pushes without end by its own doing
\* (tor.hpp:1098-1128, 1190-1229, 1421-1467).
StreamEnds == base = "ready" ~> (base = "null" \/ flow = "crashed" \/ Waiting)
=============================================================================
