------------------------------ MODULE PollLoop ------------------------------
(***************************************************************************)
(* TSocket (io.h): a thread waits in poll() for the descriptors of a       *)
(* table, calls their handlers and closes the ones that are finished.      *)
(* Other threads put descriptors into the table and wake the loop through  *)
(* a pipe; the destructor closes the pipe's write end and waits for the    *)
(* thread. A descriptor number is used again once it is closed, so what a  *)
(* number stands for is the pair of the number and the count of its opens. *)
(* Sections under the mutex are one step; what is outside of them is not.  *)
(***************************************************************************)
EXTENDS Naturals, FiniteSets

CONSTANTS
    Fds,         \* the descriptor numbers the process may use
    Rfd, Wfd,    \* the ends of the loop's pipe
    Clients,     \* threads that connect a socket and hand it to add()
    PipeCap,     \* the bytes the pipe holds
    MaxGen,      \* bound: how often a number is opened
    MaySignal    \* whether poll() may be interrupted by a signal

ASSUME PollLoopAssumption ==
    /\ Fds \subseteq Nat /\ IsFiniteSet(Fds) /\ IsFiniteSet(Clients)
    /\ Rfd \in Fds /\ Wfd \in Fds /\ Rfd # Wfd
    /\ PipeCap \in Nat \ {0} /\ MaxGen \in Nat
    /\ MaySignal \in BOOLEAN

VARIABLES
    live,        \* the open numbers
    gen,         \* how often a number was opened: what it stands for now
    event,       \* per socket: has it input, has it an error or hang-up
    pipe,        \* bytes in the pipe
    wfd,         \* the member wfd: set, or -1
    fds,         \* the table: per number what was registered, 0 for none
    ee,          \* runonce()'s copy of the table
    revents,     \* what poll() reported
    todo,        \* the numbers runonce() has still to look at
    cur,         \* the number whose handler said it is finished
    done,        \* the member done
    pc,          \* the loop thread
    cfd, cgen,   \* per client: its socket, and what that stood for
    cpc,         \* per client: where it is
    dpc,         \* the destructor
    interrupted, \* history: poll() was interrupted
    killed       \* SIGPIPE ended the process

kernel == <<live, gen, event, pipe>>
loopv  == <<ee, revents, todo, cur, done, pc>>
client == <<cfd, cgen, cpc>>
ghost  == <<interrupted, killed>>
vars   == <<kernel, wfd, fds, loopv, client, dpc, ghost>>

Kinds == {"in", "err"}

\* The pipe's read end is open. (When the loop has ended, its number may be
\* opened again; the number of the write end is used for nothing else.)
PipeRead == Rfd \in live /\ gen[Rfd] = 1

\* What poll() reports of a number: POLLNVAL if it is not open, for the pipe
\* its bytes and its hang-up, for a socket what has arrived.
Ready(fd) ==
    IF fd \notin live THEN {"err"}
    ELSE IF fd = Rfd /\ PipeRead
    THEN {k \in Kinds : \/ k = "in" /\ pipe > 0
                        \/ k = "err" /\ Wfd \notin live}
    ELSE event[fd]

Init ==
    /\ live = {Rfd, Wfd}
    /\ gen = [fd \in Fds |-> IF fd \in {Rfd, Wfd} THEN 1 ELSE 0]
    /\ event = [fd \in Fds |-> {}]
    /\ pipe = 0
    /\ wfd = "set"
    /\ fds = [fd \in Fds |-> IF fd = Rfd THEN 1 ELSE 0]
    /\ ee = [fd \in Fds |-> 0]
    /\ revents = [fd \in Fds |-> {}]
    /\ todo = {}
    /\ cur = Rfd
    /\ done = FALSE
    /\ pc = "top"
    /\ cfd = [c \in Clients |-> Rfd]
    /\ cgen = [c \in Clients |-> 0]
    /\ cpc = [c \in Clients |-> "idle"]
    /\ dpc = "up"
    /\ interrupted = FALSE
    /\ killed = FALSE

----------------------------------------------------------------------------
(* The kernel: the lowest free number is the next one to be opened.        *)

Opens(fd) ==
    /\ fd \in Fds \ live
    /\ \A other \in Fds \ live : fd <= other
    /\ gen[fd] < MaxGen
    /\ live' = live \cup {fd}
    /\ gen' = [gen EXCEPT ![fd] = @ + 1]

\* Something arrives at a socket: data, or its end.
Arrive(fd, kind) ==
    /\ fd \in live
    /\ fd # Wfd /\ ~(fd = Rfd /\ PipeRead)
    /\ kind \notin event[fd]
    /\ event' = [event EXCEPT ![fd] = @ \cup {kind}]
    /\ UNCHANGED <<live, gen, pipe, wfd, fds, loopv, client, dpc, ghost>>

\* A wrong variant: the terminator is written, too.
WriteByteTwo ==
    /\ Wfd \in live /\ PipeRead
    /\ pipe < PipeCap
    /\ pipe' = pipe + 2
    /\ UNCHANGED killed

\* write(wfd,"",1): into the pipe, blocking while it is full; without a
\* reader it is a SIGPIPE, which ends the process; after the destructor's
\* close() it fails (or goes to whatever has the number now).
WriteByte ==
    IF Wfd \in live /\ PipeRead
    THEN /\ pipe < PipeCap
         /\ pipe' = pipe + 1
         /\ UNCHANGED killed
    ELSE /\ killed' = (Wfd \in live)
         /\ UNCHANGED pipe

----------------------------------------------------------------------------
(* The loop thread.                                                        *)

\* runonce() copies the table.
Snapshot ==
    /\ pc = "top"
    /\ ee' = fds
    /\ pc' = "poll"
    /\ UNCHANGED <<kernel, wfd, fds, revents, todo, cur, done, client, dpc, ghost>>

\* poll() returns when one of the copied numbers is ready.
Poll ==
    /\ pc = "poll"
    /\ LET polled == {fd \in Fds : ee[fd] # 0 /\ Ready(fd) # {}} IN
       /\ polled # {}
       /\ todo' = polled
       /\ revents' = [fd \in Fds |-> IF fd \in polled THEN Ready(fd) ELSE {}]
    /\ pc' = "scan"
    /\ UNCHANGED <<kernel, wfd, fds, ee, cur, done, client, dpc, ghost>>

\* poll() returns -1 (EINTR): runonce() returns 1 and run() leaves its loop.
Interrupted ==
    /\ MaySignal
    /\ pc = "poll"
    /\ pc' = "clean"
    /\ interrupted' = TRUE
    /\ UNCHANGED <<kernel, wfd, fds, ee, revents, todo, cur, done, client, dpc,
                   killed>>

\* runonce() takes the numbers in the order of the table.
Takes(fd) == fd \in todo /\ \A other \in todo : fd <= other

\* A wrong variant: onpipe() ends the loop on any event.
HandlePipeEnds(fd, finished) ==
    /\ pc = "scan"
    /\ Takes(fd)
    /\ LET why == revents[fd] IN
       /\ ("err" \in why \/ fd = Rfd) => finished
       /\ done' = (done \/ fd = Rfd)
       /\ event' = [event EXCEPT ![fd] = @ \ {"in"}]
       /\ todo' = todo \ {fd}
       /\ cur' = IF finished THEN fd ELSE cur
    /\ pc' = IF finished THEN "remove" ELSE "scan"
    /\ UNCHANGED <<live, gen, pipe, wfd, fds, ee, revents, client, dpc, ghost>>

\* A wrong variant: recv() is used for the pipe, too, and reads nothing there.
HandlePipeByRecv(fd, finished) ==
    /\ pc = "scan"
    /\ Takes(fd)
    /\ LET why == revents[fd] IN
       /\ "err" \in why => finished
       /\ fd = Rfd => finished = ("err" \in why)
       /\ done' = (done \/ (fd = Rfd /\ finished))
       /\ event' = [event EXCEPT ![fd] = @ \ {"in"}]
       /\ todo' = todo \ {fd}
       /\ cur' = IF finished THEN fd ELSE cur
    /\ pc' = IF finished THEN "remove" ELSE "scan"
    /\ UNCHANGED <<live, gen, pipe, wfd, fds, ee, revents, client, dpc, ghost>>

\* Input is read and the handler of the next number called; "finished" is
\* what it returns. The pipe's handler is onpipe(), which sets done on a
\* hang-up; handlers of sockets are finished on an error, and on input when
\* they say so.
Handle(fd, finished) ==
    /\ pc = "scan"
    /\ Takes(fd)
    /\ LET why == revents[fd]
           onpipe == fd = Rfd /\ ee[fd] = 1
       IN
       /\ "err" \in why => finished
       /\ onpipe => finished = ("err" \in why)
       /\ done' = (done \/ (onpipe /\ finished))
       /\ pipe' = IF fd = Rfd /\ PipeRead /\ "in" \in why THEN 0 ELSE pipe
       /\ event' = [event EXCEPT ![fd] = IF "in" \in why THEN @ \ {"in"} ELSE @]
       /\ todo' = todo \ {fd}
       /\ cur' = IF finished THEN fd ELSE cur
    /\ pc' = IF finished THEN "remove" ELSE "scan"
    /\ UNCHANGED <<live, gen, wfd, fds, ee, revents, client, dpc, ghost>>

\* A wrong variant: the copy of the table is used for another round.
RoundOverSameCopy ==
    /\ pc = "scan"
    /\ todo = {}
    /\ pc' = IF done THEN "clean" ELSE "poll"
    /\ UNCHANGED <<kernel, wfd, fds, ee, revents, todo, cur, done, client, dpc, ghost>>

\* A round is over, its local variables with it: run() looks at done.
RoundOver ==
    /\ pc = "scan"
    /\ todo = {}
    /\ pc' = IF done THEN "clean" ELSE "top"
    /\ ee' = [fd \in Fds |-> 0]
    /\ revents' = [fd \in Fds |-> {}]
    /\ cur' = Rfd
    /\ UNCHANGED <<kernel, wfd, fds, todo, done, client, dpc, ghost>>

\* A wrong variant: a finished number is closed and stays in the table.
RemoveNothing ==
    /\ pc = "remove"
    /\ pc' = "close"
    /\ UNCHANGED <<kernel, wfd, fds, ee, revents, todo, cur, done, client, dpc, ghost>>

\* remove(), called by runonce() alone: out of the table, then a wake-up.
Remove ==
    /\ pc = "remove"
    /\ fds' = [fds EXCEPT ![cur] = 0]
    /\ pc' = IF fds[cur] # 0 THEN "unpoll" ELSE "close"
    /\ UNCHANGED <<kernel, wfd, ee, revents, todo, cur, done, client, dpc, ghost>>

\* unpoll() looks at wfd, and writes.
Unpoll ==
    /\ pc = "unpoll"
    /\ pc' = IF wfd = "set" THEN "write" ELSE "close"
    /\ UNCHANGED <<kernel, wfd, fds, ee, revents, todo, cur, done, client, dpc, ghost>>

LoopWrites ==
    /\ pc = "write"
    /\ WriteByte
    /\ pc' = "close"
    /\ UNCHANGED <<live, gen, event, wfd, fds, ee, revents, todo, cur,
                   done, client, dpc, interrupted>>

Close ==
    /\ pc = "close"
    /\ live' = live \ {cur}
    /\ event' = [event EXCEPT ![cur] = {}]
    /\ pc' = "scan"
    /\ UNCHANGED <<gen, pipe, wfd, fds, ee, revents, todo, cur,
                   done, client, dpc, ghost>>

\* A wrong variant: the table is emptied and nothing closed.
CleanLeaks ==
    /\ pc = "clean"
    /\ fds' = [fd \in Fds |-> 0]
    /\ pc' = "ended"
    /\ UNCHANGED <<kernel, wfd, ee, revents, todo, cur, done, client, dpc, ghost>>

\* The end of run(): everything in the table is closed and taken out.
Clean ==
    /\ pc = "clean"
    /\ live' = {fd \in live : fds[fd] = 0}
    /\ event' = [fd \in Fds |-> IF fds[fd] = 0 THEN event[fd] ELSE {}]
    /\ fds' = [fd \in Fds |-> 0]
    /\ pc' = "ended"
    /\ UNCHANGED <<gen, pipe, wfd, ee, revents, todo, cur, done, client, dpc,
                   ghost>>

LoopStep ==
    \/ Snapshot \/ Poll \/ RoundOver \/ Remove \/ Unpoll \/ LoopWrites
    \/ Close \/ Clean
    \/ \E fd \in Fds, finished \in BOOLEAN : Handle(fd, finished)

----------------------------------------------------------------------------
(* A client: connect() and add().                                         *)

Connect(c, fd) ==
    /\ cpc[c] = "idle"
    /\ dpc = "up"
    /\ Opens(fd)
    /\ cfd' = [cfd EXCEPT ![c] = fd]
    /\ cgen' = [cgen EXCEPT ![c] = gen[fd] + 1]
    /\ cpc' = [cpc EXCEPT ![c] = "add"]
    /\ UNCHANGED <<event, pipe, wfd, fds, loopv, dpc, ghost>>

\* A wrong variant: add() does not wake the loop.
AddSilently(c) ==
    /\ cpc[c] = "add"
    /\ fds' = IF fds[cfd[c]] = 0 THEN [fds EXCEPT ![cfd[c]] = cgen[c]] ELSE fds
    /\ cpc' = [cpc EXCEPT ![c] = "idle"]
    /\ UNCHANGED <<kernel, wfd, loopv, cfd, cgen, dpc, ghost>>

\* add() under the mutex: it refuses a number that is in the table.
Add(c) ==
    /\ cpc[c] = "add"
    /\ IF fds[cfd[c]] = 0
       THEN /\ fds' = [fds EXCEPT ![cfd[c]] = cgen[c]]
            /\ cpc' = [cpc EXCEPT ![c] = "unpoll"]
       ELSE /\ cpc' = [cpc EXCEPT ![c] = "idle"]
            /\ UNCHANGED fds
    /\ UNCHANGED <<kernel, wfd, loopv, cfd, cgen, dpc, interrupted, killed>>

ClientUnpoll(c) ==
    /\ cpc[c] = "unpoll"
    /\ cpc' = [cpc EXCEPT ![c] = IF wfd = "set" THEN "write" ELSE "idle"]
    /\ UNCHANGED <<kernel, wfd, fds, loopv, cfd, cgen, dpc, ghost>>

ClientWrites(c) ==
    /\ cpc[c] = "write"
    /\ WriteByte
    /\ cpc' = [cpc EXCEPT ![c] = "idle"]
    /\ UNCHANGED <<live, gen, event, wfd, fds, loopv, cfd, cgen, dpc,
                   interrupted>>

ClientStep(c) == Add(c) \/ ClientUnpoll(c) \/ ClientWrites(c)

----------------------------------------------------------------------------
(* The destructor.                                                         *)

\* A wrong variant: close() forgets the number and does not close it.
DestroyUnclosed ==
    /\ dpc = "up"
    /\ \A c \in Clients : cpc[c] = "idle"
    /\ dpc' = "closing"
    /\ UNCHANGED <<kernel, wfd, fds, loopv, client, ghost>>

\* Its owner calls it when no thread is in a call.
Destroy ==
    /\ dpc = "up"
    /\ \A c \in Clients : cpc[c] = "idle"
    /\ live' = live \ {Wfd}
    /\ dpc' = "closing"
    /\ UNCHANGED <<gen, event, pipe, wfd, fds, loopv, client, ghost>>

\* close(): wfd is -1 only after the number was closed.
Unset ==
    /\ dpc = "closing"
    /\ wfd' = "unset"
    /\ dpc' = "join"
    /\ UNCHANGED <<kernel, fds, loopv, client, ghost>>

Join ==
    /\ dpc = "join"
    /\ pc = "ended"
    /\ dpc' = "gone"
    /\ UNCHANGED <<kernel, wfd, fds, loopv, client, ghost>>

----------------------------------------------------------------------------
Next ==
    /\ ~killed
    /\ \/ LoopStep
       \/ Interrupted
       \/ \E c \in Clients : ClientStep(c)
       \/ \E c \in Clients, fd \in Fds : Connect(c, fd)
       \/ Destroy \/ Unset \/ Join
       \/ \E fd \in Fds, kind \in Kinds : Arrive(fd, kind)

\* The loop, the clients inside their calls and the destructor go on; sockets,
\* signals and owners need not do anything.
Fairness ==
    /\ WF_vars(~killed /\ LoopStep)
    /\ \A c \in Clients : WF_vars(~killed /\ ClientStep(c))
    /\ WF_vars(~killed /\ (Unset \/ Join))

Spec == Init /\ [][Next]_vars /\ Fairness

----------------------------------------------------------------------------
(* Properties.                                                             *)

TypeOK ==
    /\ live \subseteq Fds
    /\ gen \in [Fds -> Nat]
    /\ event \in [Fds -> SUBSET Kinds]
    /\ pipe \in 0..PipeCap
    /\ wfd \in {"set", "unset"}
    /\ fds \in [Fds -> Nat] /\ ee \in [Fds -> Nat]
    /\ revents \in [Fds -> SUBSET Kinds]
    /\ todo \subseteq Fds /\ cur \in Fds /\ done \in BOOLEAN
    /\ pc \in {"top", "poll", "scan", "remove", "unpoll", "write", "close",
               "clean", "ended"}
    /\ cfd \in [Clients -> Fds] /\ cgen \in [Clients -> Nat]
    /\ cpc \in [Clients -> {"idle", "add", "unpoll", "write"}]
    /\ dpc \in {"up", "closing", "join", "gone"}
    /\ interrupted \in BOOLEAN /\ killed \in BOOLEAN

\* The loop works through a copy of the table while numbers are closed and
\* opened again: a number it has still to look at, or to close, stands for
\* what was registered under it when the copy was made (io.h:556-592).
OwnHandler ==
    /\ \A fd \in todo : fd \in live /\ gen[fd] = ee[fd]
    /\ pc \in {"remove", "unpoll", "write", "close"} =>
           cur \in live /\ gen[cur] = ee[cur]

\* A socket just connected is never refused by add() for an old entry of its
\* number: File::read() does not look at the result (io.h:506, tor.hpp:1118).
NeverRefused == \A c \in Clients : cpc[c] = "add" => fds[cfd[c]] = 0

\* Each add and each remove leaves a byte in the pipe and only the loop takes
\* them out, once a round: with room for four bytes per socket number and
\* one per client nobody waits at a full pipe (io.h:500).
NeverFull ==
    PipeCap > 4 * (Cardinality(Fds) - 2) + Cardinality(Clients) => pipe < PipeCap

\* Only a signal that ends the loop behind its users' back makes a wake-up
\* deadly (io.h:562, io.h:500).
KilledOnlyByInterrupt == killed => interrupted

\* After the destructor nothing is open that the loop or a client had opened
\* (io.h:602-605).
ClosedAtEnd ==
    dpc = "gone" /\ ~interrupted => live = {}

\* A descriptor of the table that is ready is handled, also when it was
\* added while the loop slept in poll() on an older copy (io.h:512, io.h:561).
Served ==
    \A fd \in Fds : (fds[fd] # 0 /\ Ready(fd) # {})
                    ~> (fds[fd] = 0 \/ Ready(fd) = {} \/ interrupted)

\* The destructor comes back (io.h:490-496).
Joins == dpc = "closing" ~> dpc = "gone"
=============================================================================
