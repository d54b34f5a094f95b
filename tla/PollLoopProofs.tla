--------------------------- MODULE PollLoopProofs ---------------------------
(***************************************************************************)
(* Proofs about PollLoop, for any numbers, clients and sizes of the pipe.  *)
(* Numbers are used again, so the invariant accounts for each open number: *)
(* it is in the table, or held by a client that has not added it yet, or   *)
(* about to be closed by the loop, or the pipe's write end; and never two  *)
(* of these.                                                               *)
(***************************************************************************)
EXTENDS PollLoop, FiniteSetTheorems, TLAPS

Finishing == pc \in {"remove", "unpoll", "write", "close"}
Closing   == pc \in {"unpoll", "write", "close"}

\* What is in the table is open and still what was registered.
Registered == \A fd \in Fds : fds[fd] # 0 => fd \in live /\ gen[fd] = fds[fd]

\* Only the loop takes entries out, so what it copied and has not handled is
\* in the table.
Copied ==
    /\ pc = "poll" => \A fd \in Fds : ee[fd] # 0 => fds[fd] = ee[fd]
    /\ \A fd \in todo : ee[fd] # 0 /\ fds[fd] = ee[fd]
    /\ pc \in {"top", "poll", "clean", "ended"} => todo = {}

\* The number being finished is first in the table, then only open.
Finished ==
    /\ Finishing => /\ cur \notin todo /\ cur # Wfd
                    /\ cur \in live /\ gen[cur] = ee[cur]
    /\ pc = "remove" => fds[cur] # 0
    /\ Closing => fds[cur] = 0 /\ \A c \in Clients : cpc[c] = "add" => cfd[c] # cur

\* What a client holds is open, its own, and not in the table.
Held ==
    \A c \in Clients : cpc[c] = "add" =>
        /\ cfd[c] \in live /\ gen[cfd[c]] = cgen[c] /\ cgen[c] # 0
        /\ fds[cfd[c]] = 0 /\ cfd[c] # Wfd
        /\ \A d \in Clients : d # c /\ cpc[d] = "add" => cfd[d] # cfd[c]

\* The pipe: its write end is open until the destructor, its read end until
\* the loop has seen that, or was interrupted.
Ends ==
    /\ fds[Wfd] = 0
    /\ Wfd \in live <=> dpc = "up"
    /\ interrupted => pc \in {"clean", "ended"}
    /\ dpc = "up" /\ ~interrupted => PipeRead
    /\ done => dpc # "up"
    /\ pc \in {"clean", "ended"} /\ ~interrupted => dpc # "up"
    /\ Rfd \in todo /\ "err" \in revents[Rfd] => dpc # "up"
    /\ Finishing /\ cur = Rfd => dpc # "up"
    /\ dpc # "up" => \A c \in Clients : cpc[c] = "idle"
    /\ pc = "ended" /\ ~interrupted => \A fd \in Fds : fds[fd] = 0
    /\ dpc = "gone" => pc = "ended"
    /\ killed => interrupted

\* Every open number is somebody's.
Accounted ==
    \A fd \in live : \/ fds[fd] # 0
                     \/ fd = Wfd
                     \/ Closing /\ cur = fd
                     \/ \E c \in Clients : cpc[c] = "add" /\ cfd[c] = fd

IInv == TypeOK /\ Registered /\ Copied /\ Finished /\ Held /\ Ends /\ Accounted

USE PollLoopAssumption DEF vars, kernel, loopv, client, ghost

----------------------------------------------------------------------------
(* One lemma per action: it keeps each part of the invariant.              *)

LEMMA StepSnapshot ==
    ASSUME IInv, ~killed, Snapshot
    PROVE  IInv'
  <1>1. TypeOK'  BY DEF IInv, TypeOK, Kinds, Snapshot
  <1>2. Registered'  BY DEF IInv, TypeOK, Registered, Snapshot
  <1>3. Copied'  BY DEF IInv, TypeOK, Copied, Snapshot
  <1>4. Finished'  BY DEF IInv, Finished, Finishing, Closing, Snapshot
  <1>5. Held'  BY DEF IInv, Held, Snapshot
  <1>6. Ends'  BY DEF IInv, Ends, Finishing, PipeRead, Snapshot
  <1>7. Accounted'  BY DEF IInv, Accounted, Closing, Snapshot
  <1> QED  BY <1>1, <1>2, <1>3, <1>4, <1>5, <1>6, <1>7 DEF IInv

LEMMA StepPoll ==
    ASSUME IInv, ~killed, Poll
    PROVE  IInv'
  <1>1. TypeOK'  BY DEF IInv, TypeOK, Kinds, Ready, Poll
  <1>2. Registered'  BY DEF IInv, TypeOK, Registered, Ready, Poll
  <1>3. Copied'  BY DEF IInv, TypeOK, Copied, Ready, Poll
  <1>4. Finished'  BY DEF IInv, Finished, Finishing, Closing, Ready, Poll
  <1>5. Held'  BY DEF IInv, Held, Ready, Poll
  <1>6. Ends'  BY DEF IInv, Ends, Finishing, PipeRead, Ready, Poll
  <1>7. Accounted'  BY DEF IInv, Accounted, Closing, Ready, Poll
  <1> QED  BY <1>1, <1>2, <1>3, <1>4, <1>5, <1>6, <1>7 DEF IInv

LEMMA StepInterrupted ==
    ASSUME IInv, ~killed, Interrupted
    PROVE  IInv'
  <1>1. TypeOK'  BY DEF IInv, TypeOK, Kinds, Interrupted
  <1>2. Registered'  BY DEF IInv, TypeOK, Registered, Interrupted
  <1>3. Copied'  BY DEF IInv, TypeOK, Copied, Interrupted
  <1>4. Finished'  BY DEF IInv, Finished, Finishing, Closing, Interrupted
  <1>5. Held'  BY DEF IInv, Held, Interrupted
  <1>6. Ends'  BY DEF IInv, Ends, Finishing, PipeRead, Interrupted
  <1>7. Accounted'  BY DEF IInv, Accounted, Closing, Interrupted
  <1> QED  BY <1>1, <1>2, <1>3, <1>4, <1>5, <1>6, <1>7 DEF IInv

LEMMA StepHandle ==
    ASSUME IInv, ~killed, NEW fd \in Fds, NEW finished \in BOOLEAN,
           Handle(fd, finished)
    PROVE  IInv'
  <1>1. TypeOK'  BY DEF IInv, TypeOK, Kinds, Takes, Handle
  <1>2. Registered'  BY DEF IInv, TypeOK, Registered, Takes, Handle
  <1>3. Copied'  BY DEF IInv, TypeOK, Copied, Takes, Handle
  <1>4. Finished'
    BY DEF IInv, Finished, Finishing, Closing, TypeOK, Registered,
           Copied, Ends, PipeRead, Ready, Takes, Handle
  <1>5. Held'  BY DEF IInv, Held, Takes, Handle
  <1>6. Ends'
    BY DEF IInv, Ends, Finishing, PipeRead, TypeOK, Registered, Copied,
           Takes, Handle
  <1>7. Accounted'  BY DEF IInv, Accounted, Closing, Takes, Handle
  <1> QED  BY <1>1, <1>2, <1>3, <1>4, <1>5, <1>6, <1>7 DEF IInv

LEMMA StepRoundOver ==
    ASSUME IInv, ~killed, RoundOver
    PROVE  IInv'
  <1>1. TypeOK'  BY DEF IInv, TypeOK, Kinds, RoundOver
  <1>2. Registered'  BY DEF IInv, TypeOK, Registered, RoundOver
  <1>3. Copied'  BY DEF IInv, TypeOK, Copied, RoundOver
  <1>4. Finished'  BY DEF IInv, Finished, Finishing, Closing, RoundOver
  <1>5. Held'  BY DEF IInv, Held, RoundOver
  <1>6. Ends'  BY DEF IInv, Ends, Finishing, PipeRead, RoundOver
  <1>7. Accounted'  BY DEF IInv, Accounted, Closing, RoundOver
  <1> QED  BY <1>1, <1>2, <1>3, <1>4, <1>5, <1>6, <1>7 DEF IInv

LEMMA StepRemove ==
    ASSUME IInv, ~killed, Remove
    PROVE  IInv'
  <1>1. TypeOK'  BY DEF IInv, TypeOK, Kinds, Remove
  <1>2. Registered'  BY DEF IInv, TypeOK, Registered, Remove
  <1>3. Copied'
    BY DEF IInv, TypeOK, Copied, Finished, Finishing, Closing, Remove
  <1>4. Finished'
    BY DEF IInv, Finished, Finishing, Closing, TypeOK, Registered, Held, Remove
  <1>5. Held'  BY DEF IInv, Held, Remove
  <1>6. Ends'  BY DEF IInv, Ends, Finishing, PipeRead, Remove
  <1>7. Accounted'  BY DEF IInv, Accounted, Closing, Remove
  <1> QED  BY <1>1, <1>2, <1>3, <1>4, <1>5, <1>6, <1>7 DEF IInv

LEMMA StepUnpoll ==
    ASSUME IInv, ~killed, Unpoll
    PROVE  IInv'
  <1>1. TypeOK'  BY DEF IInv, TypeOK, Kinds, Unpoll
  <1>2. Registered'  BY DEF IInv, TypeOK, Registered, Unpoll
  <1>3. Copied'  BY DEF IInv, TypeOK, Copied, Unpoll
  <1>4. Finished'  BY DEF IInv, Finished, Finishing, Closing, Unpoll
  <1>5. Held'  BY DEF IInv, Held, Unpoll
  <1>6. Ends'  BY DEF IInv, Ends, Finishing, PipeRead, Unpoll
  <1>7. Accounted'  BY DEF IInv, Accounted, Closing, Unpoll
  <1> QED  BY <1>1, <1>2, <1>3, <1>4, <1>5, <1>6, <1>7 DEF IInv

LEMMA StepLoopWrites ==
    ASSUME IInv, ~killed, LoopWrites
    PROVE  IInv'
  <1>1. TypeOK'
    BY DEF IInv, TypeOK, Kinds, Ends, Finishing, PipeRead, WriteByte, LoopWrites
  <1>2. Registered'  BY DEF IInv, TypeOK, Registered, WriteByte, LoopWrites
  <1>3. Copied'  BY DEF IInv, TypeOK, Copied, WriteByte, LoopWrites
  <1>4. Finished'
    BY DEF IInv, Finished, Finishing, Closing, WriteByte, LoopWrites
  <1>5. Held'  BY DEF IInv, Held, WriteByte, LoopWrites
  <1>6. Ends'  BY DEF IInv, Ends, Finishing, PipeRead, WriteByte, LoopWrites
  <1>7. Accounted'  BY DEF IInv, Accounted, Closing, WriteByte, LoopWrites
  <1> QED  BY <1>1, <1>2, <1>3, <1>4, <1>5, <1>6, <1>7 DEF IInv

LEMMA StepClose ==
    ASSUME IInv, ~killed, Close
    PROVE  IInv'
  <1>1. TypeOK'  BY DEF IInv, TypeOK, Kinds, Close
  <1>2. Registered'
    BY DEF IInv, TypeOK, Registered, Finished, Finishing, Closing, Close
  <1>3. Copied'  BY DEF IInv, TypeOK, Copied, Close
  <1>4. Finished'  BY DEF IInv, Finished, Finishing, Closing, Close
  <1>5. Held'  BY DEF IInv, Held, TypeOK, Finished, Finishing, Closing, Close
  <1>6. Ends'
    BY DEF IInv, Ends, Finishing, PipeRead, TypeOK, Finished, Closing, Close
  <1>7. Accounted'  BY DEF IInv, Accounted, Closing, Close
  <1> QED  BY <1>1, <1>2, <1>3, <1>4, <1>5, <1>6, <1>7 DEF IInv

LEMMA StepClean ==
    ASSUME IInv, ~killed, Clean
    PROVE  IInv'
  <1>1. TypeOK'  BY DEF IInv, TypeOK, Kinds, Clean
  <1>2. Registered'  BY DEF IInv, TypeOK, Registered, Clean
  <1>3. Copied'  BY DEF IInv, TypeOK, Copied, Clean
  <1>4. Finished'  BY DEF IInv, Finished, Finishing, Closing, Clean
  <1>5. Held'  BY DEF IInv, Held, TypeOK, Clean
  <1>6. Ends'  BY DEF IInv, Ends, Finishing, PipeRead, Clean
  <1>7. Accounted'  BY DEF IInv, Accounted, Closing, Clean
  <1> QED  BY <1>1, <1>2, <1>3, <1>4, <1>5, <1>6, <1>7 DEF IInv

LEMMA StepConnect ==
    ASSUME IInv, ~killed, NEW c \in Clients, NEW fd \in Fds, Connect(c, fd)
    PROVE  IInv'
  <1>1. TypeOK'  BY DEF IInv, TypeOK, Kinds, Opens, Connect
  <1>2. Registered'  BY DEF IInv, TypeOK, Registered, Opens, Connect
  <1>3. Copied'  BY DEF IInv, TypeOK, Copied, Opens, Connect
  <1>4. Finished'
    BY DEF IInv, Finished, Finishing, Closing, TypeOK, Opens, Connect
  <1>5. Held'
    BY DEF IInv, Held, TypeOK, Registered, Finished, Finishing, Closing,
           Ends, PipeRead, Opens, Connect
  <1>6. Ends'  BY DEF IInv, Ends, Finishing, PipeRead, Opens, Connect
  <1>7. Accounted'  BY DEF IInv, Accounted, Closing, TypeOK, Opens, Connect
  <1> QED  BY <1>1, <1>2, <1>3, <1>4, <1>5, <1>6, <1>7 DEF IInv

LEMMA StepAdd ==
    ASSUME IInv, ~killed, NEW c \in Clients, Add(c)
    PROVE  IInv'
  <1>1. TypeOK'  BY DEF IInv, TypeOK, Kinds, Add
  <1>2. Registered'  BY DEF IInv, TypeOK, Registered, Held, Add
  <1>3. Copied'  BY DEF IInv, TypeOK, Copied, Add
  <1>4. Finished'  BY DEF IInv, Finished, Finishing, Closing, TypeOK, Add
  <1>5. Held'  BY DEF IInv, Held, TypeOK, Add
  <1>6. Ends'
    BY DEF IInv, Ends, Finishing, PipeRead, TypeOK, Registered, Held, Add
  <1>7. Accounted'
    BY DEF IInv, Accounted, Closing, TypeOK, Registered, Held, Add
  <1> QED  BY <1>1, <1>2, <1>3, <1>4, <1>5, <1>6, <1>7 DEF IInv

LEMMA StepClientUnpoll ==
    ASSUME IInv, ~killed, NEW c \in Clients, ClientUnpoll(c)
    PROVE  IInv'
  <1>1. TypeOK'  BY DEF IInv, TypeOK, Kinds, ClientUnpoll
  <1>2. Registered'  BY DEF IInv, TypeOK, Registered, ClientUnpoll
  <1>3. Copied'  BY DEF IInv, TypeOK, Copied, ClientUnpoll
  <1>4. Finished'  BY DEF IInv, Finished, Finishing, Closing, ClientUnpoll
  <1>5. Held'  BY DEF IInv, Held, ClientUnpoll
  <1>6. Ends'  BY DEF IInv, Ends, Finishing, PipeRead, ClientUnpoll
  <1>7. Accounted'  BY DEF IInv, Accounted, Closing, ClientUnpoll
  <1> QED  BY <1>1, <1>2, <1>3, <1>4, <1>5, <1>6, <1>7 DEF IInv

LEMMA StepClientWrites ==
    ASSUME IInv, ~killed, NEW c \in Clients, ClientWrites(c)
    PROVE  IInv'
  <1>1. TypeOK'
    BY DEF IInv, TypeOK, Kinds, Ends, Finishing, PipeRead, WriteByte,
           ClientWrites
  <1>2. Registered'  BY DEF IInv, TypeOK, Registered, WriteByte, ClientWrites
  <1>3. Copied'  BY DEF IInv, TypeOK, Copied, WriteByte, ClientWrites
  <1>4. Finished'
    BY DEF IInv, Finished, Finishing, Closing, WriteByte, ClientWrites
  <1>5. Held'  BY DEF IInv, Held, WriteByte, ClientWrites
  <1>6. Ends'  BY DEF IInv, Ends, Finishing, PipeRead, WriteByte, ClientWrites
  <1>7. Accounted'  BY DEF IInv, Accounted, Closing, WriteByte, ClientWrites
  <1> QED  BY <1>1, <1>2, <1>3, <1>4, <1>5, <1>6, <1>7 DEF IInv

LEMMA StepDestroy ==
    ASSUME IInv, ~killed, Destroy
    PROVE  IInv'
  <1>1. TypeOK'  BY DEF IInv, TypeOK, Kinds, Destroy
  <1>2. Registered'
    BY DEF IInv, TypeOK, Registered, Ends, Finishing, PipeRead, Destroy
  <1>3. Copied'  BY DEF IInv, TypeOK, Copied, Destroy
  <1>4. Finished'  BY DEF IInv, Finished, Finishing, Closing, Destroy
  <1>5. Held'  BY DEF IInv, Held, Destroy
  <1>6. Ends'  BY DEF IInv, Ends, Finishing, PipeRead, Destroy
  <1>7. Accounted'  BY DEF IInv, Accounted, Closing, Destroy
  <1> QED  BY <1>1, <1>2, <1>3, <1>4, <1>5, <1>6, <1>7 DEF IInv

LEMMA StepUnset ==
    ASSUME IInv, ~killed, Unset
    PROVE  IInv'
  <1>1. TypeOK'  BY DEF IInv, TypeOK, Kinds, Unset
  <1>2. Registered'  BY DEF IInv, TypeOK, Registered, Unset
  <1>3. Copied'  BY DEF IInv, TypeOK, Copied, Unset
  <1>4. Finished'  BY DEF IInv, Finished, Finishing, Closing, Unset
  <1>5. Held'  BY DEF IInv, Held, Unset
  <1>6. Ends'  BY DEF IInv, Ends, Finishing, PipeRead, Unset
  <1>7. Accounted'  BY DEF IInv, Accounted, Closing, Unset
  <1> QED  BY <1>1, <1>2, <1>3, <1>4, <1>5, <1>6, <1>7 DEF IInv

LEMMA StepJoin ==
    ASSUME IInv, ~killed, Join
    PROVE  IInv'
  <1>1. TypeOK'  BY DEF IInv, TypeOK, Kinds, Join
  <1>2. Registered'  BY DEF IInv, TypeOK, Registered, Join
  <1>3. Copied'  BY DEF IInv, TypeOK, Copied, Join
  <1>4. Finished'  BY DEF IInv, Finished, Finishing, Closing, Join
  <1>5. Held'  BY DEF IInv, Held, Join
  <1>6. Ends'  BY DEF IInv, Ends, Finishing, PipeRead, Join
  <1>7. Accounted'  BY DEF IInv, Accounted, Closing, Join
  <1> QED  BY <1>1, <1>2, <1>3, <1>4, <1>5, <1>6, <1>7 DEF IInv

LEMMA StepArrive ==
    ASSUME IInv, ~killed, NEW fd \in Fds, NEW kind \in Kinds, Arrive(fd, kind)
    PROVE  IInv'
  <1>1. TypeOK'  BY DEF IInv, TypeOK, Kinds, Arrive
  <1>2. Registered'  BY DEF IInv, TypeOK, Registered, Arrive
  <1>3. Copied'  BY DEF IInv, TypeOK, Copied, Arrive
  <1>4. Finished'  BY DEF IInv, Finished, Finishing, Closing, Arrive
  <1>5. Held'  BY DEF IInv, Held, Arrive
  <1>6. Ends'  BY DEF IInv, Ends, Finishing, PipeRead, Arrive
  <1>7. Accounted'  BY DEF IInv, Accounted, Closing, Arrive
  <1> QED  BY <1>1, <1>2, <1>3, <1>4, <1>5, <1>6, <1>7 DEF IInv

LEMMA Initially == Init => IInv
  <1> SUFFICES ASSUME Init PROVE IInv  OBVIOUS
  <1>1. TypeOK
    <2>1. pipe \in 0..PipeCap  BY DEF Init
    <2>2. gen \in [Fds -> Nat] /\ fds \in [Fds -> Nat] /\ ee \in [Fds -> Nat]
      BY DEF Init
    <2>3. event \in [Fds -> SUBSET Kinds] /\ revents \in [Fds -> SUBSET Kinds]
      BY DEF Init
    <2>4. cfd \in [Clients -> Fds] /\ cgen \in [Clients -> Nat]  BY DEF Init
    <2>5. cpc \in [Clients -> {"idle", "add", "unpoll", "write"}]  BY DEF Init
    <2> QED  BY <2>1, <2>2, <2>3, <2>4, <2>5 DEF Init, TypeOK
  <1>2. Registered  BY DEF Init, Registered
  <1>3. Copied  BY DEF Init, Copied
  <1>4. Finished  BY DEF Init, Finished, Finishing, Closing
  <1>5. Held  BY DEF Init, Held
  <1>6. Ends  BY DEF Init, Ends, Finishing, PipeRead
  <1>7. Accounted  BY DEF Init, Accounted, Closing
  <1> QED  BY <1>1, <1>2, <1>3, <1>4, <1>5, <1>6, <1>7 DEF IInv

LEMMA Stutters ==
  ASSUME IInv, UNCHANGED vars
  PROVE  IInv'
  BY DEF IInv, TypeOK, Kinds, Registered, Copied, Finished, Finishing,
         Closing, Held, Ends, PipeRead, Accounted

\* What each open number is to the loop and its clients holds in every state:
\* the inductive invariant of TSocket.
THEOREM Invariance == Spec => []IInv
  <1>1. IInv /\ [Next]_vars => IInv'
    <2> SUFFICES ASSUME IInv, [Next]_vars PROVE IInv'
      OBVIOUS
    <2>1. CASE ~killed /\ LoopStep
      BY <2>1, StepSnapshot, StepPoll, StepHandle, StepRoundOver, StepRemove,
         StepUnpoll, StepLoopWrites, StepClose, StepClean
         DEF LoopStep
    <2>2. CASE ~killed /\ (\E c \in Clients : ClientStep(c))
      BY <2>2, StepAdd, StepClientUnpoll, StepClientWrites DEF ClientStep
    <2>3. CASE ~killed /\ (\E c \in Clients, fd \in Fds : Connect(c, fd))
      BY <2>3, StepConnect
    <2>4. CASE ~killed /\ (Destroy \/ Unset \/ Join)
      BY <2>4, StepDestroy, StepUnset, StepJoin
    <2>5. CASE ~killed /\ Interrupted  BY <2>5, StepInterrupted
    <2>6. CASE ~killed /\ (\E fd \in Fds, kind \in Kinds : Arrive(fd, kind))
      BY <2>6, StepArrive
    <2>7. CASE UNCHANGED vars  BY <2>7, Stutters
    <2> QED  BY <2>1, <2>2, <2>3, <2>4, <2>5, <2>6, <2>7 DEF Next
  <1> QED  BY Initially, <1>1, PTL DEF Spec

\* Every variable of the loop, its clients and its destructor keeps its type.
THEOREM TypeCorrect == Spec => []TypeOK
  <1>1. IInv => TypeOK  BY DEF IInv
  <1> QED  BY <1>1, Invariance, PTL

\* A handler is called, and a number closed, for what was registered under the
\* number, however often numbers are used again.
THEOREM HandlerIsOwn == Spec => []OwnHandler
  <1>1. IInv => OwnHandler
    BY DEF IInv, TypeOK, Registered, Copied, Finished, Finishing, OwnHandler
  <1> QED  BY <1>1, Invariance, PTL

\* add() takes every socket that was just connected.
THEOREM NoneRefused == Spec => []NeverRefused
  <1>1. IInv => NeverRefused  BY DEF IInv, Held, NeverRefused
  <1> QED  BY <1>1, Invariance, PTL

\* A process that no signal disturbs is not killed by a wake-up.
THEOREM OnlyInterruptKills == Spec => []KilledOnlyByInterrupt
  <1>1. IInv => KilledOnlyByInterrupt  BY DEF IInv, Ends, KilledOnlyByInterrupt
  <1> QED  BY <1>1, Invariance, PTL

\* The destructor leaves nothing open.
THEOREM AllClosed == Spec => []ClosedAtEnd
  <1>1. IInv => ClosedAtEnd
    BY DEF IInv, TypeOK, Ends, Closing, Accounted, ClosedAtEnd
  <1> QED  BY <1>1, Invariance, PTL

----------------------------------------------------------------------------
(* The bytes in the pipe.  In one round of the loop each socket number can *)
(* be removed once and added once after that, or only added, so each costs *)
(* two bytes a round; a client that has just added one is about to write   *)
(* another.  The pipe is emptied in every second round at least, since its *)
(* read end is in the table that the loop copies: four bytes per number    *)
(* and one per client, in all (Late).                                      *)

\* The numbers of sockets.
Sockets == Fds \ {Rfd, Wfd}

\* Those that can still be added in this round, and those that can be removed.
Unlisted == {fd \in Sockets : fds[fd] = 0}
Due == {fd \in Sockets : \/ pc = "poll" /\ ee[fd] # 0
                         \/ fd \in todo
                         \/ pc = "remove" /\ fd = cur}

\* Who is about to write: clients, and the loop.
Writing == {c \in Clients : cpc[c] \in {"unpoll", "write"}}
Waking == IF pc \in {"unpoll", "write"} THEN 1 ELSE 0

\* The pipe may not have been emptied since the round before.
Unread == pc \in {"poll", "clean"} \/ (Rfd \in todo /\ "in" \in revents[Rfd])

\* What is in the pipe and may come before the round is over.
Coming == pipe + Cardinality(Writing) + Waking
               + Cardinality(Unlisted) + 2 * Cardinality(Due)

Early == 2 * Cardinality(Sockets) + Cardinality(Clients)
Late  == 4 * Cardinality(Sockets) + Cardinality(Clients)

Counted ==
    /\ pipe <= Late
    /\ PipeRead /\ dpc = "up" => Coming <= IF Unread THEN Late ELSE Early

\* The loop has its pipe's read end in the table until it ends.
Listed ==
    /\ gen[Rfd] # 0
    /\ dpc = "up" => IF pc = "ended" THEN ~PipeRead
                     ELSE fds[Rfd] # 0 /\ (pc = "poll" => ee[Rfd] # 0)

CInv == IInv /\ Listed /\ Counted

LEMMA ListedKept ==
    ASSUME IInv, Listed, [Next]_vars
    PROVE  Listed'
  <1>1. CASE Snapshot \/ Interrupted  BY <1>1 DEF Listed, Snapshot, Interrupted
  <1>2. CASE Poll  BY <1>2 DEF Listed, Poll
  <1>3. CASE \E fd \in Fds, finished \in BOOLEAN : Handle(fd, finished)
    BY <1>3 DEF Listed, Handle
  <1>4. CASE RoundOver  BY <1>4 DEF Listed, RoundOver
  <1>5. CASE Remove  BY <1>5 DEF Listed, Remove, IInv, Ends, Finishing
  <1>6. CASE Unpoll \/ LoopWrites  BY <1>6 DEF Listed, Unpoll, LoopWrites
  <1>7. CASE Close  BY <1>7 DEF Listed, Close
  <1>8. CASE Clean  BY <1>8 DEF Listed, PipeRead, Clean
  <1>9. CASE \E c \in Clients, fd \in Fds : Connect(c, fd)
    BY <1>9 DEF Listed, PipeRead, Connect, Opens, IInv, TypeOK
  <1>10. CASE \E c \in Clients : Add(c)
    BY <1>10 DEF Listed, PipeRead, Add, IInv, TypeOK
  <1>11. CASE \E c \in Clients : ClientUnpoll(c) \/ ClientWrites(c)
    BY <1>11 DEF Listed, PipeRead, ClientUnpoll, ClientWrites
  <1>12. CASE Destroy \/ Unset \/ Join
    BY <1>12 DEF Listed, Destroy, Unset, Join
  <1>13. CASE \E fd \in Fds, kind \in Kinds : Arrive(fd, kind)
    BY <1>13 DEF Listed, PipeRead, Arrive
  <1>14. CASE UNCHANGED vars  BY <1>14 DEF Listed, PipeRead
  <1> QED
    BY <1>1, <1>2, <1>3, <1>4, <1>5, <1>6, <1>7, <1>8, <1>9, <1>10, <1>11,
       <1>12, <1>13, <1>14
       DEF Next, LoopStep, ClientStep

\* A part of a finite set has as many elements at most.
LEMMA PartCount ==
    ASSUME NEW T, IsFiniteSet(T), NEW S \in SUBSET T
    PROVE  /\ IsFiniteSet(S)
           /\ Cardinality(S) \in Nat /\ Cardinality(T) \in Nat
           /\ Cardinality(S) <= Cardinality(T)  BY FS_Subset, FS_CardinalityType

LEMMA TwoPartsCount ==
    ASSUME NEW T, IsFiniteSet(T), NEW A \in SUBSET T, NEW B \in SUBSET T,
           A \cap B = {}
    PROVE  Cardinality(A) + Cardinality(B) <= Cardinality(T)
  <1>1. IsFiniteSet(A) /\ IsFiniteSet(B)  BY PartCount
  <1>2. Cardinality(A) \in Nat /\ Cardinality(B) \in Nat  BY PartCount
  <1>3. Cardinality(A \cup B) = Cardinality(A) + Cardinality(B) - 0
    BY <1>1, FS_Union, FS_EmptySet
  <1>4. Cardinality(A \cup B) <= Cardinality(T)  BY PartCount
  <1> QED  BY <1>2, <1>3, <1>4

LEMMA Parts ==
    /\ IsFiniteSet(Sockets) /\ IsFiniteSet(Clients)
    /\ Unlisted \subseteq Sockets /\ Due \subseteq Sockets /\ Writing \subseteq Clients
    /\ Unlisted' \subseteq Sockets /\ Due' \subseteq Sockets
    /\ Writing' \subseteq Clients
  BY PartCount DEF Sockets, Unlisted, Due, Writing

LEMMA Numbers ==
    /\ Cardinality(Sockets) \in Nat /\ Cardinality(Clients) \in Nat
    /\ Cardinality(Unlisted) \in Nat /\ Cardinality(Unlisted') \in Nat
    /\ Cardinality(Due) \in Nat /\ Cardinality(Due') \in Nat
    /\ Cardinality(Writing) \in Nat /\ Cardinality(Writing') \in Nat
    /\ Cardinality(Writing) <= Cardinality(Clients)
    /\ Waking \in {0, 1} /\ Waking' \in {0, 1}
    /\ Early \in Nat /\ Late \in Nat /\ Early <= Late
  <1>1. /\ Cardinality(Sockets) \in Nat /\ Cardinality(Clients) \in Nat
        /\ Cardinality(Unlisted) \in Nat /\ Cardinality(Unlisted') \in Nat
        /\ Cardinality(Due) \in Nat /\ Cardinality(Due') \in Nat
        /\ Cardinality(Writing) \in Nat /\ Cardinality(Writing') \in Nat
        /\ Cardinality(Writing) <= Cardinality(Clients)  BY Parts, PartCount
  <1>2. Waking \in {0, 1} /\ Waking' \in {0, 1}  BY DEF Waking
  <1> QED  BY <1>1, <1>2 DEF Early, Late

\* The bound on the pipe is part of the bound on what comes.
LEMMA PipeFromComing ==
    ASSUME TypeOK',
           PipeRead' /\ dpc' = "up" => Coming' <= IF Unread' THEN Late ELSE Early,
           (PipeRead' /\ dpc' = "up") \/ pipe' <= Late
    PROVE  Counted'
  <1>1. pipe' \in Nat  BY DEF TypeOK
  <1>2. Early' = Early /\ Late' = Late  OBVIOUS
  <1>3. ASSUME PipeRead', dpc' = "up" PROVE pipe' <= Late
    BY <1>1, Numbers DEF Coming
  <1> QED  BY <1>3 DEF Counted

\* A step that adds no reason to write, and no byte.
LEMMA FewerComing ==
    ASSUME CInv, IInv', pipe' <= pipe, dpc' = "up" => dpc = "up",
           PipeRead' /\ dpc' = "up" =>
               /\ PipeRead
               /\ Writing' \subseteq Writing /\ Waking' <= Waking
               /\ Unlisted' \subseteq Unlisted /\ Due' \subseteq Due
               /\ Unread => Unread'
    PROVE  Counted'
  <1>1. pipe \in Nat /\ pipe' \in Nat /\ pipe <= Late
    BY DEF CInv, Counted, IInv, TypeOK
  <1>2. ASSUME PipeRead', dpc' = "up"
        PROVE  Coming' <= IF Unread' THEN Late ELSE Early
    <2>1. /\ IsFiniteSet(Writing) /\ IsFiniteSet(Unlisted) /\ IsFiniteSet(Due)
      BY Parts, PartCount
    <2>2. /\ Cardinality(Writing') <= Cardinality(Writing)
          /\ Cardinality(Unlisted') <= Cardinality(Unlisted)
          /\ Cardinality(Due') <= Cardinality(Due)  BY <1>2, <2>1, PartCount
    <2>3. Coming <= IF Unread THEN Late ELSE Early  BY <1>2 DEF CInv, Counted
    <2>4. Coming' <= Coming /\ Coming \in Nat /\ Coming' \in Nat
      BY <1>1, <1>2, <2>2, Numbers DEF Coming
    <2> QED  BY <1>2, <2>3, <2>4, Numbers
  <1> QED  BY <1>1, <1>2, Numbers, PipeFromComing DEF IInv

\* Socket numbers are what clients and the loop hold while the pipe is in use.
LEMMA HeldAreSockets ==
    ASSUME IInv, Listed, PipeRead, dpc = "up"
    PROVE  /\ \A c \in Clients : cpc[c] = "add" => cfd[c] \in Unlisted \ Due
           /\ pc = "remove" => cur \in Due \ Unlisted
           /\ Unlisted \cap Due = {}
           /\ pc \in {"top", "clean", "ended"} => Due = {}
  <1>1. pc # "ended" /\ fds[Rfd] # 0  BY DEF Listed
  <1>2. \A c \in Clients : cpc[c] = "add" => cfd[c] \in Unlisted
    BY <1>1 DEF IInv, Held, TypeOK, Unlisted, Sockets
  <1>3. pc = "remove" => cur \in Due \ Unlisted
    BY DEF IInv, TypeOK, Finished, Finishing, Ends, Due, Unlisted, Sockets
  <1>4. Unlisted \cap Due = {}
    <2> SUFFICES ASSUME NEW fd \in Due PROVE fds[fd] # 0  BY DEF Unlisted
    <2>1. CASE pc = "poll" /\ ee[fd] # 0  BY <2>1 DEF IInv, Copied, Due, Sockets
    <2>2. CASE fd \in todo  BY <2>2 DEF IInv, Copied
    <2>3. CASE pc = "remove" /\ fd = cur  BY <2>3 DEF IInv, Finished
    <2> QED  BY <2>1, <2>2, <2>3 DEF Due
  <1>5. pc \in {"top", "clean", "ended"} => Due = {}  BY DEF IInv, Copied, Due
  <1> QED  BY <1>2, <1>3, <1>4, <1>5

LEMMA CountSnapshot ==
    ASSUME CInv, Snapshot, IInv'
    PROVE  Counted'
  <1>1. ASSUME PipeRead', dpc' = "up" PROVE Coming' <= Late
    <2>1. /\ PipeRead /\ dpc = "up" /\ ~Unread /\ pipe' = pipe
          /\ Writing' = Writing /\ Waking = 0 /\ Waking' = 0
          /\ Unlisted' = Unlisted /\ Due = {}
      BY <1>1, HeldAreSockets
         DEF CInv, IInv, Copied, Snapshot, PipeRead, Unread, Writing,
             Waking, Unlisted
    <2>2. Coming <= Early  BY <2>1 DEF CInv, Counted
    <2>3. Cardinality(Due') <= Cardinality(Sockets)  BY Parts, PartCount
    <2> QED  BY <2>1, <2>2, <2>3, Numbers DEF Coming, Early, Late, IInv, TypeOK
  <1>2. pipe' <= Late /\ Unread'  BY DEF CInv, Counted, Snapshot, Unread
  <1> QED  BY <1>1, <1>2, PipeFromComing DEF IInv

LEMMA CountPoll ==
    ASSUME CInv, Poll, IInv'
    PROVE  Counted'
  <1>1. CASE PipeRead /\ dpc = "up" /\ pipe = 0
    <2>1. /\ pipe' = 0 /\ Writing' = Writing /\ Waking' = 0
          /\ Unlisted' = Unlisted  BY <1>1 DEF Poll, Writing, Waking, Unlisted
    <2>2. Due' \subseteq Due  BY DEF Poll, Due
    <2>3. Cardinality(Unlisted) + Cardinality(Due) <= Cardinality(Sockets)
      BY <1>1, HeldAreSockets, Parts, TwoPartsCount DEF CInv
    <2>4. Cardinality(Due') <= Cardinality(Due)  BY <2>2, Parts, PartCount
    <2>5. Coming' <= Early  BY <2>1, <2>3, <2>4, Numbers DEF Coming, Early
    <2>6. Coming' \in Nat  BY <2>1, Numbers DEF Coming
    <2> QED  BY <2>1, <2>5, <2>6, Numbers, PipeFromComing DEF IInv
  <1>2. CASE PipeRead /\ dpc = "up" /\ pipe # 0
    <2>1. Rfd \in todo' /\ "in" \in revents'[Rfd]
      <3>1. ee[Rfd] # 0 /\ pipe > 0
        BY <1>2 DEF Poll, CInv, Listed, IInv, TypeOK
      <3>2. "in" \in Ready(Rfd)  BY <1>2, <3>1 DEF Ready, PipeRead, Kinds
      <3> QED  BY <3>1, <3>2 DEF Poll
    <2>2. /\ Writing' = Writing /\ Waking' = Waking /\ Unlisted' = Unlisted
          /\ Due' \subseteq Due /\ PipeRead' = PipeRead /\ dpc' = dpc
          /\ pipe' = pipe  BY DEF Poll, Writing, Waking, Unlisted, Due, PipeRead
    <2>3. pipe' <= pipe /\ Waking' <= Waking  BY <2>2, Numbers DEF IInv, TypeOK
    <2> QED  BY <2>1, <2>2, <2>3, FewerComing DEF Unread
  <1>3. CASE ~(PipeRead /\ dpc = "up")
    <2>1. PipeRead' = PipeRead /\ dpc' = dpc /\ pipe' = pipe
      BY DEF Poll, PipeRead
    <2> QED  BY <1>3, <2>1 DEF CInv, Counted
  <1> QED  BY <1>1, <1>2, <1>3

LEMMA CountHandle ==
    ASSUME CInv, NEW fd \in Fds, NEW finished \in BOOLEAN,
           Handle(fd, finished), IInv'
    PROVE  Counted'
  <1>1. /\ Writing' = Writing /\ Waking = 0 /\ Waking' = 0
        /\ Unlisted' = Unlisted /\ (PipeRead' <=> PipeRead) /\ dpc' = dpc
    BY DEF Handle, Writing, Waking, Unlisted, PipeRead
  <1>2. Due' \subseteq Due  BY DEF Handle, Takes, Due
  <1>3. pipe \in Nat /\ pipe' \in Nat /\ pipe' <= pipe
    BY DEF Handle, CInv, IInv, TypeOK
  <1>4. CASE fd # Rfd \/ ~("in" \in revents[fd]) \/ ~PipeRead
    <2>1. PipeRead' /\ dpc' = "up" /\ Unread => Unread'
      BY <1>1, <1>4 DEF Handle, Unread
    <2> QED  BY <1>1, <1>2, <1>3, <2>1, FewerComing
  <1>5. CASE fd = Rfd /\ "in" \in revents[fd] /\ PipeRead
    <2>1. pipe' = 0  BY <1>5 DEF Handle
    <2>2. CASE dpc = "up"
      <3>1. Cardinality(Unlisted) + Cardinality(Due) <= Cardinality(Sockets)
        BY <1>5, <2>2, HeldAreSockets, Parts, TwoPartsCount DEF CInv
      <3>2. Cardinality(Due') <= Cardinality(Due)  BY <1>2, Parts, PartCount
      <3>3. Coming' <= Early
        BY <1>1, <2>1, <3>1, <3>2, Numbers DEF Coming, Early
      <3>4. Coming' \in Nat  BY <2>1, Numbers DEF Coming
      <3> QED  BY <2>1, <3>3, <3>4, Numbers, PipeFromComing DEF IInv
    <2>3. CASE dpc # "up"  BY <1>1, <2>1, <2>3, Numbers, PipeFromComing DEF IInv
    <2> QED  BY <2>2, <2>3
  <1> QED  BY <1>4, <1>5

LEMMA CountRoundOver ==
    ASSUME CInv, RoundOver, IInv'
    PROVE  Counted'
  <1>1. /\ Writing' = Writing /\ Waking = 0 /\ Waking' = 0 /\ pipe' = pipe
        /\ Unlisted' = Unlisted /\ (PipeRead' <=> PipeRead) /\ dpc' = dpc
        /\ ~Unread
    BY DEF RoundOver, Writing, Waking, Unlisted, PipeRead, Unread
  <1>2. Due' \subseteq Due  BY DEF RoundOver, Due
  <1>3. pipe' <= pipe  BY <1>1 DEF IInv, TypeOK
  <1> QED  BY <1>1, <1>2, <1>3, FewerComing

LEMMA CountRemove ==
    ASSUME CInv, Remove, IInv'
    PROVE  Counted'
  <1>1. /\ Writing' = Writing /\ Waking = 0 /\ pipe' = pipe
        /\ (PipeRead' <=> PipeRead) /\ dpc' = dpc /\ (Unread' <=> Unread)
        /\ pc' = "unpoll" /\ Waking' = 1
    BY DEF Remove, Writing, Waking, PipeRead, Unread, CInv, IInv, Finished
  <1>2. CASE PipeRead /\ dpc = "up"
    <2>1. cur \in Due /\ cur \notin Unlisted
      BY <1>2, HeldAreSockets DEF CInv, Remove
    <2>2. Due' = Due \ {cur} /\ Unlisted' = Unlisted \cup {cur}
      BY <2>1 DEF Remove, Due, Unlisted, IInv, TypeOK, Finished, Finishing
    <2>3. /\ Cardinality(Due') = Cardinality(Due) - 1
          /\ Cardinality(Unlisted') = Cardinality(Unlisted) + 1
      BY <2>1, <2>2, Parts, PartCount, FS_RemoveElement, FS_AddElement
    <2>4. Coming' = Coming  BY <1>1, <2>3, Numbers DEF Coming, IInv, TypeOK
    <2> QED  BY <1>1, <2>4 DEF CInv, Counted
  <1>3. CASE ~(PipeRead /\ dpc = "up")  BY <1>1, <1>3 DEF CInv, Counted
  <1> QED  BY <1>2, <1>3

LEMMA CountLoopWrites ==
    ASSUME CInv, LoopWrites, IInv'
    PROVE  Counted'
  <1>1. /\ Writing' = Writing /\ Waking = 1 /\ Waking' = 0
        /\ Unlisted' = Unlisted /\ Due' = Due
        /\ (PipeRead' <=> PipeRead) /\ dpc' = dpc /\ (Unread' <=> Unread)
    BY DEF LoopWrites, Writing, Waking, Unlisted, Due, PipeRead, Unread
  <1>2. CASE PipeRead /\ dpc = "up"
    <2>1. pipe' = pipe + 1  BY <1>2 DEF LoopWrites, WriteByte, IInv, Ends
    <2>2. Coming' = Coming
      BY <1>1, <2>1, Numbers DEF Coming, CInv, IInv, TypeOK
    <2> QED  BY <1>1, <1>2, <2>2, PipeFromComing DEF CInv, IInv, Counted
  <1>3. CASE ~(PipeRead /\ dpc = "up")
    <2>1. pipe' = pipe  BY <1>3 DEF LoopWrites, WriteByte, IInv, Ends
    <2> QED  BY <1>1, <1>3, <2>1 DEF CInv, Counted
  <1> QED  BY <1>2, <1>3

LEMMA CountAdd ==
    ASSUME CInv, NEW c \in Clients, Add(c), IInv'
    PROVE  Counted'
  <1>1. /\ Waking' = Waking /\ pipe' = pipe /\ fds[cfd[c]] = 0
        /\ (PipeRead' <=> PipeRead) /\ dpc' = dpc /\ (Unread' <=> Unread)
        /\ Due' = Due
    BY DEF Add, Waking, PipeRead, Unread, Due, CInv, IInv, Held
  <1>2. CASE PipeRead /\ dpc = "up"
    <2>1. cfd[c] \in Unlisted /\ c \notin Writing
      BY <1>2, HeldAreSockets DEF CInv, Add, Writing
    <2>2. fds' = [fds EXCEPT ![cfd[c]] = cgen[c]] /\ cgen[c] # 0
          /\ cpc' = [cpc EXCEPT ![c] = "unpoll"]  BY DEF Add, CInv, IInv, Held
    <2>5. Unlisted' = Unlisted \ {cfd[c]}  BY <2>2 DEF Unlisted, IInv, TypeOK
    <2>6. Writing' = Writing \cup {c}  BY <2>2 DEF Writing, IInv, TypeOK
    <2>3. /\ Cardinality(Writing') = Cardinality(Writing) + 1
          /\ Cardinality(Unlisted') = Cardinality(Unlisted) - 1
      BY <2>1, <2>5, <2>6, Parts, PartCount, FS_RemoveElement, FS_AddElement
    <2>4. Coming' = Coming  BY <1>1, <2>3, Numbers DEF Coming, IInv, TypeOK
    <2> QED  BY <1>1, <2>4 DEF CInv, Counted
  <1>3. CASE ~(PipeRead /\ dpc = "up")  BY <1>1, <1>3 DEF CInv, Counted
  <1> QED  BY <1>2, <1>3

LEMMA CountClientWrites ==
    ASSUME CInv, NEW c \in Clients, ClientWrites(c), IInv'
    PROVE  Counted'
  <1>1. /\ Waking' = Waking /\ Unlisted' = Unlisted /\ Due' = Due
        /\ (PipeRead' <=> PipeRead) /\ dpc' = dpc /\ (Unread' <=> Unread)
    BY DEF ClientWrites, Waking, Unlisted, Due, PipeRead, Unread
  <1>2. CASE PipeRead /\ dpc = "up"
    <2>1. pipe' = pipe + 1  BY <1>2 DEF ClientWrites, WriteByte, IInv, Ends
    <2>2. c \in Writing /\ Writing' = Writing \ {c}
      BY DEF ClientWrites, Writing, IInv, TypeOK
    <2>3. Cardinality(Writing') = Cardinality(Writing) - 1
      BY <2>2, Parts, PartCount, FS_RemoveElement
    <2>4. Coming' = Coming
      BY <1>1, <2>1, <2>3, Numbers DEF Coming, CInv, IInv, TypeOK
    <2> QED  BY <1>1, <1>2, <2>4, PipeFromComing DEF CInv, IInv, Counted
  <1>3. CASE ~(PipeRead /\ dpc = "up")
    <2>1. pipe' = pipe  BY <1>3 DEF ClientWrites, WriteByte, IInv, Ends
    <2> QED  BY <1>1, <1>3, <2>1 DEF CInv, Counted
  <1> QED  BY <1>2, <1>3

\* The steps that write nothing and bring no byte nearer.
LEMMA CountOthers ==
    ASSUME CInv, Listed', IInv',
           \/ Interrupted \/ Unpoll \/ Close \/ Clean
           \/ \E c \in Clients : ClientUnpoll(c)
           \/ \E c \in Clients, fd \in Fds : Connect(c, fd)
           \/ Destroy \/ Unset \/ Join
           \/ \E fd \in Fds, kind \in Kinds : Arrive(fd, kind)
           \/ UNCHANGED vars
    PROVE  Counted'
  <1>1. pipe' = pipe /\ pipe' <= pipe
    BY DEF Interrupted, Unpoll, Close, Clean, ClientUnpoll, Connect,
           Destroy, Unset, Join, Arrive, IInv, TypeOK
  <1>2. CASE Interrupted
    BY <1>1, <1>2, FewerComing
       DEF Interrupted, PipeRead, Writing, Waking, Unlisted, Due, Unread
  <1>3. CASE Unpoll
    BY <1>1, <1>3, FewerComing
       DEF Unpoll, PipeRead, Writing, Waking, Unlisted, Due, Unread
  <1>4. CASE Close
    BY <1>1, <1>4, FewerComing
       DEF Close, PipeRead, Writing, Waking, Unlisted, Due, Unread
  <1>5. CASE Clean
    <2>1. ~(PipeRead' /\ dpc' = "up")  BY <1>5 DEF Clean, Listed
    <2> QED  BY <1>1, <2>1 DEF CInv, Counted
  <1>6. ASSUME NEW c \in Clients, ClientUnpoll(c) PROVE Counted'
    <2>1. Writing' \subseteq Writing  BY <1>6 DEF ClientUnpoll, Writing
    <2>2. /\ Waking' = Waking /\ Unlisted' = Unlisted /\ Due' = Due
          /\ PipeRead' = PipeRead /\ Unread' = Unread /\ dpc' = dpc
      BY <1>6 DEF ClientUnpoll, Waking, Unlisted, Due, PipeRead, Unread
    <2>3. Waking' <= Waking  BY <2>2, Numbers
    <2> QED  BY <1>1, <2>1, <2>2, <2>3, FewerComing
  <1>7. ASSUME NEW c \in Clients, NEW fd \in Fds, Connect(c, fd)
        PROVE  Counted'
    <2>1. Writing' \subseteq Writing  BY <1>7 DEF Connect, Writing
    <2>2. /\ Waking' = Waking /\ Unlisted' = Unlisted /\ Due' = Due
          /\ Unread' = Unread /\ dpc' = dpc
      BY <1>7 DEF Connect, Waking, Unlisted, Due, Unread
    <2>3. PipeRead' => PipeRead
      BY <1>7 DEF Connect, Opens, PipeRead, CInv, Listed, IInv, TypeOK
    <2>4. Waking' <= Waking  BY <2>2, Numbers
    <2> QED  BY <1>1, <2>1, <2>2, <2>3, <2>4, FewerComing
  <1>8. CASE Destroy  BY <1>8 DEF Destroy, CInv, Counted
  <1>9. CASE Unset \/ Join \/ UNCHANGED vars
    BY <1>1, <1>9, FewerComing
       DEF Unset, Join, PipeRead, Writing, Waking, Unlisted, Due, Unread
  <1>10. ASSUME NEW fd \in Fds, NEW kind \in Kinds, Arrive(fd, kind)
         PROVE  Counted'
    BY <1>1, <1>10, FewerComing
       DEF Arrive, PipeRead, Writing, Waking, Unlisted, Due, Unread
  <1> QED  BY <1>2, <1>3, <1>4, <1>5, <1>6, <1>7, <1>8, <1>9, <1>10

LEMMA CountInitially ==
    ASSUME Init, IInv
    PROVE  Listed /\ Counted
  <1>1. Listed  BY DEF Init, Listed
  <1>2. /\ pipe = 0 /\ Writing = {} /\ Waking = 0 /\ ~Unread
        /\ Due = {}  BY DEF Init, Writing, Waking, Unread, Due
  <1>3. Cardinality(Unlisted) <= Cardinality(Sockets)  BY Parts, PartCount
  <1>4. Coming <= Early  BY <1>2, <1>3, Numbers, FS_EmptySet DEF Coming, Early
  <1>5. pipe <= Late  BY <1>2, Numbers
  <1> QED  BY <1>1, <1>2, <1>4, <1>5 DEF Counted

\* The pipe never holds more than four bytes per socket number and one per
\* client, whatever its size.  So one with room for more is never full, and
\* neither a client nor the loop itself waits for the loop to empty it
\* (io.h:500).
THEOREM PipeNeverFull == Spec => [](pipe <= Late) /\ []NeverFull
  <1>1. CInv /\ IInv' /\ Listed' /\ [Next]_vars => CInv'
    BY CountSnapshot, CountPoll, CountHandle, CountRoundOver, CountRemove,
       CountLoopWrites, CountAdd, CountClientWrites, CountOthers
       DEF CInv, Next, LoopStep, ClientStep
  <1>2. CInv /\ IInv' /\ [Next]_vars => CInv'  BY <1>1, ListedKept DEF CInv
  <1>3. Init /\ IInv => CInv  BY CountInitially DEF CInv
  <1>4. CInv => NeverFull
    <2>1. Cardinality(Sockets) = Cardinality(Fds) - 2
      <3>1. Sockets = (Fds \ {Rfd}) \ {Wfd}  BY DEF Sockets
      <3>2. /\ IsFiniteSet(Fds \ {Rfd})
            /\ Cardinality(Fds \ {Rfd}) = Cardinality(Fds) - 1
        BY FS_RemoveElement
      <3>3. Cardinality(Sockets) = Cardinality(Fds \ {Rfd}) - 1
        BY <3>1, FS_RemoveElement
      <3>4. Cardinality(Fds) \in Nat  BY FS_CardinalityType
      <3> QED  BY <3>2, <3>3, <3>4
    <2> QED  BY <2>1, Numbers DEF CInv, Counted, IInv, TypeOK, Late, NeverFull
  <1>5. CInv => pipe <= Late  BY DEF CInv, Counted
  <1> QED  BY Invariance, <1>2, <1>3, <1>4, <1>5, PTL DEF Spec
=============================================================================
