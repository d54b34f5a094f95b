--------------------------- MODULE PartitionTable ---------------------------
(***************************************************************************)
(* What one user of file2disk is promised about the partition table of the *)
(* disk: the table the kernel serves (cache) changes one entry at a time,  *)
(* never the first one, which describes the volume the file lives on; an   *)
(* entry that is in use is replaced only after the user was asked for it;  *)
(* and what reaches the medium is the table as a whole.                    *)
(***************************************************************************)
EXTENDS Integers

CONSTANTS
    Tables,  \* the tables a disk may start with
    Linux    \* the entries file2disk writes

Slot == 0 .. 3

IsFree(e) == e.type = 0

VARIABLES
    cache,   \* the table as programs read it
    medium,  \* the table on the disk itself
    asked    \* the entries the running program may replace

vars == <<cache, medium, asked>>

Init ==
    /\ medium \in Tables
    /\ cache = medium
    /\ asked = {}

\* The user agrees to lose the entry of a slot, or a new run starts.
Ask(slots) ==
    /\ asked' = slots
    /\ UNCHANGED <<cache, medium>>

Assign(i) ==
    /\ IsFree(cache[i]) \/ i \in asked
    /\ cache' = [cache EXCEPT ![i] = cache'[i]]
    /\ cache'[i] \in Linux
    /\ UNCHANGED <<medium, asked>>

\* The table reaches the medium.
Flush ==
    /\ medium' = cache
    /\ UNCHANGED <<cache, asked>>

\* The disk loses power or is pulled out: what was not flushed is gone.
PowerLoss ==
    /\ cache' = medium
    /\ asked' = {}
    /\ UNCHANGED medium

Next ==
    \/ \E slots \in SUBSET (Slot \ {0}) : Ask(slots)
    \/ \E i \in Slot \ {0} : Assign(i)
    \/ Flush
    \/ PowerLoss

Spec == Init /\ [][Next]_vars
=============================================================================
