------------------------------- MODULE Travel -------------------------------
(***************************************************************************)
(* DosFd::travel (fd.h), the loop under every walk of a cluster chain, one *)
(* iteration per step, with the visitors chain() and nchain() pass to it.  *)
(* A visitor may also stop the walk, as those of preadFile() and           *)
(* readRoot() do: stops is the set of clusters where it returns false, and *)
(* is empty for chain(), nchain() and readFile().                          *)
(***************************************************************************)
EXTENDS FatVolume

CONSTANTS
    Fats,    \* the tables to walk
    Firsts,  \* the start clusters handed to travel()
    Stops    \* the possible values of stops

ASSUME TravelAssumption == /\ Fats \subseteq FatTable
                           /\ Firsts \subseteq Nat
                           /\ Stops \subseteq SUBSET Cluster

VARIABLES
    fat,     \* fat1
    first,   \* travel's argument start_
    stops,
    pos,     \* travel's variable start
    seen,    \* the clusters chain() has pushed
    frags,   \* nchain()'s counter ret, capped at Many
    pc

vars == <<fat, first, stops, pos, seen, frags, pc>>

\* Callers of nchain() only ask whether it returned 1.
Many == 2

Init ==
    /\ fat \in Fats
    /\ first \in Firsts
    /\ stops \in Stops
    /\ pos = first
    /\ seen = {}
    /\ frags = 0
    /\ pc = "check"

\* A wrong variant: the walk may start at one of the reserved words.
CheckAnyStart ==
    /\ pc = "check"
    /\ pc' = IF first \in Cluster THEN "loop" ELSE "failed"
    /\ UNCHANGED <<fat, first, stops, pos, seen, frags>>

\* A wrong variant: the start is not compared with the length of the table.
CheckUnbounded ==
    /\ pc = "check"
    /\ pc' = IF first >= 2 THEN "loop" ELSE "failed"
    /\ UNCHANGED <<fat, first, stops, pos, seen, frags>>

\* The three assertions on the start cluster.
Check ==
    /\ pc = "check"
    /\ pc' = IF Startable(first) THEN "loop" ELSE "failed"
    /\ UNCHANGED <<fat, first, stops, pos, seen, frags>>

\* A wrong variant: the end of the chain is not counted as a break.
VisitorInnerBreaks ==
    /\ seen' = seen \union {pos}
    /\ frags' = IF /\ pos + 1 # fat[pos]
                   /\ ~Last(fat, pos)
                   /\ frags < Many
                THEN frags + 1 ELSE frags

\* A wrong variant: the last cluster is not visited.
VisitorUntilLast ==
    /\ seen' = IF Last(fat, pos) THEN seen ELSE seen \union {pos}
    /\ frags' = IF pos + 1 # fat[pos] /\ frags < Many THEN frags + 1 ELSE frags

\* Func(start,next): chain() records the cluster, nchain() counts a break.
Visitor ==
    /\ seen' = seen \union {pos}
    /\ frags' = IF pos + 1 # fat[pos] /\ frags < Many THEN frags + 1 ELSE frags

\* A wrong variant: a cluster linked to itself is followed.
VisitSelfLink ==
    /\ pc = "loop"
    /\ Visitor
    /\ \/ /\ pos \in stops \/ Last(fat, pos)
          /\ pc' = "done"
          /\ pos' = pos
       \/ /\ pos \notin stops
          /\ ~Last(fat, pos)
          /\ fat[pos] \notin Cluster
          /\ pc' = "failed"
          /\ pos' = pos
       \/ /\ pos \notin stops
          /\ fat[pos] \in Cluster
          /\ pc' = "loop"
          /\ pos' = fat[pos]
    /\ UNCHANGED <<fat, first, stops>>

\* One iteration: visit, then stop, fail or follow the link.
Visit ==
    /\ pc = "loop"
    /\ Visitor
    /\ \/ /\ pos \in stops \/ Last(fat, pos)
          /\ pc' = "done"
          /\ pos' = pos
       \/ /\ pos \notin stops
          /\ Broken(fat, pos)
          /\ pc' = "failed"
          /\ pos' = pos
       \/ /\ pos \notin stops
          /\ Linked(fat, pos)
          /\ pc' = "loop"
          /\ pos' = fat[pos]
    /\ UNCHANGED <<fat, first, stops>>

Next == Check \/ Visit

\* travel() is a plain loop in one thread: it takes its next step if it has one.
Fairness == WF_vars(Next)

Spec == Init /\ [][Next]_vars

FairSpec == Spec /\ Fairness

-----------------------------------------------------------------------------
Ended == pc \in {"done", "failed"}

TypeOK ==
    /\ fat \in FatTable
    /\ first \in Nat
    /\ stops \subseteq Cluster
    /\ pos \in Nat
    /\ seen \subseteq Cluster
    /\ frags \in 0 .. Many
    /\ pc \in {"check", "loop", "done", "failed"}
    /\ pc = "loop" => pos \in Cluster

\* nchain() returns 1 exactly for a chain that is a single run of
\* consecutive clusters; a partition entry can describe no other file, and
\* file2disk() relies on nothing else to tell (nchain==1).
NchainOneIffExtent ==
    pc = "done" /\ stops = {} => (frags = 1 <=> OneExtent(fat, first))

\* A walk nobody stops visits the whole chain and nothing else, also when
\* clusters are chained backwards or across the table.
SeesWholeChain == pc = "done" /\ stops = {} => seen = ChainOf(fat, first)

\* How a walk nobody stops ends is decided by the table: it is done when the
\* chain reaches an end mark, and fails on a bad start, a bad word or a
\* cluster linked to itself.  A longer cycle is neither: its walk never ends.
OutcomeMatchesShape ==
    Ended /\ stops = {} => pc = TravelEnd(fat, first)

\* The walk comes back to its caller unless the chain is a cycle of two or
\* more clusters, the one shape travel() has no assertion against.
ReturnsUnlessCyclic == ~Endless(fat, first) ~> Ended
=============================================================================
