------------------------------ MODULE MCTravel ------------------------------
(***************************************************************************)
(* Every table of NFat words over the words that differ for travel(): each *)
(* cluster, a word that is neither cluster nor end mark, and an end mark;  *)
(* starts on both sides of each bound; a visitor that never stops or stops *)
(* at a given cluster; reads that start and end on both sides of every     *)
(* cluster boundary of the longest chain, and behind it.                   *)
(***************************************************************************)
EXTENDS Travel, FileRead

\* The words 0 and 1 are reserved, and a chain can still be linked to them.
MCFats == [Cluster -> Cluster \union {NFat, EocMin}]
MCFirsts == {0, 1, 2, NFat - 1, NFat}
MCStops == {{}} \union {{c} : c \in {NFat - 1}}

\* preadFile() depends on the table and the start only: it is looked at once,
\* before the walk of Travel.  What the words 0 and 1 lead to matters to it
\* only in that they end the chain or go on.
PositionedReads ==
    /\ pc = "check" /\ stops = {} /\ Startable(first)
    /\ {fat[0], fat[1]} \subseteq {EocMin, NFat - 1}
    =>
        \A offset, count \in 0..(2 * Block + 1) :
            /\ ReadsAlong(fat, first, count, offset)
            /\ ProperChain(fat, first) => ReadsPart(fat, first, count, offset)
=============================================================================
