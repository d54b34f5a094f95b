------------------------------ MODULE FatVolume ------------------------------
(***************************************************************************)
(* The file allocation table of a FAT32 volume as fd.h reads it: an array  *)
(* of nfat1 words, in which the word of a cluster is the number of the     *)
(* next cluster of the chain or a mark that ends it.                       *)
(*                                                                         *)
(* Everything here is a value computed from one table.  The loop that      *)
(* walks it, step by step, is module Travel, which is checked and proved   *)
(* against these definitions.                                              *)
(***************************************************************************)
EXTENDS Integers

CONSTANTS
    NFat,    \* nfat1: the number of words of the table
    EocMin   \* 0x0FFFFFF8: a word this large or larger ends a chain

\* A volume has at least one data cluster (2 is the first), and the end
\* marks lie above every cluster number, so next = start + 1 is never one.
\* nfat1 comes from a 32-bit field that travel() takes as it is; FAT32
\* keeps the table shorter than its end marks.
ASSUME FatAssumption == /\ NFat \in Nat
                        /\ EocMin \in Nat
                        /\ 2 < NFat
                        /\ NFat < EocMin

Cluster == 0 .. (NFat - 1)

FatTable == [Cluster -> Nat]

(***************************************************************************)
(* What a word says.  The words from NFat to EocMin - 1 (the bad-cluster   *)
(* mark 0x0FFFFFF7 is one) are no cluster and end no chain.                *)
(***************************************************************************)
Startable(b) == b \in 2 .. (NFat - 1)

Last(fat, c) == fat[c] >= EocMin

Linked(fat, c) == fat[c] \in Cluster \ {c}

Broken(fat, c) == ~Last(fat, c) /\ ~Linked(fat, c)

(***************************************************************************)
(* The clusters reachable from b: the least set that holds b and the       *)
(* successor of each linked cluster in it.                                 *)
(***************************************************************************)
Closed(fat, S) == \A c \in S : Linked(fat, c) => fat[c] \in S

ChainOf(fat, b) ==
    {c \in Cluster :
        \A S \in SUBSET Cluster : b \in S /\ Closed(fat, S) => c \in S}

(***************************************************************************)
(* The three ways a walk from b may go.                                    *)
(***************************************************************************)
Sound(fat, b) == Startable(b) /\ \E c \in ChainOf(fat, b) : Last(fat, c)

Endless(fat, b) == Startable(b) /\ \A c \in ChainOf(fat, b) : Linked(fat, c)

TravelEnd(fat, b) ==
    IF Sound(fat, b) THEN "done" ELSE IF Endless(fat, b) THEN "spin" ELSE "failed"

(***************************************************************************)
(* A chain that is one run of consecutive clusters b, b+1, ..., e.         *)
(***************************************************************************)
RunTo(fat, b, e) == \A c \in b .. (e - 1) : fat[c] = c + 1

OneExtent(fat, b) == \E e \in b .. (NFat - 1) : Last(fat, e) /\ RunTo(fat, b, e)

\* The cluster number k of a chain, from 0; NFat, which is none, beyond it.
NthCluster(fat, b) ==
    LET nth[k \in Nat] ==
            IF k = 0 THEN b
            ELSE IF nth[k - 1] \in Cluster /\ Linked(fat, nth[k - 1])
            THEN fat[nth[k - 1]]
            ELSE NFat
    IN  nth
==============================================================================
