---------------------------- MODULE MCSwarmRead ----------------------------
(* Instances of SwarmRead for TLC. Four names of sockets for two peers, so  *)
(* that old ones may still be open when two new ones are connected.        *)
EXTENDS SwarmRead

MCThreeConns == 1..3
MCFourConns == 1..4

\* One peer, however quick; two that are slower than the connecting.
MCSwarms == {[peers |-> 1, quick |-> TRUE], [peers |-> 2, quick |-> FALSE]}
MCTwoQuick == {[peers |-> 2, quick |-> TRUE]}
=============================================================================
