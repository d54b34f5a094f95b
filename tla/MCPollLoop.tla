---------------------------- MODULE MCPollLoop ----------------------------
(* Instances of PollLoop for TLC: the pipe lies between two socket numbers, *)
(* so that a round handles one before it empties the pipe and one after.   *)
EXTENDS PollLoop

CONSTANTS c1, c2

MCFds == 1..4
MCOne == {c1}
MCTwo == {c1, c2}
=============================================================================
