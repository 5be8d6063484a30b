---------------------------- MODULE MCRetryProxy ----------------------------
(* Instances of RetryProxy for TLC. *)
EXTENDS RetryProxy

CONSTANTS p1, p2, p3

Ports == {p1, p2, p3}
SomeLists == {<<>>, <<p1>>, <<p2, p1>>, <<p1, p2, p3>>}
=============================================================================
