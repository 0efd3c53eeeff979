---------------------------- MODULE MCCounterDesk ----------------------------
(* One desk, two orders, two requests under way; all alike.                   *)
EXTENDS CounterDesk, TLC

CONSTANTS o1, o2, p1, p2, c1, c2
==============================================================================
