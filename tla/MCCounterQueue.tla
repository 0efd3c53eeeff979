---------------------------- MODULE MCCounterQueue ----------------------------
(* Small instances of CounterQueue: two orders, one process that is API and   *)
(* worker at once, or two processes that serve requests.                     *)
EXTENDS CounterQueueProps, TLC

CONSTANTS j1, j2, server, api, worker

Students == Permutations(Jobs \ Legacy)

(* At the start, those leftovers of the retired model that are in the line    *)
(* were paid online, and those out of it owe.                                 *)
Leftovers == Init /\ \A j \in Legacy : InLine(j) <=> job[j].payment = "paid"

Repair == Leftovers /\ [][Next]_vars /\ Fairness
==============================================================================
