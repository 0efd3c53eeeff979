--------------------------- MODULE MCPrintDispatch ---------------------------
(* A small instance of PrintDispatch in two scenes.  "contested": two         *)
(* computers, one of which sends no session id, are heard of all the time and *)
(* compete for two attempts.  "lost": the second computer is deleted before   *)
(* anything else happens; the first, with heartbeats in transit, may fall     *)
(* silent, go offline or be deleted, too, in its one attempt.                 *)
EXTENDS PrintDispatchProps, TLC

CONSTANTS j1, a1, a2, p1

VARIABLE side

OnePrinter == [a \in Agents |-> {p1}]

(* Bounds of the scenes. *)
Contested ==
  /\ Troubled = {}
  /\ \A r \in pending : r.op \notin {"beat", "simulate"}

Lost ==
  /\ ~agent[a2].present /\ agent[a2].quiet = 0 /\ process[a2] = 1
  /\ \A j \in Jobs : job[j].attempts <= 1

Start == Init /\ side \in {"contested", "lost"}

Move ==
  /\ Next /\ UNCHANGED side
  /\ side = "contested" => Contested'
  /\ side = "lost" => Lost'

Prints == Start /\ [][Move]_<<vars, side>> /\ Fairness
==============================================================================
