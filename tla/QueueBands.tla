------------------------------ MODULE QueueBands ------------------------------
(***************************************************************************)
(* Who may stand at the counter.  The rule exists twice in the code, as a  *)
(* pass over the line in JavaScript (assignBands) and as one SQL statement *)
(* (lockedRevealPass).  Each is translated here on its own: the preview    *)
(* decides by the first whether a pass is called, which works by the other.*)
(***************************************************************************)
EXTENDS Integers, Sequences, FiniteSets

(* A capacity below COUNTER_CAPACITY_MIN counts as one. *)
Slots(capacity) == IF capacity < 1 THEN 1 ELSE capacity

FreeSlots(capacity, taken) ==
  IF taken < Slots(capacity) THEN Slots(capacity) - taken ELSE 0

(* assignBands: one pass over the line, handing out the free slots and then   *)
(* `capacity` places to come; a revealed job keeps its band.  `line` is a     *)
(* sequence of jobs, the result the sequence of their bands; left[i] is what  *)
(* the first i jobs leave to be handed out.                                   *)
AssignBands(line, isRevealed, capacity) ==
  LET taken == Cardinality({i \in DOMAIN line : line[i] \in isRevealed})
      left[i \in 0 .. Len(line)] ==
        IF i = 0 THEN [free |-> FreeSlots(capacity, taken), arriving |-> Slots(capacity)]
        ELSE IF line[i] \in isRevealed THEN left[i - 1]
        ELSE IF left[i - 1].free > 0 THEN [left[i - 1] EXCEPT !.free = @ - 1]
        ELSE IF left[i - 1].arriving > 0 THEN [left[i - 1] EXCEPT !.arriving = @ - 1]
        ELSE left[i - 1]
  IN [i \in 1 .. Len(line) |->
        IF line[i] \in isRevealed \/ left[i - 1].free > 0 THEN "revealed"
        ELSE IF left[i - 1].arriving > 0 THEN "arriving"
        ELSE "waiting"]

(* queueBand: the band of a place in a line without reveals. *)
QueueBand(position, capacity) ==
  IF position <= Slots(capacity) THEN "revealed"
  ELSE IF position <= 2 * Slots(capacity) THEN "arriving"
  ELSE "waiting"

(* needsReconcile: would a pass have anything to write? *)
NeedsReconcile(line, isRevealed, isComing, capacity) ==
  LET bands == AssignBands(line, isRevealed, capacity)
  IN \E i \in DOMAIN line :
       /\ line[i] \notin isRevealed
       /\ \/ bands[i] = "revealed"
          \/ bands[i] = "arriving" /\ line[i] \notin isComing

-----------------------------------------------------------------------------
(* The statement of lockedRevealPass, over the rows `unrevealed` of the line  *)
(* (CTE un) whose queuedAt is place[j].                                       *)

(* Fault: the line is ranked from its end.                                    *)
RankFromBack(j, unrevealed, place) ==
  Cardinality({k \in unrevealed : place[k] >= place[j]})

(* urank: row_number() OVER (ORDER BY pos). *)
Rank(j, unrevealed, place) ==
  Cardinality({k \in unrevealed : place[k] <= place[j]})

PickReveals(unrevealed, place, free) ==
  {j \in unrevealed : Rank(j, unrevealed, place) <= free}

PickArrivals(unrevealed, place, free, isComing, capacity) ==
  {j \in unrevealed \ isComing :
     /\ Rank(j, unrevealed, place) > free
     /\ Rank(j, unrevealed, place) <= free + Slots(capacity)}
==============================================================================
