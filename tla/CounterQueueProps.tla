--------------------------- MODULE CounterQueueProps ---------------------------
(***************************************************************************)
(* What the live line promises.                                            *)
(***************************************************************************)
EXTENDS CounterQueue

TypeOK ==
  /\ job \in [Jobs -> JobRows]
  /\ capacity \in Capacities
  /\ clock \in 0 .. MaxClock /\ now \in Nat
  /\ pending \subseteq Requests
  /\ sync \subseteq Procs
  /\ flight \in [Procs -> Flights]
  /\ faults \in 0 .. MaxFaults

NewlyRevealed == {j \in Jobs : job[j].revealed = 0 /\ job'[j].revealed # 0}

(* Concurrent passes of several processes never call more students to the     *)
(* counter than fit: whenever a step reveals someone, the line then has no    *)
(* more revealed jobs than the capacity its pass read (bands.ts:264-266).     *)
RevealsFitCounter ==
  [][NewlyRevealed # {} =>
       \E p \in Procs : flight[p].stage = "picked"
                          /\ Cardinality(Revealed') <= flight[p].slots]_vars

(* A reveal belongs to the present stay: a student who lost the place does not*)
(* keep the code, nor bring an old reveal or deadline into a new stay         *)
(* (engine.ts:414-420, 514-518).                                              *)
RevealBelongsToStay ==
  \A j \in Jobs :
    /\ InLine(j) => job[j].revealed \in {0, job[j].visit}
    /\ job[j].status \in LiveStatuses \ ActiveStatuses => job[j].revealed = 0 /\ job[j].place = 0
    /\ job[j].deadline # 0 => job[j].revealed # 0

(* The absent timer strikes only an overdue reveal, and that of the stay it   *)
(* read: a lookup, a release or a new check-in and reveal in between wins,    *)
(* although its guard knows no stay, only a deadline and the time it took     *)
(* (engine.ts:575-590).                                                       *)
TimerStrikesItsReveal ==
  [][\A r \in pending :
       r.op = "expire" /\ r \notin pending' /\ job'[r.job] # job[r.job]
         => Overdue(r.job) /\ r.visit = job[r.job].visit]_vars

(* Nobody is called before a student who stood ahead in the same line: of the *)
(* stays a pass saw, it reveals none and leaves one before it waiting         *)
(* (bands.ts:264).                                                            *)
StaysCalledInOrder ==
  [][\A p \in Procs : flight[p].stage = "picked" /\ job' # job =>
       \A j \in NewlyRevealed, k \in Unrevealed :
         /\ job[j].visit = flight[p].stays[j] /\ job[k].visit = flight[p].stays[k]
         /\ job[k].place < job[j].place
         => job'[k].revealed # 0]_vars

(* The statement of the pass "applies exactly the rule of assignBands()"       *)
(* (bands.ts:155): for every line it picks the students the preview would call *)
(* and those it would tell to come, who have not been told.                    *)
PassAppliesBands ==
  LET bands == AssignBands(LineInOrder, Revealed, capacity)
  IN \A i \in DOMAIN LineInOrder : LineInOrder[i] \in Unrevealed =>
       /\ LineInOrder[i] \in PickReveals(Unrevealed, Place, Free) <=> bands[i] = "revealed"
       /\ LineInOrder[i] \in PickArrivals(Unrevealed, Place, Free, Coming, capacity)
            <=> bands[i] = "arriving" /\ LineInOrder[i] \notin Coming

(* No wake-up is lost: when no reconcile is outstanding and no process has    *)
(* failed, no free place at the counter is left with a student waiting        *)
(* (revealPass coalesces the calls of a process: bands.ts:281-300).           *)
FreeSlotWaits == Free > 0 /\ Unrevealed # {}

Quiet == sync = {} /\ \A p \in Procs : flight[p].stage = "idle"

QuietLineIsServed == Quiet /\ faults = 0 => ~FreeSlotWaits

(* A paid order never ends cancelled unless its payer could still cancel it:  *)
(* of a release and a cancellation, closing or absence that race one wins     *)
(* (engine.ts:684-687, jobs/routes.ts:453).                                   *)
PaidOrderStands ==
  [][\A j \in Jobs \ Legacy :
       job'[j].status = "cancelled" /\ job[j].status # "cancelled" => job'[j].payment = "failed"]_vars

(* Every status is written along the shared table (stateMachine.ts).          *)
Machine == INSTANCE JobStateMachine WITH status <- [j \in Jobs |-> job[j].status]

FollowsStateMachine == Machine!Spec

(* A free place is filled although passes fail and processes die: the sweep   *)
(* repairs a lost re-sync (engine.ts:608-622).                                *)
FreeSlotIsFilled == FreeSlotWaits ~> ~FreeSlotWaits

(* A revealed student whose timer runs does not hold the place for good.      *)
DeadlineEnds == \A j \in Jobs : Armed(j) ~> ~Armed(j)

-----------------------------------------------------------------------------
(* The inductive invariant. *)

CheckIns == {r \in pending : r.op = "checkin"}

(* No two students hold the same place, in the line or on the way into it.     *)
PlacesDiffer ==
  /\ \A i, j \in Line : job[i].place = job[j].place => i = j
  /\ \A r, q \in CheckIns : r.place = q.place => r = q
  /\ \A r \in CheckIns, j \in Line : job[j].place # r.place
  /\ \A j \in Line : job[j].place <= clock
  /\ \A r \in CheckIns : r.place <= clock

(* What a handler read, it read in one of the statuses it accepts.             *)
Accepts(op, from) ==
  /\ op = "checkin" => from \in {"awaiting_arrival", "no_show", "requeued"}
  /\ op = "cancel" => from \in {"awaiting_arrival"} \cup ActiveStatuses
  /\ op \in {"absent", "expire"} => from \in ActiveStatuses
  /\ op = "grace" => from = "no_show"
  /\ op = "close" => from = "awaiting_arrival"

ReadStatuses == \A r \in pending : Accepts(r.op, r.from)

(* Only an order in the line is revealed, in a stay it has begun.              *)
RevealedInLine ==
  \A j \in Jobs : IF InLine(j) THEN job[j].visit # 0 ELSE job[j].revealed = 0

(* A deadline that had passed when an absent timer took the time is one of the *)
(* stay it read: a reveal writes its deadline ahead of the time it happens.    *)
TimersKeepTime ==
  \A r \in pending : r.op = "expire" =>
    /\ r.at <= now
    /\ job[r.job].deadline # 0 /\ job[r.job].deadline <= r.at => r.visit = job[r.job].visit

(* The reveals a pass has picked fit beside those the line already has.        *)
PicksFit ==
  \A p \in Procs : flight[p].stage = "picked" =>
    /\ \A q \in Procs : flight[q].stage = "picked" => q = p
    /\ \/ flight[p].reveal = {}
       \/ Cardinality(Revealed) + Cardinality(flight[p].reveal) <= flight[p].slots

(* Until it is released, an order that is not a legacy row owes its price.      *)
LiveOrdersOwe ==
  \A j \in Jobs \ Legacy : job[j].status \in LiveStatuses => job[j].payment = "due"

(* The picks of a pass in flight go by the stays it saw: stays only advance,   *)
(* and of two students who still wait in them the one ahead is picked first.   *)
WaitsInStay(j, p) == j \in Unrevealed /\ job[j].visit = flight[p].stays[j]

PicksInOrder ==
  \A p \in Procs : flight[p].stage = "picked" =>
    /\ \A j \in Jobs : flight[p].stays[j] <= job[j].visit
    /\ \A j, k \in Jobs :
         /\ WaitsInStay(j, p) /\ WaitsInStay(k, p) /\ job[k].place < job[j].place
         /\ j \in flight[p].reveal
         => k \in flight[p].reveal

(* Who will yet serve a free place: a caller that has not read the line, a pass *)
(* that has not, or one whose picks fill the counter or empty the line, or that *)
(* is followed by another.                                                      *)
PicksFill(p) ==
  \/ Unrevealed \subseteq flight[p].reveal
  \/ Cardinality(Revealed) + Cardinality(Unrevealed \cap flight[p].reveal) >= Slots(capacity)

ServiceComes ==
  \/ sync # {}
  \/ \E p \in Procs :
       \/ flight[p].stage = "waiting"
       \/ flight[p].stage = "picked" /\ (flight[p].next \/ PicksFill(p))

FreeSlotIsSeen == faults = 0 /\ FreeSlotWaits => ServiceComes

QueueInvariant ==
  /\ TypeOK /\ PlacesDiffer /\ ReadStatuses /\ RevealedInLine /\ RevealBelongsToStay /\ PicksFit
==============================================================================
