----------------------------- MODULE CounterQueue -----------------------------
(***************************************************************************)
(* The live walk-in line of one shop: students check in, cancel or are     *)
(* marked absent, staff look an order up by its counter code and release   *)
(* it, timers expire reveals and close unused orders, the owner resizes    *)
(* the counter, and reveal passes of several processes hand out its free   *)
(* places under a database lock.                                           *)
(*                                                                         *)
(* As in PrintDispatch, the read of a handler and its guarded UPDATE are   *)
(* two actions, with a record in `pending` between them; a write that      *)
(* loses its race is Lost.                                                 *)
(***************************************************************************)
EXTENDS Integers, FiniteSets, QueueBands

CONSTANTS
  Jobs,          \* unreleased orders of the shop
  Legacy,        \* those written under the retired timed-turn model
  Forgotten,     \* those whose students may stay away past the TTL
  Api, Worker,   \* server processes: request handlers; timers and sweeps
                 \* (one process may be both, WORKER_ROLE)
  Capacities,    \* the values of counterCapacity the owner chooses from
  Graces,        \* the values of revealGraceSeconds, in units longer than a pass may last
  MaxVisit,      \* bound: stays in the line per order
  MaxClock,      \* bound: queuedAt timestamps handed out
  MaxPending,    \* bound: handlers between read and write, of timers and of others
  MaxFaults      \* bound: failed passes and died processes

ASSUME QueueAssumption ==
  /\ IsFiniteSet(Jobs) /\ Legacy \subseteq Jobs /\ Forgotten \subseteq Jobs /\ Worker # {}
  /\ Capacities \subseteq Nat /\ Capacities # {} /\ Graces \subseteq Nat \ {0} /\ Graces # {}
  /\ MaxVisit \in Nat \ {0} /\ MaxClock \in Nat /\ Cardinality(Legacy) <= MaxClock
  /\ MaxPending \in Nat /\ MaxFaults \in Nat

VARIABLES
  job,        \* the columns of Job the line reads and writes
  capacity,   \* Shop.counterCapacity
  clock,      \* the last queuedAt handed out
  now,        \* the time of day the deadlines are compared with
  pending,    \* handlers between their read and their write
  sync,       \* processes with a reconcileShopQueue call that has not read yet
  flight,     \* flight[p]: the entry of `flights` for the shop in process p
  faults      \* history: failed passes and died processes

vars == <<job, capacity, clock, now, pending, sync, flight, faults>>

Procs == Api \cup Worker

-----------------------------------------------------------------------------
(* Data. *)

LiveStatuses == {"awaiting_arrival", "queued", "notified", "no_show", "requeued"}
ActiveStatuses == {"queued", "notified"}

(* place: queuedAt, 0 is NULL.  visit: the number of the stay in the line     *)
(* (checkInCount, counting the stay of a legacy row).  revealed: 0 while      *)
(* revealedAt is NULL, otherwise the visit in which it was written.           *)
(* deadline: revealDeadlineAt, 0 is NULL.  coming: arrivingNotifiedAt.  aged:  *)
(* updatedAt is older than PREPARED_ORDER_TTL.                                *)
(* (absentAt and absentReason are shown to people and decide nothing.)        *)
JobRows ==
  [status: LiveStatuses \cup {"otp_verified", "cancelled"},
   payment: {"due", "paid", "failed"},
   place: 0 .. MaxClock, visit: 0 .. MaxVisit, revealed: 0 .. MaxVisit,
   deadline: Nat, coming: BOOLEAN, aged: BOOLEAN]

(* A handler past its read: `from` is the status it read, `visit` the stay it  *)
(* read, `place` the queuedAt it will write, `at` the time an absent timer took*)
(* before its read, `by` its process.  An "asked" record is the question       *)
(* releaseByOtp answered with, on the staff's screen.                          *)
Requests ==
  [op: {"checkin", "cancel", "absent", "expire", "grace", "close", "disarm", "asked", "release"},
   job: Jobs, by: Procs, from: LiveStatuses, visit: 0 .. MaxVisit, place: 0 .. MaxClock,
   at: Nat]

Request(op, j, p) ==
  [op |-> op, job |-> j, by |-> p, from |-> job[j].status, visit |-> job[j].visit, place |-> 0,
   at |-> IF op = "expire" THEN now ELSE 0]

(* startPass puts a "waiting" entry (transaction open, lock not taken); once  *)
(* the statement has its snapshot it is "picked".  next: one follow-up pass.  *)
(* stays: the line in the snapshot, as the visit of each job in it.           *)
Flights ==
  [stage: {"idle", "waiting", "picked"}, next: BOOLEAN, reveal: SUBSET Jobs,
   arrive: SUBSET Jobs, slots: Nat, stays: [Jobs -> 0 .. MaxVisit]]

NoStays == [j \in Jobs |-> 0]

Flight(stage) ==
  [stage |-> stage, next |-> FALSE, reveal |-> {}, arrive |-> {}, slots |-> 0, stays |-> NoStays]

(* A row that is not in the line. *)
Prepared(status, payment) ==
  [status |-> status, payment |-> payment, place |-> 0, visit |-> 0, revealed |-> 0,
   deadline |-> 0, coming |-> FALSE, aged |-> FALSE]

(* A legacy row that waits in the line, or whose timed turn is running. *)
LegacyStay(status, payment, n) == [Prepared(status, payment) EXCEPT !.place = n, !.visit = 1]

InitialRows(j) ==
  IF j \notin Legacy THEN {Prepared("awaiting_arrival", "due")}
  ELSE {Prepared(s, pay) : s \in {"no_show", "requeued"}, pay \in {"due", "paid"}}
       \cup {LegacyStay(s, pay, n) :
                s \in ActiveStatuses, pay \in {"due", "paid"}, n \in 1 .. Cardinality(Legacy)}

-----------------------------------------------------------------------------
(* The line: bands.ts, loadShopQueue and the CTE of lockedRevealPass. *)

InLine(j) == job[j].status \in ActiveStatuses

Line == {j \in Jobs : InLine(j)}
Revealed == {j \in Line : job[j].revealed # 0}
Unrevealed == {j \in Line : job[j].revealed = 0}
Coming == {j \in Line : job[j].coming}
Place == [j \in Jobs |-> job[j].place]

LineInOrder ==
  CHOOSE line \in [1 .. Cardinality(Line) -> Line] :
    \A i, k \in DOMAIN line : i < k => job[line[i]].place < job[line[k]].place

WorkForPass == NeedsReconcile(LineInOrder, Revealed, Coming, capacity)

Free == FreeSlots(capacity, Cardinality(Revealed))

(* Fault: the advisory lock is per process.                                   *)
LockFreeHere == TRUE

(* pg_advisory_xact_lock: held from the snapshot to the commit. *)
LockFree == \A p \in Procs : flight[p].stage # "picked"

-----------------------------------------------------------------------------
(* Fault: a caller joins the pass that is already running.                    *)
WithPassJoined(p) ==
  IF flight[p].stage = "idle" THEN [flight EXCEPT ![p] = Flight("waiting")] ELSE flight

(* revealPass: one pass running and one queued per process.                   *)
WithPass(p) ==
  IF flight[p].stage = "idle" THEN [flight EXCEPT ![p] = Flight("waiting")]
  ELSE [flight EXCEPT ![p].next = TRUE]

(* The pass settles: the follow-up starts, or the entry is deleted.           *)
Settled(p) == [flight EXCEPT ![p] = Flight(IF @.next THEN "waiting" ELSE "idle")]

(* reconcileShopQueue: preview, and a pass only if there is something to do.  *)
Reconcile(p) ==
  /\ p \in sync
  /\ sync' = sync \ {p}
  /\ flight' = IF WorkForPass THEN WithPass(p) ELSE flight
  /\ UNCHANGED <<job, capacity, clock, now, pending, faults>>

(* lockedRevealPass: the lock is taken, then the statement takes a snapshot.  *)
PassRead(p) ==
  /\ flight[p].stage = "waiting"
  /\ LockFree
  /\ flight' = [flight EXCEPT ![p] =
       [stage |-> "picked", next |-> @.next,
        reveal |-> PickReveals(Unrevealed, Place, Free),
        arrive |-> PickArrivals(Unrevealed, Place, Free, Coming, capacity),
        slots |-> Slots(capacity),
        stays |-> [j \in Jobs |-> IF InLine(j) THEN job[j].visit ELSE 0]]]
  /\ UNCHANGED <<job, capacity, clock, now, pending, sync, faults>>

(* ... and updates each picked row that is still in the line and un-won.  The  *)
(* `now` of a pass is younger than QUEUE_SYNC_TX_TIMEOUT_MS, which is shorter *)
(* than a grace: a deadline is ahead when it is written.                      *)
Won(row, isReveal, deadline) ==
  IF isReveal THEN [row EXCEPT !.revealed = row.visit, !.deadline = deadline, !.aged = FALSE]
  ELSE [row EXCEPT !.coming = TRUE, !.aged = FALSE]

Called(p, deadline) ==
  [j \in Jobs |->
     IF j \in Unrevealed
        /\ (j \in flight[p].reveal \/ (j \in flight[p].arrive /\ ~job[j].coming))
       THEN Won(job[j], j \in flight[p].reveal, deadline)
       ELSE job[j]]

PassWrite(p) ==
  /\ flight[p].stage = "picked"
  /\ \E grace \in Graces : job' = Called(p, now + grace)
  /\ flight' = Settled(p)
  /\ UNCHANGED <<capacity, clock, now, pending, sync, faults>>

(* The transaction fails or times out; its callers log the error.             *)
PassFails(p) ==
  /\ flight[p].stage # "idle" /\ faults < MaxFaults
  /\ flight' = Settled(p)
  /\ faults' = faults + 1
  /\ UNCHANGED <<job, capacity, clock, now, pending, sync>>

(* A server process dies and restarts with empty memory.                      *)
ProcessDies(p) ==
  /\ faults < MaxFaults
  /\ flight' = [flight EXCEPT ![p] = Flight("idle")]
  /\ sync' = sync \ {p}
  /\ pending' = {r \in pending : r.by # p \/ r.op = "asked"}
  /\ faults' = faults + 1
  /\ UNCHANGED <<job, capacity, clock, now>>

(* Fault: only lines with a revealed job are looked at.                       *)
SweepServedLines(p) ==
  /\ p \in Worker /\ p \notin sync
  /\ Revealed # {}
  /\ sync' = sync \cup {p}
  /\ UNCHANGED <<job, capacity, clock, now, pending, flight, faults>>

(* sweepExpiredReveals, second half: every 10 s, for a line with anyone       *)
(* unrevealed.  (It reconciles again after a pass that did something; so does *)
(* its next run.)                                                             *)
Sweep(p) ==
  /\ p \in Worker /\ p \notin sync
  /\ Unrevealed # {}
  /\ sync' = sync \cup {p}
  /\ UNCHANGED <<job, capacity, clock, now, pending, flight, faults>>

(* PATCH /settings. *)
SetCapacity(c, p) ==
  /\ p \in Api /\ c # capacity
  /\ capacity' = c
  /\ sync' = sync \cup {p}
  /\ UNCHANGED <<job, clock, now, pending, flight, faults>>

-----------------------------------------------------------------------------
(* Handlers: the read. *)

TimerOps == {"expire", "grace", "close"}

HasRoom(op) ==
  Cardinality({r \in pending : r.op \in TimerOps <=> op \in TimerOps}) < MaxPending

Read(op, j, p, Kind) ==
  /\ p \in Kind /\ HasRoom(op)
  /\ pending' = pending \cup {Request(op, j, p)}
  /\ UNCHANGED <<job, capacity, clock, now, sync, flight, faults>>

(* checkInJob: an answer without a change when the order is already queued.   *)
(* queuedAt is taken in the same step of the event loop as the checks.        *)
CheckInRead(j, p) ==
  /\ job[j].status \in {"awaiting_arrival", "no_show", "requeued"}
  /\ job[j].payment \in {"due", "paid"}
  /\ job[j].visit < MaxVisit /\ clock < MaxClock
  /\ p \in Api /\ HasRoom("checkin")
  /\ clock' = clock + 1
  /\ pending' = pending \cup {[Request("checkin", j, p) EXCEPT !.place = clock + 1]}
  /\ UNCHANGED <<job, capacity, now, sync, flight, faults>>

(* POST /jobs/:id/cancel; a confirmed counter payment needs an audited refund,*)
(* a legacy online payment is refunded.                                       *)
CancelRead(j, p) ==
  /\ job[j].status \in {"awaiting_arrival"} \cup ActiveStatuses
  /\ job[j].payment = "due" \/ j \in Legacy
  /\ Read("cancel", j, p, Api)

(* removeFromLiveQueue: the staff button, or the worker for a legacy timer of *)
(* a notified order (handleNoShowCheck).                                      *)
AbsentRead(j, p) ==
  /\ InLine(j)
  /\ \/ Read("absent", j, p, Api)
     \/ job[j].status = "notified" /\ Read("absent", j, p, Worker)

(* expireReveal, from the delayed timer or the sweep over overdue deadlines:  *)
(* it takes the time, then its read finds a deadline that has passed by then. *)
Armed(j) == InLine(j) /\ job[j].revealed # 0 /\ job[j].deadline # 0

Overdue(j) == Armed(j) /\ job[j].deadline <= now

(* Fault: the timer handles notified orders only.                             *)
ExpireReadNotified(j, p) ==
  Overdue(j) /\ job[j].status = "notified" /\ Read("expire", j, p, Worker)

ExpireRead(j, p) == Overdue(j) /\ Read("expire", j, p, Worker)

(* handleGraceExpiry: an old grace timer of a no-show. *)
GraceRead(j, p) == job[j].status = "no_show" /\ Read("grace", j, p, Worker)

(* expireStalePreparedOrders: the hourly batch; its orders are closed one     *)
(* after the other, each some time after the read.                            *)
CloseRead(j, p) ==
  /\ job[j].status = "awaiting_arrival" /\ job[j].payment = "due" /\ job[j].aged
  /\ Read("close", j, p, Worker)

(* releaseByOtp finds the order. *)
Findable(j) == job[j].status \in LiveStatuses /\ job[j].payment \in {"due", "paid"}

(* ... and cannot finish: staff must confirm the payment, the printer or the  *)
(* turn.  Only a deadline that is set is disarmed first.                      *)
LookUp(j, p) ==
  /\ Findable(j)
  /\ Read(IF InLine(j) /\ job[j].deadline # 0 THEN "disarm" ELSE "asked", j, p, Api)

(* ... and goes on to release it. *)
ReleaseRead(j, p) == Findable(j) /\ Read("release", j, p, Api)

-----------------------------------------------------------------------------
(* Handlers: the write.  r \in pending; Guard(r) is its WHERE clause.         *)

(* Fault: the reveal survives the absence.                                    *)
OutOfLineOnly(row) == [row EXCEPT !.place = 0, !.coming = FALSE]

(* The stay ends: the columns markAbsent clears. *)
OutOfLine(row) ==
  [row EXCEPT !.place = 0, !.revealed = 0, !.deadline = 0, !.coming = FALSE]

(* Fault: any deadline will do.                                               *)
AnyDeadline(r) == job[r.job].revealed # 0 /\ job[r.job].deadline # 0

(* The guard expireReveal adds: the deadline of the row, whichever reveal set *)
(* it, compared with the time taken before the read.                          *)
StillOverdue(r) ==
  job[r.job].revealed # 0 /\ job[r.job].deadline # 0 /\ job[r.job].deadline <= r.at

(* Fault: an update by id.                                                    *)
NoGuard(r) == TRUE

Guard(r) ==
  CASE r.op = "disarm" -> InLine(r.job)
    [] r.op = "expire" -> job[r.job].status = r.from /\ StillOverdue(r)
    [] OTHER -> job[r.job].status = r.from

(* The rows they write.  A cancellation and a release leave the columns of    *)
(* the line as they are; every reader of them asks for an active status, which*)
(* the order never has again, and the model forgets them.  A cancellation     *)
(* writes the payment for the row it read; the payment only changes together  *)
(* with a status its guard no longer accepts, so that is the row here.        *)
CheckedIn(row, place) ==
  [OutOfLine(row) EXCEPT !.status = "queued", !.place = place, !.visit = @ + 1]

Cancelled(row) ==
  [OutOfLine(row) EXCEPT !.status = "cancelled",
                         !.payment = IF @ = "due" THEN "failed" ELSE @]

MarkedAbsent(row) == [OutOfLine(row) EXCEPT !.status = "awaiting_arrival"]

Restored(row) == [row EXCEPT !.status = "awaiting_arrival", !.place = 0]

Disarmed(row) == [row EXCEPT !.deadline = 0]

Released(row) == [OutOfLine(row) EXCEPT !.status = "otp_verified", !.payment = "paid"]

(* Every write sets updatedAt. *)
Row(r) ==
  LET row == [job[r.job] EXCEPT !.aged = FALSE]
  IN CASE r.op = "checkin" -> CheckedIn(row, r.place)
       [] r.op \in {"cancel", "close"} -> Cancelled(row)
       [] r.op \in {"absent", "expire"} -> MarkedAbsent(row)
       [] r.op = "grace" -> Restored(row)
       [] r.op = "disarm" -> Disarmed(row)
       [] r.op = "release" -> Released(row)

(* Every winner but the closing of an unused order re-syncs the line in the   *)
(* background; a check-in may have run a pass of its own before that, when    *)
(* the line it read implied one.                                              *)
Write(r) ==
  /\ r \in pending /\ r.op # "asked" /\ Guard(r)
  /\ r.op = "checkin" => job[r.job].visit < MaxVisit
  /\ pending' = pending \ {r}
  /\ job' = [job EXCEPT ![r.job] = Row(r)]
  /\ sync' = IF r.op = "close" THEN sync ELSE sync \cup {r.by}
  /\ \/ UNCHANGED flight
     \/ r.op = "checkin" /\ flight' = WithPass(r.by)
  /\ UNCHANGED <<capacity, clock, now, faults>>

(* Staff answer (a release, or nothing at all). *)
Answered(r) ==
  /\ r \in pending /\ r.op = "asked"
  /\ pending' = pending \ {r}
  /\ UNCHANGED <<job, capacity, clock, now, sync, flight, faults>>

(* The UPDATE matches no row: the request is answered with a conflict.        *)
Lost(r) ==
  /\ r \in pending /\ r.op # "asked"
  /\ ~Guard(r) \/ (r.op = "checkin" /\ job[r.job].visit = MaxVisit)
  /\ pending' = pending \ {r}
  /\ UNCHANGED <<job, capacity, clock, now, sync, flight, faults>>

-----------------------------------------------------------------------------
(* Time. *)

(* Time passes; it matters up to the last deadline.                           *)
Tick ==
  /\ \E j \in Jobs : job[j].deadline > now
  /\ now' = now + 1
  /\ UNCHANGED <<job, capacity, clock, pending, sync, flight, faults>>

Ages(j) ==
  /\ j \in Forgotten
  /\ job[j].status = "awaiting_arrival" /\ job[j].payment = "due" /\ ~job[j].aged
  /\ job' = [job EXCEPT ![j].aged = TRUE]
  /\ UNCHANGED <<capacity, clock, now, pending, sync, flight, faults>>

-----------------------------------------------------------------------------
(* A legacy line, if there is one, meets the first sweep after the upgrade.   *)
Init ==
  /\ job \in {f \in [Jobs -> UNION {InitialRows(j) : j \in Jobs}] :
        /\ \A j \in Jobs : f[j] \in InitialRows(j)
        /\ \A i, j \in Jobs : i # j /\ f[i].place = f[j].place => f[i].place = 0}
  /\ capacity \in Capacities
  /\ clock = Cardinality(Legacy) /\ now = 0
  /\ pending = {} /\ sync = Worker
  /\ flight = [p \in Procs |-> Flight("idle")]
  /\ faults = 0

Passes(p) ==
  \/ Reconcile(p) \/ PassRead(p) \/ PassWrite(p) \/ Sweep(p)
  \/ PassFails(p) \/ ProcessDies(p)
  \/ \E c \in Capacities : SetCapacity(c, p)

Handlers(j, p) ==
  \/ CheckInRead(j, p) \/ CancelRead(j, p) \/ AbsentRead(j, p) \/ ExpireRead(j, p)
  \/ GraceRead(j, p) \/ CloseRead(j, p) \/ LookUp(j, p) \/ ReleaseRead(j, p)

Next ==
  \/ \E p \in Procs : Passes(p)
  \/ \E j \in Jobs, p \in Procs : Handlers(j, p)
  \/ \E r \in pending : Write(r) \/ Lost(r) \/ Answered(r)
  \/ \E j \in Jobs : Ages(j)
  \/ Tick

Spec == Init /\ [][Next]_vars

(* Processes that are up finish their passes and their handlers, the worker's *)
(* timers fire and its sweep runs again and again.  Students, staff and the   *)
(* owner owe nothing.                                                         *)
Fairness ==
  /\ \A p \in Procs :
       WF_vars(Reconcile(p)) /\ WF_vars(PassRead(p)) /\ WF_vars(PassWrite(p)) /\ WF_vars(Sweep(p))
  /\ WF_vars(\E r \in pending : Write(r) \/ Lost(r))
  /\ WF_vars(Tick) /\ \A j \in Jobs : WF_vars(\E p \in Worker : ExpireRead(j, p))
==============================================================================
