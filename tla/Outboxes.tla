------------------------------ MODULE Outboxes ------------------------------
(***************************************************************************)
(* The two durable outboxes: notifications for Firebase Messaging, which   *)
(* any process may send under a lease, and projection events, committed    *)
(* with their status change, from which the maintenance worker rewrites    *)
(* the Firestore documents.  Firebase may fail and processes may die.      *)
(***************************************************************************)
EXTENDS Naturals, Sequences, FiniteSets, SequencesExt

CONSTANTS
  Senders,    \* processes that publish notifications
  Limit,      \* rows each takes at a time
  Notices,    \* notifications to come
  Jobs,       \* orders of one shop
  MaxFaults   \* bound: failures of Firebase and deaths of processes

ASSUME OutboxAssumption ==
  /\ Limit \in [Senders -> Nat \ {0}]
  /\ MaxFaults \in Nat

VARIABLES
  ahead,    \* notifications that have not happened yet
  row,      \* NotificationDelivery
  backlog,  \* its rows by createdAt
  sender,   \* publishPendingFirebaseNotifications, per process
  shown,    \* notifications Firebase has taken
  job,      \* orders: status and whether revealed
  line,     \* the active ones by queuedAt
  events,   \* unpublished rows of RealtimeOutbox
  drain,    \* publishPendingRealtimeProjections of the worker
  doc,      \* the projection documents
  silent,   \* history: orders revealed since the last projection event
  faults

notices == <<ahead, row, backlog, sender, shown>>
projections == <<job, line, events, drain, doc, silent>>
vars == <<notices, projections, faults>>

Fault == faults < MaxFaults /\ faults' = faults + 1

-----------------------------------------------------------------------------
Events == Jobs \X {"checked_in", "collected"}

NewRow == [status |-> "pending", lease |-> "free"]
NoRow == [status |-> "none", lease |-> "free"]

(* todo: rows still to be claimed; lapsed: those whose lease had run out when *)
(* the batch was read.                                                        *)
Idle == [step |-> "idle", todo |-> <<>>, lapsed |-> {}]

NoDrain == [step |-> "idle", todo |-> <<>>, read |-> <<>>, targets |-> {}, seen |-> <<>>]

Truth(j) ==
  [status |-> job[j].status, revealed |-> job[j].revealed,
   position |-> IF j \in Range(line) THEN CHOOSE i \in DOMAIN line : line[i] = j ELSE 0]

Starts(notifications, status) ==
  /\ ahead = notifications
  /\ row = [n \in Notices |-> NoRow] /\ backlog = <<>> /\ shown = {}
  /\ sender = [p \in Senders |-> Idle]
  /\ job = [j \in Jobs |-> [status |-> status, revealed |-> FALSE]]
  /\ line = <<>> /\ events = <<>> /\ drain = NoDrain /\ silent = {}
  /\ doc = [j \in Jobs |-> Truth(j)]
  /\ faults = 0

(* Either notifications are still to come or orders still to move: the two    *)
(* outboxes share nothing but Firebase.                                       *)
Init == Starts(Notices, "collected") \/ Starts({}, "awaiting_arrival")

Rest == Starts({}, "collected")

-----------------------------------------------------------------------------
(* Notifications.  The event key is unique per student: a repeated call adds  *)
(* nothing.                                                                   *)
Enqueue(n) ==
  /\ n \in ahead
  /\ ahead' = ahead \ {n}
  /\ row' = [row EXCEPT ![n] = NewRow] /\ backlog' = Append(backlog, n)
  /\ UNCHANGED <<sender, shown, projections, faults>>

Open(n) == row[n].status = "pending" /\ row[n].lease # "held"
OpenRows == SelectSeq(backlog, Open)

PickBatch(p) ==
  /\ sender[p].step = "idle" /\ OpenRows # <<>>
  /\ sender' = [sender EXCEPT ![p] =
       [step |-> "claiming",
        todo |-> SubSeq(OpenRows, 1, IF Len(OpenRows) < Limit[p] THEN Len(OpenRows) ELSE Limit[p]),
        lapsed |-> {n \in Notices : row[n].lease = "lapsed"}]]
  /\ UNCHANGED <<ahead, row, backlog, shown, projections, faults>>

(* Fault: only a row that was given back can be claimed.                      *)
MayClaimFree(n) == row[n].status = "pending" /\ row[n].lease = "free"

MayClaim(n) == row[n].status = "pending" /\ row[n].lease # "held"

(* The lease is compared with the time the batch was read: one that ran out   *)
(* later may still refuse it.                                                 *)
MayRefuse(p, n) ==
  ~MayClaim(n) \/ (row[n].lease = "lapsed" /\ n \notin sender[p].lapsed)

Claim(p) ==
  /\ sender[p].step = "claiming" /\ sender[p].todo # <<>>
  /\ LET n == Head(sender[p].todo) IN
       \/ /\ MayClaim(n)
          /\ row' = [row EXCEPT ![n].lease = "held"]
          /\ sender' = [q \in Senders |->
               [sender[q] EXCEPT !.step = IF q = p THEN "sending" ELSE @, !.lapsed = @ \ {n}]]
       \/ /\ MayRefuse(p, n)
          /\ sender' = [sender EXCEPT ![p].todo = Tail(@)]
          /\ UNCHANGED row
  /\ UNCHANGED <<ahead, backlog, shown, projections, faults>>

Send(p) ==
  /\ sender[p].step = "sending"
  /\ shown' = shown \cup {Head(sender[p].todo)}
  /\ sender' = [sender EXCEPT ![p].step = "sent"]
  /\ UNCHANGED <<ahead, row, backlog, projections, faults>>

NextRow(p) == [sender EXCEPT ![p].step = "claiming", ![p].todo = Tail(@)]

RecordSent(p) ==
  /\ sender[p].step = "sent"
  /\ row' = [row EXCEPT ![Head(sender[p].todo)] = [status |-> "delivered", lease |-> "free"]]
  /\ sender' = NextRow(p)
  /\ UNCHANGED <<ahead, backlog, shown, projections, faults>>

(* Firebase, or the record of its answer, fails: the lease is given back.     *)
SendFails(p) ==
  /\ sender[p].step \in {"sending", "sent"}
  /\ Fault
  /\ row' = [row EXCEPT ![Head(sender[p].todo)].lease = "free"]
  /\ sender' = NextRow(p)
  /\ UNCHANGED <<ahead, backlog, shown, projections>>

BatchDone(p) ==
  /\ sender[p].step = "claiming" /\ sender[p].todo = <<>>
  /\ sender' = [sender EXCEPT ![p] = Idle]
  /\ UNCHANGED <<ahead, row, backlog, shown, projections, faults>>

SenderDies(p) ==
  /\ sender[p].step # "idle"
  /\ Fault
  /\ sender' = [sender EXCEPT ![p] = Idle]
  /\ UNCHANGED <<ahead, row, backlog, shown, projections>>

(* DELIVERY_LEASE_MS pass; the time is counted from the reading of the batch, *)
(* so the lease may end before its row is sent.                               *)
LeaseLapses(n) ==
  /\ row[n].lease = "held"
  /\ row' = [row EXCEPT ![n].lease = "lapsed"]
  /\ UNCHANGED <<ahead, backlog, sender, shown, projections, faults>>

-----------------------------------------------------------------------------
(* Orders and their projection.  applyTransition commits the event with the   *)
(* status.                                                                    *)
Moves(j, from, to) ==
  /\ job[j].status = from
  /\ job' = [job EXCEPT ![j] = [status |-> to, revealed |-> FALSE]]
  /\ events' = Append(events, <<j, to>>)
  /\ silent' = {}
  /\ UNCHANGED <<drain, doc, notices, faults>>

CheckIn(j) == Moves(j, "awaiting_arrival", "checked_in") /\ line' = Append(line, j)

Collect(j) ==
  /\ Moves(j, "checked_in", "collected")
  /\ line' = SelectSeq(line, LAMBDA i : i # j)

(* A reveal pass updates the rows without an event. *)
Reveal(j) ==
  /\ job[j].status = "checked_in" /\ ~job[j].revealed
  /\ job' = [job EXCEPT ![j].revealed = TRUE]
  /\ silent' = silent \cup {j}
  /\ UNCHANGED <<line, events, drain, doc, notices, faults>>

(* The unpublished events, each with the order's row as it is now.            *)
ReadEvents ==
  /\ drain.step = "idle" /\ events # <<>>
  /\ drain' = [NoDrain EXCEPT !.step = "event", !.todo = events,
                              !.read = [i \in 1 .. Len(events) |-> job[events[i][1]]]]
  /\ UNCHANGED <<job, line, events, doc, silent, notices, faults>>

(* Fault: only the order of the event is rewritten. *)
TargetsOfEvent(j) == {j}

(* projectionTargets: the order of the event and every active one. *)
Targets(j) == {j} \cup Range(line)

ReadTargets ==
  /\ drain.step = "event" /\ drain.todo # <<>>
  /\ LET j == Head(drain.todo)[1] IN
       drain' = [drain EXCEPT !.step = "writing", !.targets = Targets(j),
                   !.seen = [i \in Targets(j) |-> IF i \in Range(line) THEN job[i] ELSE Head(drain.read)]]
  /\ UNCHANGED <<job, line, events, doc, silent, notices, faults>>

(* The status is of the row read, position and band are read anew.            *)
WriteDoc(j) ==
  /\ drain.step = "writing" /\ j \in drain.targets
  /\ doc' = [doc EXCEPT ![j] = [status |-> drain.seen[j].status, revealed |-> drain.seen[j].revealed,
                                position |-> Truth(j).position]]
  /\ drain' = [drain EXCEPT !.targets = @ \ {j}]
  /\ UNCHANGED <<job, line, events, silent, notices, faults>>

NextEvent == [drain EXCEPT !.step = "event", !.todo = Tail(@), !.read = Tail(@),
                           !.targets = {}, !.seen = <<>>]

MarkPublished ==
  /\ drain.step = "writing" /\ drain.targets = {}
  /\ events' = RemoveFirst(events, Head(drain.todo))
  /\ drain' = NextEvent
  /\ UNCHANGED <<job, line, doc, silent, notices, faults>>

(* Firestore fails: the event stays, the next one is tried. *)
ProjectionFails ==
  /\ drain.step = "writing"
  /\ Fault
  /\ drain' = NextEvent
  /\ UNCHANGED <<job, line, events, doc, silent, notices>>

DrainDone ==
  /\ drain.step = "event" /\ drain.todo = <<>>
  /\ drain' = NoDrain
  /\ UNCHANGED <<job, line, events, doc, silent, notices, faults>>

WorkerDies ==
  /\ drain.step # "idle"
  /\ Fault
  /\ drain' = NoDrain
  /\ UNCHANGED <<job, line, events, doc, silent, notices>>

-----------------------------------------------------------------------------
Sends(p) == PickBatch(p) \/ Claim(p) \/ Send(p) \/ RecordSent(p) \/ BatchDone(p)

Drains ==
  \/ ReadEvents \/ ReadTargets \/ MarkPublished \/ DrainDone
  \/ \E j \in Jobs : WriteDoc(j)

Next ==
  \/ \E n \in Notices : Enqueue(n) \/ LeaseLapses(n)
  \/ \E p \in Senders : Sends(p) \/ SendFails(p) \/ SenderDies(p)
  \/ \E j \in Jobs : CheckIn(j) \/ Collect(j) \/ Reveal(j)
  \/ Drains \/ ProjectionFails \/ WorkerDies

Spec == Init /\ [][Next]_vars

(* The maintenance worker runs both publishers every ten seconds, time        *)
(* passes, and Firebase does not fail for ever.                               *)
Fairness ==
  /\ \A p \in Senders : WF_vars(Sends(p))
  /\ \A n \in Notices : WF_vars(LeaseLapses(n))
  /\ WF_vars(Drains)

FairSpec == Spec /\ Fairness

-----------------------------------------------------------------------------
TypeOK ==
  /\ ahead \subseteq Notices /\ shown \subseteq Notices
  /\ row \in [Notices -> [status: {"none", "pending", "delivered"}, lease: {"free", "held", "lapsed"}]]
  /\ backlog \in Seq(Notices) /\ line \in Seq(Jobs)
  /\ events \in Seq(Events)
  /\ \A p \in Senders : sender[p].step \in {"idle", "claiming", "sending", "sent"}
  /\ drain.step \in {"idle", "event", "writing"}
  /\ faults \in 0 .. MaxFaults

(* A stored notification reaches Firebase although sends fail and senders die *)
(* holding its lease (fcm/outbox.ts).                                         *)
NotificationIsSent ==
  \A n \in Notices : row[n].status = "pending" ~> n \in shown

(* When a shop has come to rest, every order's document shows its status and  *)
(* position, also after a torn delivery; only what a reveal pass did after    *)
(* the last event is missing (realtime/projections.ts).                       *)
ProjectionCatchesUp ==
  \A j \in Jobs : <>[](doc[j] = Truth(j) \/ (j \in silent /\ doc[j] = [Truth(j) EXCEPT !.revealed = FALSE]))
=============================================================================
