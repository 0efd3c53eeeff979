----------------------------- MODULE StudentScreen -----------------------------
(***************************************************************************)
(* What a student's phone shows of one order (JobStatus.tsx): the page     *)
(* reads the order when it opens, every ten seconds while the order is     *)
(* active, when a reveal deadline passes, on a push of the server, and     *)
(* after each of its own calls.  Several reads may be under way, each is   *)
(* two reads of the database (the row, then its place in the line), and    *)
(* answers and pushes may be late, reordered or lost.                      *)
(***************************************************************************)
EXTENDS Integers, FiniteSets
LOCAL INSTANCE QueueBands
LOCAL Table == INSTANCE JobStateMachine WITH Jobs <- {}, status <- <<>>

CONSTANT
  MaxReads     \* bound: reads under way for one page

VARIABLES
  mine,     \* the row of the order
  behind,    \* the student stands behind another in the line 
  screen,   \* the state of the page; its last answer, as it shows it
  reads,    \* reads of the page under way, each the row read or its answer
  arrival   \* the page's check-in call

screenVars == <<mine, behind, screen, reads, arrival>>


-----------------------------------------------------------------------------
(* The order, as the shop, the print agents, the timers and the student's     *)
(* other devices move it.                                                     *)

Prepared ==
  [status |-> "awaiting_arrival", revealed |-> FALSE, absent |-> FALSE]

(* The statuses orders are given today (no retired timed turn).               *)
StatusesToday == Table!Statuses \ {"pending_payment", "notified", "no_show", "requeued", "expired"}

InLine(status) == status \in {"queued", "notified"}

(* The columns the page is about, after a move to status `to`.  (revealedAt    *)
(* and absentAt of an order past the line stay; nothing looks at them.)       *)
Moved(to) == [status |-> to, revealed |-> FALSE, absent |-> to = "awaiting_arrival"]

(* Counter capacity one, and at most one student before this one.             *)
Band(order) ==
  IF behind THEN AssignBands(<<"other", "mine">>, {"other"}, 1)[2]
  ELSE AssignBands(<<"mine">>, IF order.revealed THEN {"mine"} ELSE {}, 1)[1]

NotInLine == "nowhere"

(* getJobLiveMetrics, of which the page acts on the band.                     *)
Live(order) == IF InLine(order.status) THEN Band(order) ELSE NotInLine

IsCounterCodeAvailable(row) ==
  \/ row.status = "ready_for_pickup"
  \/ InLine(row.status) /\ row.revealed

CodeVisible(row, band) ==
  /\ IsCounterCodeAvailable(row)
  /\ row.status = "ready_for_pickup" \/ band = "revealed"

(* GET /jobs/:id, from the row and the line it read.                          *)
Answer(row, band) ==
  [status |-> row.status,
   absent |-> row.absent /\ row.status = "awaiting_arrival",
   band |-> band, code |-> CodeVisible(row, band)]

(* What the order is right now, read in one piece.                            *)
Current == Answer(mine, Live(mine))

(* refresh(): the request reaches the server, which reads the row.            *)
Refresh(others, row) ==
  /\ Cardinality(others) < MaxReads
  /\ reads' = others \cup {[stage |-> "row", row |-> row]}

(* job:update brings an open page whose socket is connected to refresh.  (The *)
(* place in the line it carries is advisory and left out.)                    *)
Publish ==
  \/ screen.page # "closed" /\ Refresh(reads, mine')
  \/ UNCHANGED reads

(* Someone else moves the order along the table.  (A cancellation on another  *)
(* device publishes nothing: here, an event the page misses.)                 *)
MovesElsewhere ==
  \E to \in StatusesToday :
    /\ Table!Leads(mine.status, to)
    /\ mine' = Moved(to)
    /\ behind' \in IF to = "queued" THEN BOOLEAN ELSE {FALSE}
    /\ Publish
    /\ UNCHANGED <<screen, reads, arrival>>

(* The student in front leaves; a pass reveals this one and publishes the line. *)
FrontLeaves ==
  /\ InLine(mine.status) /\ behind
  /\ behind' = FALSE
  /\ UNCHANGED <<mine, screen, reads, arrival>>

RevealMine ==
  /\ InLine(mine.status) /\ ~mine.revealed /\ Band(mine) = "revealed"
  /\ mine' = [mine EXCEPT !.revealed = TRUE]
  /\ Publish
  /\ UNCHANGED <<behind, screen, reads, arrival>>

-----------------------------------------------------------------------------
(* The page. *)

Closed == [page |-> "closed"]
Loading == [page |-> "loading"]
Shown(answer) == [page |-> "shown", shows |-> answer]

NoArrival == [stage |-> "none"]

(* Fault: a status with no printing left to do counts as settled.             *)
ActiveWhilePrinting(status) ==
  status \notin {"finishing", "ready_for_pickup", "completed", "expired", "cancelled"}

(* statusMeta(status).active *)
Active(status) == status \notin {"completed", "expired", "cancelled"}

(* StudentBandPanel: the ticket with the code, a banner, or only the place.   *)
LinePanel(shows) ==
  IF shows.band = "revealed" /\ shows.code THEN "code"
  ELSE IF shows.band = "arriving" THEN "coming up" ELSE "place"

(* The card that says where the order stands.                                 *)
Card(shows) ==
  CASE shows.absent -> "missed your turn"
    [] shows.status = "awaiting_arrival" /\ ~shows.absent -> "join after you arrive"
    [] InLine(shows.status) -> LinePanel(shows)
    [] shows.status = "ready_for_pickup" -> IF shows.code THEN "collect, with code" ELSE "collect"
    [] OTHER -> shows.status

(* The buttons below it.                                                      *)
Offers(shows) ==
  {offer \in {"check in", "cancel", "rate", "print again"} :
     CASE offer = "check in" -> shows.status = "awaiting_arrival"
       [] offer = "cancel" -> shows.status \in {"awaiting_arrival", "queued", "notified"}
       [] offer = "rate" -> shows.status = "completed"
       [] offer = "print again" -> ~Active(shows.status)}

OpenPage ==
  /\ screen.page = "closed"
  /\ screen' = Loading
  /\ Refresh({}, mine)
  /\ UNCHANGED <<mine, behind, arrival>>

(* The page is left or reloaded: what is under way for it is ignored.         *)
LeavePage ==
  /\ screen.page # "closed"
  /\ screen' = Closed
  /\ reads' = {}
  /\ arrival' = NoArrival
  /\ UNCHANGED <<mine, behind>>

(* The ten-second poll, and the timer behind a reveal deadline.               *)
Poll ==
  /\ screen.page = "shown" /\ Active(screen.shows.status)
  /\ Refresh(reads, mine)
  /\ UNCHANGED <<mine, behind, screen, arrival>>

(* The second read of GET /jobs/:id, and its answer.                          *)
ReadLine(r) ==
  /\ r.stage = "row"
  /\ reads' = (reads \ {r}) \cup {[stage |-> "answer", answer |-> Answer(r.row, Live(mine))]}
  /\ UNCHANGED <<mine, behind, screen, arrival>>

AnswerArrives(r) ==
  /\ r.stage = "answer"
  /\ screen' = Shown(r.answer)
  /\ reads' = reads \ {r}
  /\ UNCHANGED <<mine, behind, arrival>>

(* The catch of refresh(): an error under whatever the page showed before.    *)
AnswerLost(r) ==
  /\ r.stage = "answer"
  /\ reads' = reads \ {r}
  /\ UNCHANGED <<mine, behind, screen, arrival>>

-----------------------------------------------------------------------------
(* Check-in.  The button stands on an arrival card or an absence card and is  *)
(* dead while a call is under way.                                            *)

OffersCheckIn ==
  screen.page = "shown" /\ "check in" \in Offers(screen.shows) /\ arrival.stage = "none"

TapCheckIn ==
  /\ OffersCheckIn
  /\ arrival' = [stage |-> "sent"]
  /\ UNCHANGED <<mine, behind, screen, reads>>

(* checkInJob: a repeated tap keeps its place, an order outside the line      *)
(* joins at the back; if its place cannot be told the answer carries none.    *)
(* (The race of two arrivals is CounterQueue's.)                              *)
ServeCheckIn ==
  /\ arrival.stage = "sent"
  /\ \/ /\ InLine(mine.status)
        /\ arrival' = [stage |-> "done", band |-> Live(mine)]
        /\ UNCHANGED <<mine, behind, reads>>
     \/ /\ mine.status = "awaiting_arrival"
        /\ mine' = Moved("queued")
        /\ behind' \in BOOLEAN
        /\ \/ arrival' = [stage |-> "done", band |-> Live(mine)']
           \/ arrival' = [stage |-> "done", band |-> NotInLine]
        /\ Publish
  /\ UNCHANGED screen

(* applyCheckInResult: the answer is laid over what the page shows.           *)
WithCheckIn(shows, band) ==
  [shows EXCEPT !.status = "queued", !.band = band, !.absent = FALSE]

CheckInAnswered ==
  /\ arrival.stage = "done"
  /\ screen' = [screen EXCEPT !.shows = WithCheckIn(@, arrival.band)]
  /\ arrival' = NoArrival
  /\ Refresh(reads, mine)
  /\ UNCHANGED <<mine, behind>>

(* Refused, no location, or the answer lost: an error, and no refresh.        *)
CheckInFails ==
  /\ arrival.stage \in {"sent", "done"}
  /\ arrival' = NoArrival
  /\ UNCHANGED <<mine, behind, screen, reads>>

(* cancel(), guarded again by the server; a refusal is only told.             *)
TapCancel ==
  /\ screen.page = "shown" /\ "cancel" \in Offers(screen.shows)
  /\ mine.status \in {"awaiting_arrival", "queued"}
  /\ mine' = Moved("cancelled") /\ behind' = FALSE
  /\ Refresh(reads, mine') \/ UNCHANGED reads
  /\ UNCHANGED <<screen, arrival>>

-----------------------------------------------------------------------------
ScreenRest ==
  /\ mine = Prepared /\ behind = FALSE /\ screen = Closed /\ reads = {}
  /\ arrival = NoArrival

ScreenNext ==
  \/ MovesElsewhere \/ FrontLeaves \/ RevealMine
  \/ OpenPage \/ LeavePage \/ Poll
  \/ \E r \in reads : ReadLine(r) \/ AnswerArrives(r) \/ AnswerLost(r)
  \/ TapCheckIn \/ ServeCheckIn \/ CheckInAnswered \/ CheckInFails \/ TapCancel

(* The poll fires, requests and events are answered, and a network that loses *)
(* answers does not lose every one of them for ever.                          *)
ScreenFairness ==
  /\ WF_screenVars(Poll)
  /\ WF_screenVars(\E r \in reads : ReadLine(r))
  /\ SF_screenVars(\E r \in reads : AnswerArrives(r))

-----------------------------------------------------------------------------
(* Properties. *)

ScreenTypeOK ==
  /\ mine \in [status : StatusesToday, revealed : BOOLEAN, absent : BOOLEAN]
  /\ behind \in BOOLEAN
  /\ screen.page \in {"closed", "loading", "shown"}
  /\ Cardinality(reads) <= MaxReads
  /\ arrival.stage \in {"none", "sent", "done"}

InStep ==
  /\ screen.page = "shown"
  /\ Card(screen.shows) = Card(Current)
  /\ Offers(screen.shows) = Offers(Current)

(* A page that has loaded once and stays open ends up with the card and the   *)
(* buttons of the order as it is once the order comes to rest,                *)
(* whatever pushes and answers were lost and in whatever order late answers   *)
(* and the optimistic check-in overwrote each other: it polls for as long as  *)
(* it shows a status that can still change.                                   *)
StudentScreenCatchesUp ==
  \/ []<>(screen.page # "shown")
  \/ []<><<Current' # Current>>_<<mine, behind>>
  \/ <>[]InStep
=============================================================================
