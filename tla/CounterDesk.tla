----------------------------- MODULE CounterDesk -----------------------------
(***************************************************************************)
(* The counter: staff type a student's code at a desk, and the server      *)
(* prints the order or sends back a question - serve out of turn? which    *)
(* printer? was the money received? - that opens a panel.  A confirmed     *)
(* panel sends the code the input holds now, several requests may be under *)
(* way, and the line, the printers and the other desks move on meanwhile.  *)
(***************************************************************************)
EXTENDS Naturals, FiniteSets

CONSTANTS
  Desks,       \* dashboards open at the shop
  Orders,      \* orders with a counter code
  Printers,    \* printers that can produce them
  Calls,       \* bound: requests under way at once
  MaxMoves,    \* bound: moves of the line and of the printers
  MaxDeskActs, \* bound: codes typed and requests sent
  Nil

ASSUME DeskAssumption ==
  /\ Nil \notin Orders \cup Printers
  /\ MaxMoves \in Nat /\ MaxDeskActs \in Nat

VARIABLES
  order,    \* Job, paid at the counter: status and band, assignedPrinterId
  online,   \* printers rankFromSnapshot finds eligible
  auto,     \* Shop.autoAssignEnabled
  desk,     \* the code input and the panels of a dashboard
  list,     \* orders a dashboard offers to assign a printer to
  call,     \* requests under way
  recorded, \* orders with a counter_payment PaymentEvent
  agreed,   \* history: <<o, question>>: staff confirmed a panel about order o
  slipped,  \* history: codes confirmed on a panel that came late
  printed,  \* history: the printer staff's request was dispatched to
  excused,  \* history: what a crash or a late assignment did to an order
  moves, deskActs

world == <<order, online, auto>>
screens == <<desk, list>>
history == <<agreed, slipped, printed, excused>>
deskVars == <<world, screens, call, recorded, history, moves, deskActs>>

-----------------------------------------------------------------------------
Statuses == {"away", "waiting", "called", "released", "closed"}

InLine(o) == order[o].status \in {"waiting", "called"}

(* The status column: the band of an order in the line is not part of it.     *)
Column(status) == IF status \in {"waiting", "called"} THEN "queued" ELSE status

OrderRows == [status : Statuses, outOfTurn : BOOLEAN, printer : Printers \cup {Nil}]

(* A dashboard: its input, the panel of each question, the answer it is about. *)
DeskStates ==
  [input : Orders \cup {Nil}, turn : Orders \cup {Nil},
   printer : [order : Orders, override : BOOLEAN] \cup {Nil},
   payment : [order : Orders, printer : Printers, override : BOOLEAN] \cup {Nil},
   late : BOOLEAN]

Blank == [input |-> Nil, turn |-> Nil, printer |-> Nil, payment |-> Nil, late |-> FALSE]

NoCall == [step |-> "none"]

(* What the server answers a release with: a question of staff, or the order. *)
Answers ==
  [about : {"turn", "ok"}] \cup [about : {"printer"}, override : BOOLEAN]
  \cup [about : {"payment"}, printer : Printers, override : BOOLEAN]

(* A request of a dashboard, by how far it has come. *)
Posted == [step : {"sent"}, desk : Desks, order : Orders, printer : Printers \cup {Nil},
           override : BOOLEAN, cash : BOOLEAN]
Answering == [step : {"answer"}, desk : Desks, order : Orders, answer : Answers]
Writing == [step : {"write", "record"}, desk : Desks, order : Orders, printer : Printers,
            seen : {"away", "waiting", "called"}]
Assignments == [step : {"assign?", "assign"}, desk : Desks, order : Orders, printer : Printers]
CallStates == {NoCall} \cup Posted \cup Answering \cup Writing \cup Assignments

DeskInit ==
  /\ order \in [Orders -> [status : {"away", "waiting"}, outOfTurn : {FALSE}, printer : Printers \cup {Nil}]]
  /\ online \in SUBSET Printers
  /\ auto \in BOOLEAN
  /\ desk = [d \in Desks |-> Blank] /\ list = [d \in Desks |-> {}]
  /\ call = [c \in Calls |-> NoCall]
  /\ recorded = {} /\ agreed = {} /\ slipped = {} /\ excused = {}
  /\ printed = [o \in Orders |-> Nil]
  /\ moves = 0 /\ deskActs = 0

-----------------------------------------------------------------------------
(* The world outside the counter. *)

Move == moves < MaxMoves /\ moves' = moves + 1
          /\ UNCHANGED <<screens, call, recorded, history, deskActs>>

Becomes(o, status) == order' = [order EXCEPT ![o].status = status] /\ UNCHANGED <<online, auto>>

(* Checking in assigns the recommended printer; one that was removed since    *)
(* leaves an order in the line without any.                                   *)
CheckIn(o) ==
  /\ order[o].status = "away"
  /\ \E p \in online :
       order' = [order EXCEPT ![o].status = "waiting", ![o].printer = p]
  /\ UNCHANGED <<online, auto>> /\ Move

Reveal(o) == order[o].status = "waiting" /\ Becomes(o, "called") /\ Move

(* The absent timer, or "Mark absent" of a dashboard.                         *)
Absent(o) == InLine(o) /\ Becomes(o, "away") /\ Move

(* The student cancels, or the order expires.                                 *)
Close(o) == (order[o].status = "away" \/ InLine(o)) /\ Becomes(o, "closed") /\ Move

PrinterFlips(p) ==
  /\ online' = IF p \in online THEN online \ {p} ELSE online \cup {p}
  /\ UNCHANGED <<order, auto>> /\ Move

-----------------------------------------------------------------------------
(* The dashboard. *)

Act == deskActs < MaxDeskActs /\ deskActs' = deskActs + 1

(* Fault: a new code leaves the panels of the old one open.                   *)
TypeCodeOnly(d, o) ==
  /\ o # desk[d].input
  /\ Act
  /\ desk' = [desk EXCEPT ![d].input = o]
  /\ UNCHANGED <<world, list, call, recorded, history, moves>>

TypeCode(d, o) ==
  /\ o # desk[d].input
  /\ Act
  /\ desk' = [desk EXCEPT ![d] = [Blank EXCEPT !.input = o]]
  /\ UNCHANGED <<world, list, call, recorded, history, moves>>

(* release(): it sends the code of the input, whatever the panel is about.    *)
Post(d, about, printer, override, cash) ==
  \E c \in Calls :
    /\ Act /\ call[c].step = "none" /\ desk[d].input # Nil
    /\ call' = [call EXCEPT ![c] =
         [step |-> "sent", desk |-> d, order |-> desk[d].input, printer |-> printer,
          override |-> override, cash |-> cash]]
    /\ agreed' = agreed \cup about
    /\ slipped' = slipped \cup
         (IF about # {} /\ desk[d].late THEN {desk[d].input} ELSE {})
    /\ UNCHANGED <<world, screens, recorded, printed, excused, moves>>

Find(d) == Post(d, {}, Nil, FALSE, FALSE)

PrintAnyway(d) ==
  desk[d].turn # Nil /\ Post(d, {<<desk[d].turn, "turn">>}, Nil, TRUE, FALSE)

ConfirmPrinter(d) ==
  LET panel == desk[d].printer IN
    /\ panel # Nil
    /\ \E p \in Printers :
         Post(d, {<<panel.order, "printer">>}, p, panel.override, FALSE)

PaymentReceived(d) ==
  LET panel == desk[d].payment IN
    panel # Nil /\ Post(d, {<<panel.order, "payment">>}, panel.printer, panel.override, TRUE)

Dismiss(d, panel) ==
  /\ desk[d][panel] # Nil
  /\ desk' = [desk EXCEPT ![d][panel] = Nil]
  /\ UNCHANGED <<world, list, call, recorded, history, moves, deskActs>>

(* The dashboard reads the line again after an event or an action of its own; *)
(* it does not poll, so the list may be old.                                  *)
Refresh(d) ==
  /\ list' = [list EXCEPT ![d] = {o \in Orders : InLine(o) /\ order[o].printer = Nil}]
  /\ UNCHANGED <<world, desk, call, recorded, history, moves, deskActs>>

-----------------------------------------------------------------------------
(* POST /release: one snapshot decides; only the write is guarded. *)

AnswerWith(c, answer) == call' = [call EXCEPT ![c] =
  [step |-> "answer", desk |-> call[c].desk, order |-> call[c].order, answer |-> answer]]

Refuse(c) == call' = [call EXCEPT ![c] = NoCall]

Recoverable(status) == status \in {"away", "waiting", "called"}

(* The printers the request may go on with; {} asks staff for one.            *)
Choice(c) ==
  LET o == call[c].order IN
    CASE call[c].printer # Nil -> {call[c].printer}
      [] ~auto -> {}
      [] order[o].printer \in online -> {order[o].printer}
      [] OTHER -> online

LookUp(c) ==
  /\ call[c].step = "sent"
  /\ LET o == call[c].order
         ask == ~call[c].override /\ order[o].status # "called" IN
       \/ ~Recoverable(order[o].status) /\ Refuse(c)
       \/ /\ Recoverable(order[o].status) /\ ask
          /\ AnswerWith(c, [about |-> "turn"])
       \/ /\ Recoverable(order[o].status) /\ ~ask
          /\ \/ call[c].printer \notin online \cup {Nil} /\ Refuse(c)
             \/ /\ call[c].printer = Nil /\ Choice(c) = {}
                /\ AnswerWith(c, [about |-> "printer", override |-> call[c].override])
             \/ \E p \in Choice(c) \cap online :
                  IF ~call[c].cash
                  THEN AnswerWith(c, [about |-> "payment", printer |-> p,
                                      override |-> call[c].override])
                  ELSE call' = [call EXCEPT ![c] =
                         [step |-> "write", desk |-> call[c].desk, order |-> o, printer |-> p,
                          seen |-> order[o].status]]
  /\ UNCHANGED <<world, screens, recorded, history, moves, deskActs>>

(* An assignment that read the order in line and has not written yet.         *)
Assigning(o) == \E c \in Calls : call[c].step = "assign" /\ call[c].order = o

Released(c) ==
  [order[call[c].order] EXCEPT !.status = "released", !.printer = call[c].printer,
     !.outOfTurn = call[c].seen # "called"]

(* Fault: the payment event is written before the order.                      *)
WriteAfterRecord(c) ==
  LET o == call[c].order IN
    /\ call[c].step = "write"
    /\ recorded' = recorded \cup {o}
    /\ IF Column(order[o].status) = Column(call[c].seen)
       THEN /\ order' = [order EXCEPT ![o] = Released(c)]
            /\ printed' = [printed EXCEPT ![o] = call[c].printer]
            /\ excused' = IF Assigning(o) THEN excused \cup {<<o, "assigned">>} ELSE excused
            /\ AnswerWith(c, [about |-> "ok"])
       ELSE /\ UNCHANGED <<order, printed, excused>> /\ Refuse(c)
    /\ UNCHANGED <<online, auto, screens, agreed, slipped, moves, deskActs>>

Write(c) ==
  LET o == call[c].order IN
    /\ call[c].step = "write"
    /\ \/ /\ Column(order[o].status) = Column(call[c].seen)
          /\ order' = [order EXCEPT ![o] = Released(c)]
          /\ printed' = [printed EXCEPT ![o] = call[c].printer]
          /\ excused' = IF Assigning(o) THEN excused \cup {<<o, "assigned">>} ELSE excused
          /\ call' = [call EXCEPT ![c].step = "record"]
       \/ /\ Column(order[o].status) # Column(call[c].seen)
          /\ IF Recoverable(order[o].status) THEN AnswerWith(c, [about |-> "turn"]) ELSE Refuse(c)
          /\ UNCHANGED <<order, printed, excused>>
    /\ UNCHANGED <<online, auto, screens, recorded, agreed, slipped, moves, deskActs>>

RecordPayment(c) ==
  /\ call[c].step = "record"
  /\ recorded' = recorded \cup {call[c].order}
  /\ AnswerWith(c, [about |-> "ok"])
  /\ UNCHANGED <<world, screens, history, moves, deskActs>>

(* The process dies: the dashboard shows an error, what is written stays.     *)
Die(c) ==
  /\ call[c].step \notin {"none", "answer"}
  /\ excused' = IF call[c].step = "record"
                THEN excused \cup {<<call[c].order, "unrecorded">>} ELSE excused
  /\ Refuse(c)
  /\ UNCHANGED <<world, screens, recorded, agreed, slipped, printed, moves, deskActs>>

(* The answer is applied to the desk as it is now, whatever its input holds.  *)
Arrive(c) ==
  /\ call[c].step = "answer"
  /\ LET d == call[c].desk
         o == call[c].order
         a == call[c].answer
         late == desk[d].late \/ desk[d].input # o IN
       desk' = [desk EXCEPT ![d] =
         CASE a.about = "turn" -> [@ EXCEPT !.turn = o, !.payment = Nil, !.late = late]
           [] a.about = "printer" ->
                [@ EXCEPT !.printer = [order |-> o, override |-> a.override],
                          !.payment = Nil, !.late = late]
           [] a.about = "payment" ->
                [@ EXCEPT !.payment = [order |-> o, printer |-> a.printer, override |-> a.override],
                          !.turn = Nil, !.printer = Nil, !.late = late]
           [] a.about = "ok" -> Blank]
  /\ Refuse(c)
  /\ UNCHANGED <<world, list, recorded, history, moves, deskActs>>

-----------------------------------------------------------------------------
(* POST /jobs/:id/assign: read, check, write without a guard. *)

Assign(d, o, p) ==
  \E c \in Calls :
    /\ Act /\ call[c].step = "none" /\ o \in list[d]
    /\ call' = [call EXCEPT ![c] = [step |-> "assign?", desk |-> d, order |-> o, printer |-> p]]
    /\ UNCHANGED <<world, screens, recorded, history, moves>>

MayAssign(c) == InLine(call[c].order) /\ call[c].printer \in online

AssignRead(c) ==
  /\ call[c].step = "assign?"
  /\ IF MayAssign(c) THEN call' = [call EXCEPT ![c].step = "assign"] ELSE Refuse(c)
  /\ UNCHANGED <<world, screens, recorded, history, moves, deskActs>>

AssignWrite(c) ==
  /\ call[c].step = "assign"
  /\ order' = [order EXCEPT ![call[c].order].printer = call[c].printer]
  /\ Refuse(c)
  /\ UNCHANGED <<online, auto, screens, recorded, history, moves, deskActs>>

-----------------------------------------------------------------------------
DeskNext ==
  \/ \E o \in Orders : CheckIn(o) \/ Reveal(o) \/ Absent(o) \/ Close(o)
  \/ \E p \in Printers : PrinterFlips(p)
  \/ \E d \in Desks :
       \/ \E o \in Orders \cup {Nil} : TypeCode(d, o)
       \/ Find(d) \/ PrintAnyway(d) \/ ConfirmPrinter(d) \/ PaymentReceived(d)
       \/ \E panel \in {"turn", "printer", "payment"} : Dismiss(d, panel)
       \/ Refresh(d)
       \/ \E o \in Orders, p \in Printers : Assign(d, o, p)
  \/ \E c \in Calls :
       \/ LookUp(c) \/ Write(c) \/ RecordPayment(c) \/ Die(c) \/ Arrive(c)
       \/ AssignRead(c) \/ AssignWrite(c)

DeskSpec == DeskInit /\ [][DeskNext]_deskVars

-----------------------------------------------------------------------------
(* Properties. *)

(* Staff are required to verify the amount of an order and to confirm serving *)
(* it out of turn (release.ts:32, :234-235): an order is collected or printed *)
(* out of turn only after staff confirmed a panel that was about this order,  *)
(* unless an answer opened the panel over another code already typed.  The    *)
(* request carries the code of the input, so only clearing the panels with    *)
(* every new code keeps the two together.                                     *)
ConfirmedWhatWasShown ==
  \A o \in Orders :
    /\ order[o].status = "released" => <<o, "payment">> \in agreed \/ o \in slipped
    /\ order[o].outOfTurn =>
         \/ <<o, "turn">> \in agreed
         \/ o \in slipped

(* The books and the orders agree (shops/routes.ts:916-932): a payment event  *)
(* exists exactly for the orders collected at the counter, but for a request  *)
(* still between its two statements or one whose process died there.          *)
CollectionsAreRecorded ==
  \A o \in Orders :
    /\ o \in recorded => order[o].status = "released"
    /\ order[o].status = "released" =>
         \/ o \in recorded
         \/ \E c \in Calls : call[c].step = "record" /\ call[c].order = o
         \/ <<o, "unrecorded">> \in excused

(* Whatever was assigned meanwhile, a released order stays with the printer   *)
(* the release chose for it and was dispatched to, unless an assignment had   *)
(* already read it in the line (shops/routes.ts:964-975).                     *)
PrinterOfReleaseStays ==
  \A o \in Orders :
    order[o].status = "released" =>
      order[o].printer = printed[o] \/ <<o, "assigned">> \in excused

(* What a release decided stays: its payment in the books, its printer on the *)
(* order.                                                                     *)
ReleaseIsKept == CollectionsAreRecorded /\ PrinterOfReleaseStays

(* Types of the state.                                                        *)
DeskTypeOK ==
  /\ order \in [Orders -> OrderRows]
  /\ online \subseteq Printers /\ auto \in BOOLEAN
  /\ desk \in [Desks -> DeskStates] /\ list \in [Desks -> SUBSET Orders]
  /\ recorded \subseteq Orders /\ slipped \subseteq Orders
  /\ agreed \subseteq Orders \X {"turn", "printer", "payment"}
  /\ call \in [Calls -> CallStates]
  /\ printed \in [Orders -> Printers \cup {Nil}]
  /\ excused \subseteq Orders \X {"assigned", "unrecorded"}
  /\ moves \in 0 .. MaxMoves /\ deskActs \in 0 .. MaxDeskActs
=============================================================================
