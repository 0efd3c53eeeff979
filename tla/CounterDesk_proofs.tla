-------------------------- MODULE CounterDesk_proofs --------------------------
(***************************************************************************)
(* For every number of dashboards, orders, printers and requests: what     *)
(* staff confirmed is what is served, the books agree with the orders, and *)
(* a released order keeps its printer.                                     *)
(***************************************************************************)
EXTENDS CounterDesk, TLAPS

USE DeskAssumption

-----------------------------------------------------------------------------
(* The inductive invariant. *)

TurnAgreed(o) == <<o, "turn">> \in agreed \/ o \in slipped
PaymentAgreed(o) == <<o, "payment">> \in agreed \/ o \in slipped

(* Until an answer comes late, every open panel is about the code typed.      *)
PanelsShowInput ==
  \A d \in Desks : ~desk[d].late =>
    /\ desk[d].turn # Nil => desk[d].turn = desk[d].input
    /\ desk[d].printer # Nil => desk[d].printer.order = desk[d].input
    /\ desk[d].payment # Nil => desk[d].payment.order = desk[d].input

(* An override travels through the panels and the answers: it was agreed to.  *)
PanelsAgreed ==
  \A d \in Desks :
    /\ desk[d].printer # Nil /\ desk[d].printer.override => TurnAgreed(desk[d].printer.order)
    /\ desk[d].payment # Nil /\ desk[d].payment.override => TurnAgreed(desk[d].payment.order)

CallAgreed(c) ==
  /\ call[c].step = "sent" =>
       /\ call[c].override => TurnAgreed(call[c].order)
       /\ call[c].cash => PaymentAgreed(call[c].order)
  /\ call[c].step = "answer" /\ call[c].answer.about \in {"printer", "payment"} =>
       (call[c].answer.override => TurnAgreed(call[c].order))
  /\ call[c].step = "write" =>
       /\ PaymentAgreed(call[c].order)
       /\ call[c].seen # "called" => TurnAgreed(call[c].order)

CallsAgreed == \A c \in Calls : CallAgreed(c)

(* A release that has written, and an assignment that was overtaken by one.   *)
CallsFitOrders ==
  \A c \in Calls :
    /\ call[c].step = "record" => order[call[c].order].status = "released"
    /\ call[c].step = "assign" /\ order[call[c].order].status = "released" =>
         <<call[c].order, "assigned">> \in excused

DeskInvariant ==
  /\ DeskTypeOK
  /\ PanelsShowInput /\ PanelsAgreed /\ CallsAgreed /\ ConfirmedWhatWasShown
  /\ CallsFitOrders /\ CollectionsAreRecorded /\ PrinterOfReleaseStays

-----------------------------------------------------------------------------
(* Types. *)

(* A request is what its step says.                                           *)
LEMMA CallShapes ==
  ASSUME DeskTypeOK, NEW c \in Calls
  PROVE  /\ call[c] \in CallStates
         /\ call[c].step = "sent" => call[c] \in Posted
         /\ call[c].step = "answer" => call[c] \in Answering
         /\ call[c].step \in {"write", "record"} => call[c] \in Writing
         /\ call[c].step \in {"assign?", "assign"} => call[c] \in Assignments
  BY DEF DeskTypeOK, CallStates, NoCall, Posted, Answering, Writing, Assignments

(* Writing one column of a dashboard or of an order.                          *)
LEMMA DeskWrites ==
  /\ \A s \in DeskStates, x \in Orders \cup {Nil} : [s EXCEPT !.input = x] \in DeskStates
  /\ \A s \in DeskStates, x \in Orders \cup {Nil} : [s EXCEPT !.turn = x] \in DeskStates
  /\ \A s \in DeskStates, x \in [order : Orders, override : BOOLEAN] \cup {Nil} :
       [s EXCEPT !.printer = x] \in DeskStates
  /\ \A s \in DeskStates,
        x \in [order : Orders, printer : Printers, override : BOOLEAN] \cup {Nil} :
       [s EXCEPT !.payment = x] \in DeskStates
  /\ \A s \in DeskStates, x \in BOOLEAN : [s EXCEPT !.late = x] \in DeskStates
  /\ Blank \in DeskStates
<1>1. /\ \A s \in DeskStates, x \in Orders \cup {Nil} : [s EXCEPT !.input = x] \in DeskStates
      /\ \A s \in DeskStates, x \in Orders \cup {Nil} : [s EXCEPT !.turn = x] \in DeskStates
  BY DEF DeskStates
<1>2. \A s \in DeskStates, x \in [order : Orders, override : BOOLEAN] \cup {Nil} :
        [s EXCEPT !.printer = x] \in DeskStates
  BY DEF DeskStates
<1>3. \A s \in DeskStates,
         x \in [order : Orders, printer : Printers, override : BOOLEAN] \cup {Nil} :
        [s EXCEPT !.payment = x] \in DeskStates
  BY DEF DeskStates
<1>4. \A s \in DeskStates, x \in BOOLEAN : [s EXCEPT !.late = x] \in DeskStates
  BY DEF DeskStates
<1>5. Blank \in DeskStates
  BY DEF DeskStates, Blank
<1> QED
  BY <1>1, <1>2, <1>3, <1>4, <1>5

(* Writing one column of an order keeps its type and the other columns. *)
LEMMA OrderWrites ==
  /\ \A r \in OrderRows, x \in Statuses :
       [r EXCEPT !.status = x] \in OrderRows /\ [r EXCEPT !.status = x].status = x
       /\ [r EXCEPT !.status = x].outOfTurn = r.outOfTurn
       /\ [r EXCEPT !.status = x].printer = r.printer
  /\ \A r \in OrderRows, x \in Printers \cup {Nil} :
       [r EXCEPT !.printer = x] \in OrderRows /\ [r EXCEPT !.printer = x].printer = x
       /\ [r EXCEPT !.printer = x].outOfTurn = r.outOfTurn
       /\ [r EXCEPT !.printer = x].status = r.status
  /\ \A r \in OrderRows, x \in BOOLEAN : [r EXCEPT !.outOfTurn = x] \in OrderRows
  BY DEF OrderRows

(* What one look at the order and the printers may decide.                    *)
LEMMA LookUpOutcomes ==
  ASSUME DeskTypeOK, NEW c \in Calls, LookUp(c)
  PROVE  LET o == call[c].order IN
         \/ call' = [call EXCEPT ![c] = NoCall]
         \/ AnswerWith(c, [about |-> "turn"])
         \/ AnswerWith(c, [about |-> "printer", override |-> call[c].override])
         \/ \E p \in Printers :
              AnswerWith(c, [about |-> "payment", printer |-> p, override |-> call[c].override])
         \/ /\ call[c].cash /\ order[o].status \in {"away", "waiting", "called"}
            /\ call[c].override \/ order[o].status = "called"
            /\ \E p \in Printers :
                 call' = [call EXCEPT ![c] =
                   [step |-> "write", desk |-> call[c].desk, order |-> o, printer |-> p,
                    seen |-> order[o].status]]
<1> DEFINE o == call[c].order
           ask == ~call[c].override /\ order[o].status # "called"
<1>1. online \subseteq Printers
  BY DEF DeskTypeOK
<1>2. CASE ~Recoverable(order[o].status) /\ Refuse(c)
  BY <1>2 DEF Refuse
<1>3. CASE Recoverable(order[o].status) /\ ask /\ AnswerWith(c, [about |-> "turn"])
  BY <1>3
<1>4. CASE Recoverable(order[o].status) /\ ~ask
  <2>1. CASE call[c].printer \notin online \cup {Nil} /\ Refuse(c)
    BY <2>1 DEF Refuse
  <2>2. CASE AnswerWith(c, [about |-> "printer", override |-> call[c].override])
    BY <2>2
  <2>3. CASE \E p \in Choice(c) \cap online :
               IF ~call[c].cash
               THEN AnswerWith(c, [about |-> "payment", printer |-> p,
                                   override |-> call[c].override])
               ELSE call' = [call EXCEPT ![c] =
                      [step |-> "write", desk |-> call[c].desk, order |-> o, printer |-> p,
                       seen |-> order[o].status]]
    <3>1. PICK p \in Printers :
               IF ~call[c].cash
               THEN AnswerWith(c, [about |-> "payment", printer |-> p,
                                   override |-> call[c].override])
               ELSE call' = [call EXCEPT ![c] =
                      [step |-> "write", desk |-> call[c].desk, order |-> o, printer |-> p,
                       seen |-> order[o].status]]
      BY <1>1, <2>3
    <3>2. CASE ~call[c].cash
      BY <3>1, <3>2
    <3>3. CASE call[c].cash
      BY <1>4, <3>1, <3>3 DEF Recoverable
    <3> QED
      BY <3>2, <3>3
  <2> QED
    BY <1>4, <2>1, <2>2, <2>3 DEF LookUp
<1> QED
  BY <1>2, <1>3, <1>4 DEF LookUp

(* What a request becomes keeps the type of requests.                         *)
LEMMA CallBecomes ==
  ASSUME DeskTypeOK, NEW c \in Calls
  PROVE  /\ [call EXCEPT ![c] = NoCall] \in [Calls -> CallStates]
         /\ \A x \in CallStates : [call EXCEPT ![c] = x] \in [Calls -> CallStates]
         /\ call[c].step = "sent" => \A a \in Answers :
              [step |-> "answer", desk |-> call[c].desk, order |-> call[c].order, answer |-> a]
                \in CallStates
         /\ call[c].step \in {"write", "record"} => \A a \in Answers :
              [step |-> "answer", desk |-> call[c].desk, order |-> call[c].order, answer |-> a]
                \in CallStates
         /\ call[c].step = "write" => [call[c] EXCEPT !.step = "record"] \in CallStates
         /\ call[c].step = "assign?" => [call[c] EXCEPT !.step = "assign"] \in CallStates
<1>1. call \in [Calls -> CallStates]
  BY DEF DeskTypeOK
<1>2. NoCall \in CallStates
  BY DEF CallStates
<1>3. call[c].step = "sent" => call[c].desk \in Desks /\ call[c].order \in Orders
  BY CallShapes DEF Posted
<1>4. call[c].step \in {"write", "record"} => call[c].desk \in Desks /\ call[c].order \in Orders
  BY CallShapes DEF Writing
<1>5. call[c].step = "write" => [call[c] EXCEPT !.step = "record"] \in CallStates
  BY CallShapes DEF Writing, CallStates
<1>6. call[c].step = "assign?" => [call[c] EXCEPT !.step = "assign"] \in CallStates
  BY CallShapes DEF Assignments, CallStates
<1>7. \A d \in Desks, o \in Orders, a \in Answers :
        [step |-> "answer", desk |-> d, order |-> o, answer |-> a] \in CallStates
  BY DEF CallStates, Answering
<1> QED
  BY <1>1, <1>2, <1>3, <1>4, <1>5, <1>6, <1>7

(* A posted request, whichever panel it comes from.                           *)
LEMMA PostTypes ==
  ASSUME DeskTypeOK, NEW d \in Desks, NEW about \in SUBSET (Orders \X {"turn", "printer", "payment"}),
         NEW printer \in Printers \cup {Nil}, NEW override \in BOOLEAN, NEW cash \in BOOLEAN,
         Post(d, about, printer, override, cash)
  PROVE  DeskTypeOK'
<1> USE DEF world, screens, history
<1>1. PICK c \in Calls :
        /\ Act /\ desk[d].input # Nil
        /\ call' = [call EXCEPT ![c] =
             [step |-> "sent", desk |-> d, order |-> desk[d].input, printer |-> printer,
              override |-> override, cash |-> cash]]
  BY DEF Post
<1>2. desk[d].input \in Orders
  BY <1>1 DEF DeskTypeOK, DeskStates
<1>3. [step |-> "sent", desk |-> d, order |-> desk[d].input, printer |-> printer,
       override |-> override, cash |-> cash] \in CallStates
  BY <1>2 DEF CallStates, Posted
<1>4. call' \in [Calls -> CallStates]
  BY <1>1, <1>3, CallBecomes
<1>5. deskActs' \in 0 .. MaxDeskActs
  BY <1>1 DEF Act, DeskTypeOK
<1>6. /\ agreed' \subseteq Orders \X {"turn", "printer", "payment"}
      /\ slipped' \subseteq Orders
  BY <1>2 DEF Post, DeskTypeOK
<1> QED
  BY <1>4, <1>5, <1>6 DEF Post, DeskTypeOK

(* The line, the printers and the dashboards.                                 *)
LEMMA ScreenTypes ==
  ASSUME DeskTypeOK,
         \/ \E o \in Orders : CheckIn(o) \/ Reveal(o) \/ Absent(o) \/ Close(o)
         \/ \E p \in Printers : PrinterFlips(p)
         \/ \E d \in Desks :
              \/ \E o \in Orders \cup {Nil} : TypeCode(d, o)
              \/ Find(d) \/ PrintAnyway(d) \/ ConfirmPrinter(d) \/ PaymentReceived(d)
              \/ \E panel \in {"turn", "printer", "payment"} : Dismiss(d, panel)
              \/ Refresh(d)
              \/ \E o \in Orders, p \in Printers : Assign(d, o, p)
  PROVE  DeskTypeOK'
<1> USE DEF world, screens, history
<1>1. order \in [Orders -> OrderRows] /\ online \subseteq Printers
  BY DEF DeskTypeOK
<1>2. desk \in [Desks -> DeskStates] /\ \A d \in Desks : desk[d] \in DeskStates
  BY DEF DeskTypeOK
<1>3. ASSUME Move PROVE moves' \in 0 .. MaxMoves
  BY <1>3 DEF Move, DeskTypeOK
<1>4. ASSUME NEW o \in Orders, CheckIn(o) PROVE DeskTypeOK'
  <2>1. PICK p \in online :
          order' = [order EXCEPT ![o].status = "waiting", ![o].printer = p]
    BY <1>4 DEF CheckIn
  <2>2. [order[o] EXCEPT !.status = "waiting"] \in OrderRows
    BY <1>1, OrderWrites DEF Statuses
  <2>3. [[order[o] EXCEPT !.status = "waiting"] EXCEPT !.printer = p] \in OrderRows
    BY <1>1, <2>2, OrderWrites
  <2>4. order' \in [Orders -> OrderRows]
    BY <1>1, <2>1, <2>3
  <2> QED
    BY <1>3, <1>4, <2>4 DEF DeskTypeOK, CheckIn, Move
<1>5. ASSUME NEW o \in Orders, Reveal(o) \/ Absent(o) \/ Close(o) PROVE DeskTypeOK'
  <2>1. \A x \in Statuses : [order EXCEPT ![o].status = x] \in [Orders -> OrderRows]
    BY <1>1, OrderWrites
  <2>2. order' \in [Orders -> OrderRows] /\ Move /\ UNCHANGED <<online, auto>>
    BY <1>5, <2>1 DEF Reveal, Absent, Close, Becomes, Statuses
  <2> QED
    BY <1>3, <2>2 DEF DeskTypeOK, Move
<1>6. ASSUME NEW p \in Printers, PrinterFlips(p) PROVE DeskTypeOK'
  <2>1. online' \subseteq Printers /\ Move /\ UNCHANGED <<order, auto>>
    BY <1>1, <1>6 DEF PrinterFlips
  <2> QED
    BY <1>3, <2>1 DEF DeskTypeOK, Move
<1>7. ASSUME NEW d \in Desks, NEW o \in Orders \cup {Nil}, TypeCode(d, o) PROVE DeskTypeOK'
  <2>1. [Blank EXCEPT !.input = o] \in DeskStates
    BY DeskWrites
  <2>2. desk' \in [Desks -> DeskStates]
    BY <1>2, <1>7, <2>1 DEF TypeCode
  <2>3. deskActs' \in 0 .. MaxDeskActs
    BY <1>7 DEF TypeCode, Act, DeskTypeOK
  <2> QED
    BY <1>7, <2>2, <2>3 DEF DeskTypeOK, TypeCode
<1>8. ASSUME NEW d \in Desks, Find(d) PROVE DeskTypeOK'
  BY <1>8, PostTypes DEF Find
<1>9. ASSUME NEW d \in Desks, PrintAnyway(d) PROVE DeskTypeOK'
  <2>1. desk[d].turn \in Orders
    BY <1>2, <1>9 DEF PrintAnyway, DeskStates
  <2>2. {<<desk[d].turn, "turn">>} \in SUBSET (Orders \X {"turn", "printer", "payment"})
    BY <2>1
  <2>3. Post(d, {<<desk[d].turn, "turn">>}, Nil, TRUE, FALSE)
    BY <1>9 DEF PrintAnyway
  <2> QED
    BY <2>2, <2>3, PostTypes
<1>10. ASSUME NEW d \in Desks, ConfirmPrinter(d) PROVE DeskTypeOK'
  <2>1. desk[d].printer \in [order : Orders, override : BOOLEAN]
    BY <1>2, <1>10 DEF ConfirmPrinter, DeskStates
  <2>2. PICK p \in Printers :
          Post(d, {<<desk[d].printer.order, "printer">>}, p, desk[d].printer.override, FALSE)
    BY <1>10 DEF ConfirmPrinter
  <2>3. desk[d].printer.order \in Orders /\ desk[d].printer.override \in BOOLEAN
    BY <2>1
  <2>4. {<<desk[d].printer.order, "printer">>} \in SUBSET (Orders \X {"turn", "printer", "payment"})
    BY <2>3
  <2> QED
    BY <2>2, <2>3, <2>4, PostTypes
<1>11. ASSUME NEW d \in Desks, PaymentReceived(d) PROVE DeskTypeOK'
  <2>1. desk[d].payment \in [order : Orders, printer : Printers, override : BOOLEAN]
    BY <1>2, <1>11 DEF PaymentReceived, DeskStates
  <2>2. /\ desk[d].payment.order \in Orders /\ desk[d].payment.override \in BOOLEAN
        /\ desk[d].payment.printer \in Printers
    BY <2>1
  <2>3. Post(d, {<<desk[d].payment.order, "payment">>}, desk[d].payment.printer,
             desk[d].payment.override, TRUE)
    BY <1>11 DEF PaymentReceived
  <2>4. {<<desk[d].payment.order, "payment">>} \in SUBSET (Orders \X {"turn", "printer", "payment"})
    BY <2>2
  <2> QED
    BY <2>2, <2>3, <2>4, PostTypes
<1>12. ASSUME NEW d \in Desks, NEW panel \in {"turn", "printer", "payment"}, Dismiss(d, panel)
       PROVE  DeskTypeOK'
  <2>1. [desk[d] EXCEPT ![panel] = Nil] \in DeskStates
    BY <1>2 DEF DeskStates
  <2>2. desk' \in [Desks -> DeskStates]
    BY <1>2, <1>12, <2>1 DEF Dismiss
  <2> QED
    BY <1>12, <2>2 DEF DeskTypeOK, Dismiss
<1>13. ASSUME NEW d \in Desks, Refresh(d) PROVE DeskTypeOK'
  BY <1>13 DEF DeskTypeOK, Refresh
<1>14. ASSUME NEW d \in Desks, NEW o \in Orders, NEW p \in Printers, Assign(d, o, p) PROVE DeskTypeOK'
  <2>1. [step |-> "assign?", desk |-> d, order |-> o, printer |-> p] \in CallStates
    BY DEF CallStates, Assignments
  <2>2. call' \in [Calls -> CallStates]
    <3>1. PICK c \in Calls : call' = [call EXCEPT ![c] =
                                 [step |-> "assign?", desk |-> d, order |-> o, printer |-> p]]
      BY <1>14 DEF Assign
    <3> QED
      BY <2>1, <3>1, CallBecomes
  <2>3. deskActs' \in 0 .. MaxDeskActs
    BY <1>14 DEF Assign, Act, DeskTypeOK
  <2> QED
    BY <1>14, <2>2, <2>3 DEF DeskTypeOK, Assign
<1> QED
  BY <1>4, <1>5, <1>6, <1>7, <1>8, <1>9, <1>10, <1>11, <1>12, <1>13, <1>14

(* The desk an answer arrives at.                                             *)
LEMMA ArriveTypes ==
  ASSUME DeskTypeOK, NEW c \in Calls, Arrive(c) PROVE desk' \in [Desks -> DeskStates]
<1> DEFINE d == call[c].desk
           o == call[c].order
           a == call[c].answer
           late == desk[d].late \/ desk[d].input # o
<1>1. d \in Desks /\ o \in Orders /\ a \in Answers
  BY CallShapes DEF Arrive, Answering
<1>2. desk \in [Desks -> DeskStates] /\ desk[d] \in DeskStates /\ late \in BOOLEAN
  BY <1>1 DEF DeskTypeOK, DeskStates
<1> HIDE DEF late
<1>3. CASE a.about = "turn"
  <2>1. [[[desk[d] EXCEPT !.turn = o] EXCEPT !.payment = Nil] EXCEPT !.late = late] \in DeskStates
    <3>1. [desk[d] EXCEPT !.turn = o] \in DeskStates
      BY <1>1, <1>2, DeskWrites
    <3>2. [[desk[d] EXCEPT !.turn = o] EXCEPT !.payment = Nil] \in DeskStates
      BY <3>1, DeskWrites
    <3> QED
      BY <1>2, <3>2, DeskWrites
  <2>2. desk' = [desk EXCEPT ![d] = [desk[d] EXCEPT !.turn = o, !.payment = Nil, !.late = late]]
    BY <1>3 DEF Arrive, late
  <2> QED
    BY <1>2, <2>1, <2>2
<1>4. CASE a.about = "printer"
  <2> DEFINE x == [order |-> o, override |-> a.override]
  <2>1. x \in [order : Orders, override : BOOLEAN]
    BY <1>1, <1>4 DEF Answers
  <2> HIDE DEF x
  <2>2. [[[desk[d] EXCEPT !.printer = x] EXCEPT !.payment = Nil] EXCEPT !.late = late] \in DeskStates
    <3>1. [desk[d] EXCEPT !.printer = x] \in DeskStates
      BY <1>2, <2>1, DeskWrites
    <3>2. [[desk[d] EXCEPT !.printer = x] EXCEPT !.payment = Nil] \in DeskStates
      BY <3>1, DeskWrites
    <3> QED
      BY <1>2, <3>2, DeskWrites
  <2>3. desk' = [desk EXCEPT ![d] = [desk[d] EXCEPT !.printer = x, !.payment = Nil, !.late = late]]
    BY <1>4 DEF Arrive, late, x
  <2> QED
    BY <1>2, <2>2, <2>3
<1>5. CASE a.about = "payment"
  <2> DEFINE x == [order |-> o, printer |-> a.printer, override |-> a.override]
  <2>1. x \in [order : Orders, printer : Printers, override : BOOLEAN]
    BY <1>1, <1>5 DEF Answers
  <2> HIDE DEF x
  <2>2. [[[[desk[d] EXCEPT !.payment = x] EXCEPT !.turn = Nil] EXCEPT !.printer = Nil]
           EXCEPT !.late = late] \in DeskStates
    <3>1. [desk[d] EXCEPT !.payment = x] \in DeskStates
      BY <1>2, <2>1, DeskWrites
    <3>2. [[desk[d] EXCEPT !.payment = x] EXCEPT !.turn = Nil] \in DeskStates
      BY <3>1, DeskWrites
    <3>3. [[[desk[d] EXCEPT !.payment = x] EXCEPT !.turn = Nil] EXCEPT !.printer = Nil] \in DeskStates
      BY <3>2, DeskWrites
    <3> QED
      BY <1>2, <3>3, DeskWrites
  <2>3. desk' = [desk EXCEPT ![d] = [desk[d] EXCEPT !.payment = x, !.turn = Nil,
                                                    !.printer = Nil, !.late = late]]
    BY <1>5 DEF Arrive, late, x
  <2> QED
    BY <1>2, <2>2, <2>3
<1>6. CASE a.about = "ok"
  <2>1. desk' = [desk EXCEPT ![d] = Blank]
    BY <1>6 DEF Arrive
  <2> QED
    BY <1>2, <2>1, DeskWrites
<1>7. a.about \in {"turn", "printer", "payment", "ok"}
  BY <1>1 DEF Answers
<1> QED
  BY <1>3, <1>4, <1>5, <1>6, <1>7
(* An order after the write of a release, and after that of an assignment.    *)
LEMMA ReleasedRow ==
  ASSUME DeskTypeOK, NEW c \in Calls, call[c].step = "write"
  PROVE  /\ call[c].order \in Orders /\ call[c].printer \in Printers
         /\ call[c].seen \in {"away", "waiting", "called"}
         /\ Released(c) \in OrderRows /\ Released(c).status = "released"
         /\ Released(c).printer = call[c].printer
         /\ Released(c).outOfTurn = (call[c].seen # "called")
<1>1. /\ call[c].order \in Orders /\ call[c].printer \in Printers
      /\ call[c].seen \in {"away", "waiting", "called"}
  BY CallShapes DEF Writing
<1>2. order[call[c].order] \in OrderRows
  BY <1>1 DEF DeskTypeOK
<1> QED
  BY <1>1, <1>2 DEF Released, OrderRows, Statuses

(* Each statement of a request at the server keeps the types. *)
LEMMA ServerTypes ==
  ASSUME DeskTypeOK, NEW c \in Calls,
         LookUp(c) \/ Write(c) \/ RecordPayment(c) \/ Die(c) \/ Arrive(c) \/ AssignRead(c) \/ AssignWrite(c)
  PROVE  DeskTypeOK'
<1> USE DEF world, screens, history
<1>1. order \in [Orders -> OrderRows] /\ call \in [Calls -> CallStates]
  BY DEF DeskTypeOK
<1>2. CASE LookUp(c)
  <2>1. /\ call[c].step = "sent" /\ call[c].order \in Orders /\ call[c].desk \in Desks
        /\ call[c].override \in BOOLEAN
    BY <1>2, CallShapes DEF LookUp, Posted
  <2>2. CASE call' = [call EXCEPT ![c] = NoCall]
    BY <1>2, <2>2, CallBecomes DEF LookUp, DeskTypeOK
  <2>3. ASSUME NEW a \in Answers, AnswerWith(c, a) PROVE DeskTypeOK'
    <3>1. call' \in [Calls -> CallStates]
      BY <2>1, <2>3, CallBecomes DEF AnswerWith
    <3> QED
      BY <1>2, <3>1 DEF LookUp, DeskTypeOK
  <2>4. /\ [about |-> "turn"] \in Answers
        /\ [about |-> "printer", override |-> call[c].override] \in Answers
        /\ \A p \in Printers :
             [about |-> "payment", printer |-> p, override |-> call[c].override] \in Answers
    BY <2>1 DEF Answers
  <2>5. CASE /\ order[call[c].order].status \in {"away", "waiting", "called"}
             /\ \E p \in Printers :
                  call' = [call EXCEPT ![c] =
                    [step |-> "write", desk |-> call[c].desk, order |-> call[c].order, printer |-> p,
                     seen |-> order[call[c].order].status]]
    <3>1. \A p \in Printers :
            [step |-> "write", desk |-> call[c].desk, order |-> call[c].order, printer |-> p,
             seen |-> order[call[c].order].status] \in CallStates
      BY <2>1, <2>5 DEF CallStates, Writing
    <3>2. call' \in [Calls -> CallStates]
      BY <2>5, <3>1, CallBecomes
    <3> QED
      BY <1>2, <3>2 DEF LookUp, DeskTypeOK
  <2> QED
    BY <1>2, <2>2, <2>3, <2>4, <2>5, LookUpOutcomes
<1>3. CASE Write(c)
  <2>1. call[c].step = "write"
    BY <1>3 DEF Write
  <2>2. [about |-> "turn"] \in Answers
    BY DEF Answers
  <2>3. call' \in [Calls -> CallStates]
    <3>1. CASE call' = [call EXCEPT ![c].step = "record"]
      BY <2>1, <3>1, CallBecomes
    <3>2. CASE AnswerWith(c, [about |-> "turn"])
      BY <2>1, <2>2, <3>2, CallBecomes DEF AnswerWith
    <3>3. CASE Refuse(c)
      BY <3>3, CallBecomes DEF Refuse
    <3> QED
      BY <1>3, <3>1, <3>2, <3>3 DEF Write
  <2>4. order' \in [Orders -> OrderRows]
    BY <1>1, <1>3, <2>1, ReleasedRow DEF Write
  <2>5. printed' \in [Orders -> Printers \cup {Nil}]
    BY <1>3, <2>1, ReleasedRow DEF Write, DeskTypeOK
  <2>6. excused' \subseteq Orders \X {"assigned", "unrecorded"}
    <3>1. call[c].order \in Orders
      BY <2>1, ReleasedRow
    <3> QED
      BY <1>3, <3>1 DEF Write, DeskTypeOK
  <2> QED
    BY <1>3, <2>3, <2>4, <2>5, <2>6 DEF Write, DeskTypeOK
<1>4. CASE RecordPayment(c)
  <2>1. call[c].step = "record" /\ call[c].order \in Orders
    BY <1>4, CallShapes DEF RecordPayment, Writing
  <2>2. [about |-> "ok"] \in Answers
    BY DEF Answers
  <2>3. call' \in [Calls -> CallStates]
    BY <1>4, <2>1, <2>2, CallBecomes DEF RecordPayment, AnswerWith
  <2> QED
    BY <1>4, <2>1, <2>3 DEF RecordPayment, DeskTypeOK
<1>5. CASE Die(c)
  <2>1. call' \in [Calls -> CallStates]
    BY <1>5, CallBecomes DEF Die, Refuse
  <2>2. excused' \subseteq Orders \X {"assigned", "unrecorded"}
    <3>1. call[c].step = "record" => call[c].order \in Orders
      BY CallShapes DEF Writing
    <3> QED
      BY <1>5, <3>1 DEF Die, DeskTypeOK
  <2> QED
    BY <1>5, <2>1, <2>2 DEF Die, DeskTypeOK
<1>6. CASE Arrive(c)
  <2>1. call' \in [Calls -> CallStates]
    BY <1>6, CallBecomes DEF Arrive, Refuse
  <2>2. desk' \in [Desks -> DeskStates]
    BY <1>6, ArriveTypes
  <2> QED
    BY <1>6, <2>1, <2>2 DEF Arrive, DeskTypeOK
<1>7. CASE AssignRead(c)
  <2>1. call' \in [Calls -> CallStates]
    BY <1>7, CallBecomes DEF AssignRead, Refuse
  <2> QED
    BY <1>7, <2>1 DEF AssignRead, DeskTypeOK
<1>8. CASE AssignWrite(c)
  <2>1. call[c].order \in Orders /\ call[c].printer \in Printers
    BY <1>8, CallShapes DEF AssignWrite, Assignments
  <2>2. [order[call[c].order] EXCEPT !.printer = call[c].printer] \in OrderRows
    BY <1>1, <2>1, OrderWrites
  <2>3. order' \in [Orders -> OrderRows]
    BY <1>1, <1>8, <2>2 DEF AssignWrite
  <2>4. call' \in [Calls -> CallStates]
    BY <1>8, CallBecomes DEF AssignWrite, Refuse
  <2> QED
    BY <1>8, <2>3, <2>4 DEF AssignWrite, DeskTypeOK
<1> QED
  BY <1>2, <1>3, <1>4, <1>5, <1>6, <1>7, <1>8

(* Every step of the counter keeps the types. *)
LEMMA TypeInductive == ASSUME DeskTypeOK, [DeskNext]_deskVars PROVE DeskTypeOK'
<1>1. CASE UNCHANGED deskVars
  BY <1>1 DEF DeskTypeOK, deskVars, world, screens, history
<1> QED
  BY <1>1, ScreenTypes, ServerTypes DEF DeskNext

(* The state has its types. *)
THEOREM DeskTypeCorrect == DeskSpec => []DeskTypeOK
<1>1. DeskInit => DeskTypeOK
  <2> SUFFICES ASSUME DeskInit PROVE DeskTypeOK
    OBVIOUS
  <2>1. order \in [Orders -> OrderRows]
    BY DEF DeskInit, OrderRows, Statuses
  <2>2. desk \in [Desks -> DeskStates] /\ call \in [Calls -> CallStates]
    BY DeskWrites DEF DeskInit, CallStates
  <2> QED
    BY <2>1, <2>2 DEF DeskInit, DeskTypeOK
<1> QED
  BY <1>1, TypeInductive, PTL DEF DeskSpec
-----------------------------------------------------------------------------
(* The books and the printers. *)

(* The part of the invariant about what is written.                           *)
Books == CallsFitOrders /\ CollectionsAreRecorded /\ PrinterOfReleaseStays

(* A step that releases, assigns and records nothing: no order that was or    *)
(* becomes released is touched, and no request turns to "record" or "assign"  *)
(* but one whose order is not released.                                       *)
LEMMA QuietSteps ==
  ASSUME Books,
         \A o \in Orders :
           \/ order'[o] = order[o]
           \/ order[o].status # "released" /\ order'[o].status # "released",
         \A c \in Calls :
           \/ call'[c] = call[c]
           \/ call[c].step # "record" /\ call'[c].step \notin {"record", "assign"}
           \/ /\ call[c].step # "record" /\ call'[c].step = "assign"
              /\ order'[call'[c].order].status # "released",
         \A c \in Calls : call[c].step \in {"record", "assign"} => call[c].order \in Orders,
         recorded' = recorded, printed' = printed, excused' = excused
  PROVE  Books'
<1>1. CallsFitOrders'
  BY DEF Books, CallsFitOrders
<1>2. CollectionsAreRecorded'
  <2> SUFFICES ASSUME NEW o \in Orders
               PROVE  /\ o \in recorded => order'[o].status = "released"
                      /\ order'[o].status = "released" =>
                           \/ o \in recorded
                           \/ \E c \in Calls : call'[c].step = "record" /\ call'[c].order = o
                           \/ <<o, "unrecorded">> \in excused
    BY DEF CollectionsAreRecorded
  <2>1. /\ o \in recorded => order[o].status = "released"
        /\ order[o].status = "released" =>
             \/ o \in recorded
             \/ \E c \in Calls : call[c].step = "record" /\ call[c].order = o
             \/ <<o, "unrecorded">> \in excused
    BY DEF Books, CollectionsAreRecorded
  <2>2. order'[o] = order[o] \/ (order[o].status # "released" /\ order'[o].status # "released")
    OBVIOUS
  <2>3. \A c \in Calls : call[c].step = "record" => call'[c] = call[c]
    OBVIOUS
  <2> QED
    BY <2>1, <2>2, <2>3
<1>3. PrinterOfReleaseStays'
  BY DEF Books, PrinterOfReleaseStays
<1> QED
  BY <1>1, <1>2, <1>3 DEF Books

(* Every step keeps payment events and collected orders in agreement. *)
LEMMA BooksInductive == ASSUME DeskTypeOK, Books, [DeskNext]_deskVars PROVE Books'
<1> USE DEF world, screens, history
<1>1. order \in [Orders -> OrderRows] /\ call \in [Calls -> CallStates]
  BY DEF DeskTypeOK
<1>2. \A c \in Calls : call[c].step \in {"record", "assign"} => call[c].order \in Orders
  BY CallShapes DEF Writing, Assignments
<1>3. ASSUME order' = order, call' = call, recorded' = recorded, printed' = printed, excused' = excused
      PROVE  Books'
  BY <1>2, <1>3, QuietSteps
<1>4. ASSUME NEW o \in Orders, CheckIn(o) \/ Reveal(o) \/ Absent(o) \/ Close(o) PROVE Books'
  <2>1. /\ \A o2 \in Orders : o2 # o => order'[o2] = order[o2]
        /\ order[o].status # "released" /\ order'[o].status # "released"
    BY <1>1, <1>4 DEF CheckIn, Reveal, Absent, Close, Becomes, InLine, OrderRows
  <2>2. call' = call /\ recorded' = recorded /\ printed' = printed /\ excused' = excused
    BY <1>4 DEF CheckIn, Reveal, Absent, Close, Move
  <2> QED
    BY <1>2, <2>1, <2>2, QuietSteps
<1>5. ASSUME NEW p \in Printers, PrinterFlips(p) PROVE Books'
  BY <1>3, <1>5 DEF PrinterFlips, Move
<1>6. ASSUME NEW d \in Desks, NEW o \in Orders \cup {Nil}, TypeCode(d, o) PROVE Books'
  BY <1>3, <1>6 DEF TypeCode
<1>7. ASSUME NEW d \in Desks, NEW panel \in {"turn", "printer", "payment"}, Dismiss(d, panel) \/ Refresh(d)
      PROVE  Books'
  BY <1>3, <1>7 DEF Dismiss, Refresh
<1>8. ASSUME NEW d \in Desks, NEW about, NEW printer, NEW override, NEW cash,
             Post(d, about, printer, override, cash)
      PROVE  Books'
  <2>1. PICK c \in Calls :
          /\ call[c].step = "none"
          /\ call' = [call EXCEPT ![c] =
               [step |-> "sent", desk |-> d, order |-> desk[d].input, printer |-> printer,
                override |-> override, cash |-> cash]]
    BY <1>8 DEF Post
  <2>2. \A c2 \in Calls : \/ call'[c2] = call[c2]
                          \/ call[c2].step = "none" /\ call'[c2].step = "sent"
    BY <1>1, <2>1
  <2>3. order' = order /\ recorded' = recorded /\ printed' = printed /\ excused' = excused
    BY <1>8 DEF Post
  <2> QED
    BY <1>2, <2>2, <2>3, QuietSteps
<1>9. ASSUME NEW d \in Desks, Find(d) \/ PrintAnyway(d) \/ ConfirmPrinter(d) \/ PaymentReceived(d)
      PROVE  Books'
  BY <1>8, <1>9 DEF Find, PrintAnyway, ConfirmPrinter, PaymentReceived
<1>10. ASSUME NEW d \in Desks, NEW o \in Orders, NEW p \in Printers, Assign(d, o, p) PROVE Books'
  <2>1. PICK c \in Calls :
          /\ call[c].step = "none"
          /\ call' = [call EXCEPT ![c] = [step |-> "assign?", desk |-> d, order |-> o, printer |-> p]]
    BY <1>10 DEF Assign
  <2>2. \A c2 \in Calls : \/ call'[c2] = call[c2]
                          \/ call[c2].step = "none" /\ call'[c2].step = "assign?"
    BY <1>1, <2>1
  <2>3. order' = order /\ recorded' = recorded /\ printed' = printed /\ excused' = excused
    BY <1>10 DEF Assign
  <2> QED
    BY <1>2, <2>2, <2>3, QuietSteps
<1>11. ASSUME NEW c \in Calls, LookUp(c) PROVE Books'
  <2>1. call[c].step = "sent"
    BY <1>11 DEF LookUp
  <2>2. /\ \A c2 \in Calls : c2 # c => call'[c2] = call[c2]
        /\ call'[c].step \in {"none", "answer", "write"}
    BY <1>1, <1>11, LookUpOutcomes DEF AnswerWith, NoCall
  <2>3. order' = order /\ recorded' = recorded /\ printed' = printed /\ excused' = excused
    BY <1>11 DEF LookUp
  <2> QED
    BY <1>2, <2>1, <2>2, <2>3, QuietSteps
<1>12. ASSUME NEW c \in Calls, Write(c) PROVE Books'
  <2> DEFINE o == call[c].order
  <2>1. call[c].step = "write" /\ o \in Orders /\ call[c].seen \in {"away", "waiting", "called"}
    BY <1>12, ReleasedRow DEF Write
  <2>2. recorded' = recorded
    BY <1>12 DEF Write
  <2>3. \A c2 \in Calls : c2 # c => call'[c2] = call[c2]
    BY <1>1, <1>12 DEF Write, AnswerWith, Refuse
  <2>4. CASE /\ order' = order /\ printed' = printed /\ excused' = excused
             /\ AnswerWith(c, [about |-> "turn"]) \/ Refuse(c)
    <3>1. call'[c].step \in {"none", "answer"}
      BY <1>1, <2>4 DEF AnswerWith, Refuse, NoCall
    <3> QED
      BY <1>2, <2>1, <2>2, <2>3, <2>4, <3>1, QuietSteps
  <2>5. CASE /\ Column(order[o].status) = Column(call[c].seen)
             /\ order' = [order EXCEPT ![o] = Released(c)]
             /\ printed' = [printed EXCEPT ![o] = call[c].printer]
             /\ excused' = IF Assigning(o) THEN excused \cup {<<o, "assigned">>} ELSE excused
             /\ call' = [call EXCEPT ![c].step = "record"]
    <3>1. order[o].status # "released"
      BY <2>1, <2>5 DEF Column
    <3>2. /\ order'[o].status = "released" /\ order'[o].printer = call[c].printer
          /\ \A o2 \in Orders : o2 # o => order'[o2] = order[o2]
      BY <1>1, <2>1, <2>5, ReleasedRow
    <3>3. /\ printed'[o] = call[c].printer
          /\ \A o2 \in Orders : o2 # o => printed'[o2] = printed[o2]
      BY <2>1, <2>5 DEF DeskTypeOK
    <3>4. call'[c].step = "record" /\ call'[c].order = o
      <4>1. call[c] \in Writing
        BY <2>1, CallShapes
      <4> QED
        BY <1>1, <2>5, <4>1 DEF Writing
    <3>5. CallsFitOrders'
      <4> SUFFICES ASSUME NEW c2 \in Calls
                   PROVE  /\ call'[c2].step = "record" => order'[call'[c2].order].status = "released"
                          /\ call'[c2].step = "assign" /\ order'[call'[c2].order].status = "released" =>
                               <<call'[c2].order, "assigned">> \in excused'
        BY DEF CallsFitOrders
      <4>1. CASE c2 = c
        BY <3>2, <3>4, <4>1
      <4>2. CASE c2 # c
        <5>1. call'[c2] = call[c2]
          BY <2>3, <4>2
        <5>2. /\ call[c2].step = "record" => order[call[c2].order].status = "released"
              /\ call[c2].step = "assign" /\ order[call[c2].order].status = "released" =>
                   <<call[c2].order, "assigned">> \in excused
          BY DEF Books, CallsFitOrders
        <5>3. call[c2].step = "assign" /\ call[c2].order = o => <<o, "assigned">> \in excused'
          BY <2>5 DEF Assigning
        <5> QED
          BY <1>2, <2>5, <3>2, <5>1, <5>2, <5>3
      <4> QED
        BY <4>1, <4>2
    <3>6. CollectionsAreRecorded'
      <4> SUFFICES ASSUME NEW o2 \in Orders
                   PROVE  /\ o2 \in recorded => order'[o2].status = "released"
                          /\ order'[o2].status = "released" =>
                               \/ o2 \in recorded
                               \/ \E c2 \in Calls : call'[c2].step = "record" /\ call'[c2].order = o2
                               \/ <<o2, "unrecorded">> \in excused'
        BY <2>2 DEF CollectionsAreRecorded
      <4>1. CASE o2 = o
        BY <3>2, <3>4, <4>1
      <4>2. CASE o2 # o
        <5>1. /\ o2 \in recorded => order[o2].status = "released"
              /\ order[o2].status = "released" =>
                   \/ o2 \in recorded
                   \/ \E c2 \in Calls : call[c2].step = "record" /\ call[c2].order = o2
                   \/ <<o2, "unrecorded">> \in excused
          BY DEF Books, CollectionsAreRecorded
        <5>2. order'[o2] = order[o2] /\ (<<o2, "unrecorded">> \in excused => <<o2, "unrecorded">> \in excused')
          BY <2>5, <3>2, <4>2
        <5>3. \A c2 \in Calls : call[c2].step = "record" => call'[c2] = call[c2]
          BY <2>1, <2>3
        <5> QED
          BY <5>1, <5>2, <5>3
      <4> QED
        BY <4>1, <4>2
    <3>7. PrinterOfReleaseStays'
      <4> SUFFICES ASSUME NEW o2 \in Orders, order'[o2].status = "released"
                   PROVE  order'[o2].printer = printed'[o2] \/ <<o2, "assigned">> \in excused'
        BY DEF PrinterOfReleaseStays
      <4>1. CASE o2 = o
        BY <3>2, <3>3, <4>1
      <4>2. CASE o2 # o
        BY <2>5, <3>2, <3>3, <4>2 DEF Books, PrinterOfReleaseStays
      <4> QED
        BY <4>1, <4>2
    <3> QED
      BY <3>5, <3>6, <3>7 DEF Books
  <2> QED
    BY <1>12, <2>4, <2>5 DEF Write
<1>13. ASSUME NEW c \in Calls, RecordPayment(c) PROVE Books'
  <2> DEFINE o == call[c].order
  <2>1. call[c].step = "record" /\ o \in Orders /\ order[o].status = "released"
    BY <1>2, <1>13 DEF RecordPayment, Books, CallsFitOrders
  <2>2. order' = order /\ printed' = printed /\ excused' = excused /\ recorded' = recorded \cup {o}
    BY <1>13 DEF RecordPayment
  <2>3. /\ \A c2 \in Calls : c2 # c => call'[c2] = call[c2]
        /\ call'[c].step = "answer"
    BY <1>1, <1>13 DEF RecordPayment, AnswerWith
  <2>4. CallsFitOrders'
    BY <2>2, <2>3 DEF Books, CallsFitOrders
  <2>5. CollectionsAreRecorded'
    <3> SUFFICES ASSUME NEW o2 \in Orders
                 PROVE  /\ o2 \in recorded' => order[o2].status = "released"
                        /\ order[o2].status = "released" =>
                             \/ o2 \in recorded'
                             \/ \E c2 \in Calls : call'[c2].step = "record" /\ call'[c2].order = o2
                             \/ <<o2, "unrecorded">> \in excused
      BY <2>2 DEF CollectionsAreRecorded
    <3> QED
      BY <2>1, <2>2, <2>3 DEF Books, CollectionsAreRecorded
  <2>6. PrinterOfReleaseStays'
    BY <2>2 DEF Books, PrinterOfReleaseStays
  <2> QED
    BY <2>4, <2>5, <2>6 DEF Books
<1>14. ASSUME NEW c \in Calls, Die(c) PROVE Books'
  <2>1. order' = order /\ printed' = printed /\ recorded' = recorded
    BY <1>14 DEF Die
  <2>2. /\ \A c2 \in Calls : c2 # c => call'[c2] = call[c2]
        /\ call'[c].step = "none"
    BY <1>1, <1>14 DEF Die, Refuse, NoCall
  <2>3. /\ excused \subseteq excused'
        /\ call[c].step = "record" => <<call[c].order, "unrecorded">> \in excused'
    BY <1>14 DEF Die
  <2>4. CallsFitOrders'
    BY <2>1, <2>2, <2>3 DEF Books, CallsFitOrders
  <2>5. CollectionsAreRecorded'
    <3> SUFFICES ASSUME NEW o \in Orders
                 PROVE  /\ o \in recorded => order[o].status = "released"
                        /\ order[o].status = "released" =>
                             \/ o \in recorded
                             \/ \E c2 \in Calls : call'[c2].step = "record" /\ call'[c2].order = o
                             \/ <<o, "unrecorded">> \in excused'
      BY <2>1 DEF CollectionsAreRecorded
    <3> QED
      BY <2>2, <2>3 DEF Books, CollectionsAreRecorded
  <2>6. PrinterOfReleaseStays'
    BY <2>1, <2>3 DEF Books, PrinterOfReleaseStays
  <2> QED
    BY <2>4, <2>5, <2>6 DEF Books
<1>15. ASSUME NEW c \in Calls, Arrive(c) PROVE Books'
  <2>1. call[c].step = "answer" /\ order' = order /\ recorded' = recorded /\ printed' = printed
        /\ excused' = excused
    BY <1>15 DEF Arrive
  <2>2. /\ \A c2 \in Calls : c2 # c => call'[c2] = call[c2]
        /\ call'[c].step = "none"
    BY <1>1, <1>15 DEF Arrive, Refuse, NoCall
  <2> QED
    BY <1>2, <2>1, <2>2, QuietSteps
<1>16. ASSUME NEW c \in Calls, AssignRead(c) PROVE Books'
  <2>1. call[c].step = "assign?" /\ order' = order /\ recorded' = recorded /\ printed' = printed
        /\ excused' = excused
    BY <1>16 DEF AssignRead
  <2>2. \A c2 \in Calls : c2 # c => call'[c2] = call[c2]
    BY <1>1, <1>16 DEF AssignRead, Refuse
  <2>3. CASE Refuse(c)
    <3>1. call'[c].step = "none"
      BY <1>1, <2>3 DEF Refuse, NoCall
    <3> QED
      BY <1>2, <2>1, <2>2, <3>1, QuietSteps
  <2>4. CASE MayAssign(c) /\ call' = [call EXCEPT ![c].step = "assign"]
    <3>1. call[c] \in Assignments
      BY <2>1, CallShapes
    <3>2. call'[c].step = "assign" /\ call'[c].order = call[c].order
      BY <1>1, <2>4, <3>1 DEF Assignments
    <3>3. order'[call'[c].order].status # "released"
      BY <2>1, <2>4, <3>2 DEF MayAssign, InLine
    <3> QED
      BY <1>2, <2>1, <2>2, <3>2, <3>3, QuietSteps
  <2> QED
    BY <1>16, <2>3, <2>4 DEF AssignRead
<1>17. ASSUME NEW c \in Calls, AssignWrite(c) PROVE Books'
  <2> DEFINE o == call[c].order
  <2>1. call[c].step = "assign" /\ o \in Orders
    BY <1>2, <1>17 DEF AssignWrite
  <2>2. recorded' = recorded /\ printed' = printed /\ excused' = excused
    BY <1>17 DEF AssignWrite
  <2>3. /\ \A c2 \in Calls : c2 # c => call'[c2] = call[c2]
        /\ call'[c].step = "none"
    BY <1>1, <1>17 DEF AssignWrite, Refuse, NoCall
  <2>4. /\ \A o2 \in Orders : order'[o2].status = order[o2].status
        /\ \A o2 \in Orders : o2 # o => order'[o2] = order[o2]
    BY <1>1, <1>17, <2>1, OrderWrites DEF AssignWrite, OrderRows
  <2>5. order[o].status = "released" => <<o, "assigned">> \in excused
    BY <2>1 DEF Books, CallsFitOrders
  <2>6. CallsFitOrders'
    BY <1>2, <2>2, <2>3, <2>4 DEF Books, CallsFitOrders
  <2>7. CollectionsAreRecorded'
    <3> SUFFICES ASSUME NEW o2 \in Orders
                 PROVE  /\ o2 \in recorded => order'[o2].status = "released"
                        /\ order'[o2].status = "released" =>
                             \/ o2 \in recorded
                             \/ \E c2 \in Calls : call'[c2].step = "record" /\ call'[c2].order = o2
                             \/ <<o2, "unrecorded">> \in excused
      BY <2>2 DEF CollectionsAreRecorded
    <3>1. \A c2 \in Calls : call[c2].step = "record" => call'[c2] = call[c2]
      BY <2>1, <2>3
    <3> QED
      BY <2>4, <3>1 DEF Books, CollectionsAreRecorded
  <2>8. PrinterOfReleaseStays'
    BY <2>2, <2>4, <2>5 DEF Books, PrinterOfReleaseStays
  <2> QED
    BY <2>6, <2>7, <2>8 DEF Books
<1>18. CASE UNCHANGED deskVars
  BY <1>3, <1>18 DEF deskVars
<1> QED
  BY <1>4, <1>5, <1>6, <1>7, <1>9, <1>10, <1>11, <1>12, <1>13, <1>14, <1>15, <1>16, <1>17, <1>18
     DEF DeskNext
-----------------------------------------------------------------------------
(* What staff agreed to. *)

(* The part of the invariant about panels and answers.                        *)
Consent == PanelsShowInput /\ PanelsAgreed /\ CallsAgreed /\ ConfirmedWhatWasShown

(* Consent is never taken back.                                               *)
LEMMA ConsentGrows ==
  ASSUME agreed \subseteq agreed', slipped \subseteq slipped', NEW o
  PROVE  /\ TurnAgreed(o) => TurnAgreed(o)'
         /\ PaymentAgreed(o) => PaymentAgreed(o)'
  BY DEF TurnAgreed, PaymentAgreed

(* Each part of the invariant, in a step that leaves its state alone.         *)
LEMMA PanelsKept ==
  ASSUME PanelsShowInput, PanelsAgreed, desk' = desk, agreed \subseteq agreed', slipped \subseteq slipped'
  PROVE  PanelsShowInput' /\ PanelsAgreed'
  BY ConsentGrows DEF PanelsShowInput, PanelsAgreed

(* A request nobody touches keeps the consent it carries. *)
LEMMA CallKept ==
  ASSUME NEW c \in Calls, CallAgreed(c), call'[c] = call[c], agreed \subseteq agreed', slipped \subseteq slipped'
  PROVE  CallAgreed(c)'
  BY ConsentGrows DEF CallAgreed

(* A step that releases no order leaves what was confirmed as it is. *)
LEMMA OrdersKept ==
  ASSUME ConfirmedWhatWasShown, agreed \subseteq agreed', slipped \subseteq slipped',
         \A o \in Orders : /\ order'[o].status = "released" => order[o].status = "released"
                           /\ order'[o].outOfTurn => order[o].outOfTurn
  PROVE  ConfirmedWhatWasShown'
  BY DEF ConfirmedWhatWasShown

(* A posted request is agreed to: the panel it comes from was about the code  *)
(* it sends, or the code is noted as slipped.                                 *)
LEMMA PostAgreed ==
  ASSUME DeskTypeOK, Consent, NEW d \in Desks, NEW about, NEW printer, NEW override, NEW cash,
         Post(d, about, printer, override, cash),
         override => \/ desk[d].late /\ about # {}
                     \/ <<desk[d].input, "turn">> \in about
                     \/ TurnAgreed(desk[d].input),
         cash => \/ desk[d].late /\ about # {}
                 \/ <<desk[d].input, "payment">> \in about
  PROVE  Consent'
<1> USE DEF world, screens, history
<1>1. PICK c \in Calls :
        call' = [call EXCEPT ![c] =
             [step |-> "sent", desk |-> d, order |-> desk[d].input, printer |-> printer,
              override |-> override, cash |-> cash]]
  BY DEF Post
<1>2. /\ agreed' = agreed \cup about
      /\ slipped' = slipped \cup (IF about # {} /\ desk[d].late THEN {desk[d].input} ELSE {})
      /\ order' = order /\ desk' = desk
  BY DEF Post
<1>3. agreed \subseteq agreed' /\ slipped \subseteq slipped'
  BY <1>2
<1>4. /\ override => <<desk[d].input, "turn">> \in agreed' \/ desk[d].input \in slipped'
      /\ cash => <<desk[d].input, "payment">> \in agreed' \/ desk[d].input \in slipped'
  BY <1>2 DEF TurnAgreed, PaymentAgreed
<1>5. CallsAgreed'
  <2> SUFFICES ASSUME NEW c2 \in Calls PROVE CallAgreed(c2)'
    BY DEF CallsAgreed
  <2>1. CASE c2 = c
    <3>1. call'[c] = [step |-> "sent", desk |-> d, order |-> desk[d].input, printer |-> printer,
                      override |-> override, cash |-> cash]
      BY <1>1 DEF DeskTypeOK
    <3>2. /\ call'[c].step = "sent" /\ call'[c].order = desk[d].input
          /\ call'[c].override = override /\ call'[c].cash = cash
      BY <3>1
    <3> QED
      BY <1>4, <2>1, <3>2 DEF CallAgreed, TurnAgreed, PaymentAgreed
  <2>2. CASE c2 # c
    <3>1. call'[c2] = call[c2]
      BY <1>1, <2>2 DEF DeskTypeOK
    <3> QED
      BY <1>3, <3>1, CallKept DEF Consent, CallsAgreed
  <2> QED
    BY <2>1, <2>2
<1>6. PanelsShowInput' /\ PanelsAgreed'
  BY <1>2, <1>3, PanelsKept DEF Consent
<1>7. ConfirmedWhatWasShown'
  BY <1>2, <1>3, OrdersKept DEF Consent
<1> QED
  BY <1>5, <1>6, <1>7 DEF Consent

(* A step of the server that agrees to nothing new: one request changes and,  *)
(* but for an arriving answer, no dashboard.                                  *)
LEMMA ServerStep ==
  ASSUME DeskTypeOK, Consent, NEW c \in Calls,
         \A c2 \in Calls : c2 # c => call'[c2] = call[c2],
         CallAgreed(c)', agreed' = agreed, slipped' = slipped
  PROVE  CallsAgreed'
<1> SUFFICES ASSUME NEW c2 \in Calls PROVE CallAgreed(c2)'
  BY DEF CallsAgreed
<1> QED
  BY CallKept DEF Consent, CallsAgreed

(* The line and the screens.                                                  *)
LEMMA ScreenConsent ==
  ASSUME DeskTypeOK, Consent,
         \/ \E o \in Orders : CheckIn(o) \/ Reveal(o) \/ Absent(o) \/ Close(o)
         \/ \E p \in Printers : PrinterFlips(p)
         \/ \E d \in Desks :
              \/ \E o \in Orders \cup {Nil} : TypeCode(d, o)
              \/ \E panel \in {"turn", "printer", "payment"} : Dismiss(d, panel)
              \/ Refresh(d)
              \/ \E o \in Orders, p \in Printers : Assign(d, o, p)
  PROVE  Consent'
<1> USE DEF world, screens, history
<1>1. order \in [Orders -> OrderRows] /\ desk \in [Desks -> DeskStates]
  BY DEF DeskTypeOK
<1>2. ASSUME call' = call, agreed' = agreed, slipped' = slipped PROVE CallsAgreed'
  BY <1>2 DEF Consent, CallsAgreed, CallAgreed, TurnAgreed, PaymentAgreed
<1>3. ASSUME NEW o \in Orders, CheckIn(o) \/ Reveal(o) \/ Absent(o) \/ Close(o) PROVE Consent'
  <2>1. \A o2 \in Orders : /\ order'[o2].status = "released" => order[o2].status = "released"
                           /\ order'[o2].outOfTurn => order[o2].outOfTurn
    <3>1. CASE CheckIn(o)
      BY <1>1, <3>1 DEF CheckIn, OrderRows
    <3>2. CASE Reveal(o) \/ Absent(o) \/ Close(o)
      BY <1>1, <3>2 DEF Reveal, Absent, Close, Becomes, OrderRows
    <3> QED
      BY <1>3, <3>1, <3>2
  <2>2. desk' = desk /\ call' = call /\ agreed' = agreed /\ slipped' = slipped
    BY <1>3 DEF CheckIn, Reveal, Absent, Close, Move
  <2> QED
    BY <1>2, <2>1, <2>2, OrdersKept, PanelsKept DEF Consent
<1>4. ASSUME NEW p \in Printers, PrinterFlips(p) PROVE Consent'
  <2>1. order' = order /\ desk' = desk /\ call' = call /\ agreed' = agreed /\ slipped' = slipped
    BY <1>4 DEF PrinterFlips, Move
  <2> QED
    BY <1>2, <2>1, OrdersKept, PanelsKept DEF Consent
<1>5. ASSUME NEW d \in Desks, NEW o \in Orders \cup {Nil}, TypeCode(d, o) PROVE Consent'
  <2>1. order' = order /\ call' = call /\ agreed' = agreed /\ slipped' = slipped
    BY <1>5 DEF TypeCode
  <2>2. /\ \A d2 \in Desks : d2 # d => desk'[d2] = desk[d2]
        /\ desk'[d].turn = Nil /\ desk'[d].printer = Nil /\ desk'[d].payment = Nil
    BY <1>1, <1>5 DEF TypeCode, Blank
  <2>3. PanelsShowInput' /\ PanelsAgreed'
    BY <2>1, <2>2 DEF Consent, PanelsShowInput, PanelsAgreed, TurnAgreed
  <2> QED
    BY <1>2, <2>1, <2>3, OrdersKept DEF Consent
<1>6. ASSUME NEW d \in Desks, NEW panel \in {"turn", "printer", "payment"}, Dismiss(d, panel)
      PROVE  Consent'
  <2>1. order' = order /\ call' = call /\ agreed' = agreed /\ slipped' = slipped
    BY <1>6 DEF Dismiss
  <2>2. /\ \A d2 \in Desks : d2 # d => desk'[d2] = desk[d2]
        /\ desk'[d].late = desk[d].late /\ desk'[d].input = desk[d].input
        /\ desk'[d].turn = desk[d].turn \/ desk'[d].turn = Nil
        /\ desk'[d].printer = desk[d].printer \/ desk'[d].printer = Nil
        /\ desk'[d].payment = desk[d].payment \/ desk'[d].payment = Nil
    BY <1>1, <1>6 DEF Dismiss, DeskStates
  <2>3. PanelsShowInput'
    BY <2>2 DEF Consent, PanelsShowInput
  <2>4. PanelsAgreed'
    <3> SUFFICES ASSUME NEW d2 \in Desks
                 PROVE  /\ desk'[d2].printer # Nil /\ desk'[d2].printer.override =>
                             TurnAgreed(desk'[d2].printer.order)
                        /\ desk'[d2].payment # Nil /\ desk'[d2].payment.override =>
                             TurnAgreed(desk'[d2].payment.order)
      BY <2>1 DEF PanelsAgreed, TurnAgreed
    <3>1. /\ desk'[d2].printer = desk[d2].printer \/ desk'[d2].printer = Nil
          /\ desk'[d2].payment = desk[d2].payment \/ desk'[d2].payment = Nil
      BY <2>2
    <3> QED
      BY <3>1 DEF Consent, PanelsAgreed
  <2> QED
    BY <1>2, <2>1, <2>3, <2>4, OrdersKept DEF Consent
<1>7. ASSUME NEW d \in Desks, Refresh(d) PROVE Consent'
  <2>1. order' = order /\ desk' = desk /\ call' = call /\ agreed' = agreed /\ slipped' = slipped
    BY <1>7 DEF Refresh
  <2> QED
    BY <1>2, <2>1, OrdersKept, PanelsKept DEF Consent
<1>8. ASSUME NEW d \in Desks, NEW o \in Orders, NEW p \in Printers, Assign(d, o, p) PROVE Consent'
  <2>1. order' = order /\ desk' = desk /\ agreed' = agreed /\ slipped' = slipped
    BY <1>8 DEF Assign
  <2>2. PICK c \in Calls : call' = [call EXCEPT ![c] =
                             [step |-> "assign?", desk |-> d, order |-> o, printer |-> p]]
    BY <1>8 DEF Assign
  <2>3. /\ \A c2 \in Calls : c2 # c => call'[c2] = call[c2]
        /\ call'[c].step = "assign?"
    BY <2>2 DEF DeskTypeOK
  <2>4. CallAgreed(c)'
    BY <2>3 DEF CallAgreed
  <2> QED
    BY <2>1, <2>3, <2>4, ServerStep, OrdersKept, PanelsKept DEF Consent
<1> QED
  BY <1>3, <1>4, <1>5, <1>6, <1>7, <1>8

(* The buttons of the panels.                                                 *)
LEMMA PanelConsent ==
  ASSUME DeskTypeOK, Consent, NEW d \in Desks,
         Find(d) \/ PrintAnyway(d) \/ ConfirmPrinter(d) \/ PaymentReceived(d)
  PROVE  Consent'
<1>1. CASE Find(d)
  BY <1>1, PostAgreed DEF Find
<1>2. CASE PrintAnyway(d)
  <2>1. Post(d, {<<desk[d].turn, "turn">>}, Nil, TRUE, FALSE) /\ desk[d].turn # Nil
    BY <1>2 DEF PrintAnyway
  <2>2. desk[d].late \/ desk[d].turn = desk[d].input
    BY <2>1 DEF Consent, PanelsShowInput
  <2>3. \/ desk[d].late /\ {<<desk[d].turn, "turn">>} # {}
        \/ <<desk[d].input, "turn">> \in {<<desk[d].turn, "turn">>}
    BY <2>2
  <2> QED
    BY <2>1, <2>3, PostAgreed
<1>3. CASE ConfirmPrinter(d)
  <2> DEFINE about == {<<desk[d].printer.order, "printer">>}
  <2>1. desk[d].printer # Nil
    BY <1>3 DEF ConfirmPrinter
  <2>2. PICK p \in Printers : Post(d, about, p, desk[d].printer.override, FALSE)
    BY <1>3 DEF ConfirmPrinter
  <2>3. desk[d].late \/ desk[d].printer.order = desk[d].input
    BY <2>1 DEF Consent, PanelsShowInput
  <2>4. desk[d].printer.override => TurnAgreed(desk[d].printer.order)
    BY <2>1 DEF Consent, PanelsAgreed
  <2>5. about # {}
    OBVIOUS
  <2> HIDE DEF about
  <2>6. desk[d].printer.override =>
          \/ desk[d].late /\ about # {}
          \/ <<desk[d].input, "turn">> \in about
          \/ TurnAgreed(desk[d].input)
    BY <2>3, <2>4, <2>5
  <2> QED
    BY <2>2, <2>6, PostAgreed
<1>4. CASE PaymentReceived(d)
  <2> DEFINE about == {<<desk[d].payment.order, "payment">>}
  <2>1. desk[d].payment # Nil
    BY <1>4 DEF PaymentReceived
  <2>2. Post(d, about, desk[d].payment.printer, desk[d].payment.override, TRUE)
    BY <1>4 DEF PaymentReceived
  <2>3. desk[d].late \/ desk[d].payment.order = desk[d].input
    BY <2>1 DEF Consent, PanelsShowInput
  <2>4. desk[d].payment.override => TurnAgreed(desk[d].payment.order)
    BY <2>1 DEF Consent, PanelsAgreed
  <2>5. about # {} /\ (desk[d].late \/ <<desk[d].input, "payment">> \in about)
    BY <2>3
  <2> HIDE DEF about
  <2>6. desk[d].payment.override =>
          \/ desk[d].late /\ about # {}
          \/ <<desk[d].input, "turn">> \in about
          \/ TurnAgreed(desk[d].input)
    BY <2>3, <2>4, <2>5
  <2>7. \/ desk[d].late /\ about # {}
        \/ <<desk[d].input, "payment">> \in about
    BY <2>5
  <2> QED
    BY <2>2, <2>6, <2>7, PostAgreed
<1> QED
  BY <1>1, <1>2, <1>3, <1>4

(* The lookup of a request hands its consent on.                              *)
LEMMA LookUpConsent == ASSUME DeskTypeOK, Consent, NEW c \in Calls, LookUp(c) PROVE Consent'
<1> USE DEF world, screens, history
<1> DEFINE o == call[c].order
<1>1. order' = order /\ desk' = desk /\ agreed' = agreed /\ slipped' = slipped
  BY DEF LookUp
<1>2. call \in [Calls -> CallStates] /\ call[c].step = "sent"
  BY DEF LookUp, DeskTypeOK
<1>3. /\ call[c].override => TurnAgreed(o)
      /\ call[c].cash => PaymentAgreed(o)
  BY <1>2 DEF Consent, CallsAgreed, CallAgreed
<1>4. \A c2 \in Calls : c2 # c => call'[c2] = call[c2]
  BY <1>2, LookUpOutcomes DEF AnswerWith
<1>5. CallAgreed(c)'
  <2>1. CASE call' = [call EXCEPT ![c] = NoCall] \/ AnswerWith(c, [about |-> "turn"])
    <3>1. \/ call'[c].step = "none"
          \/ call'[c].step = "answer" /\ call'[c].answer.about = "turn"
      BY <1>2, <2>1 DEF AnswerWith, NoCall
    <3> QED
      BY <3>1 DEF CallAgreed
  <2>2. CASE \/ AnswerWith(c, [about |-> "printer", override |-> call[c].override])
             \/ \E p \in Printers :
                  AnswerWith(c, [about |-> "payment", printer |-> p, override |-> call[c].override])
    <3>1. /\ call'[c].step = "answer" /\ call'[c].order = o
          /\ call'[c].answer.override = call[c].override
      BY <1>2, <2>2 DEF AnswerWith
    <3> QED
      BY <1>1, <1>3, <3>1 DEF CallAgreed, TurnAgreed
  <2>3. CASE /\ call[c].cash /\ (call[c].override \/ order[o].status = "called")
             /\ \E p \in Printers :
                  call' = [call EXCEPT ![c] =
                    [step |-> "write", desk |-> call[c].desk, order |-> o, printer |-> p,
                     seen |-> order[o].status]]
    <3>1. /\ call'[c].step = "write" /\ call'[c].order = o
          /\ call'[c].seen = order[o].status
      BY <1>2, <2>3
    <3> QED
      BY <1>1, <1>3, <2>3, <3>1 DEF CallAgreed, TurnAgreed, PaymentAgreed
  <2> QED
    BY <2>1, <2>2, <2>3, LookUpOutcomes
<1>6. CallsAgreed'
  BY <1>1, <1>4, <1>5, ServerStep
<1> QED
  BY <1>1, <1>6, PanelsKept, OrdersKept DEF Consent

(* The write releases an order only with the consent its request carries.     *)
LEMMA WriteConsent == ASSUME DeskTypeOK, Consent, NEW c \in Calls, Write(c) PROVE Consent'
<1> USE DEF world, screens, history
<1> DEFINE o == call[c].order
<1>1. desk' = desk /\ agreed' = agreed /\ slipped' = slipped
  BY DEF Write
<1>2. call \in [Calls -> CallStates] /\ order \in [Orders -> OrderRows]
  BY DEF DeskTypeOK
<1>3. call[c].step = "write" /\ call[c] \in Writing /\ o \in Orders
  BY CallShapes, ReleasedRow DEF Write
<1>4. /\ PaymentAgreed(o)
      /\ call[c].seen # "called" => TurnAgreed(o)
  BY <1>3 DEF Consent, CallsAgreed, CallAgreed
<1>5. \A c2 \in Calls : c2 # c => call'[c2] = call[c2]
  BY <1>2 DEF Write, AnswerWith, Refuse
<1>6. \/ call'[c].step \in {"none", "record"}
      \/ call'[c].step = "answer" /\ call'[c].answer.about = "turn"
  BY <1>2, <1>3 DEF Write, AnswerWith, Refuse, NoCall, Writing
<1>7. CallsAgreed'
  <2>1. CallAgreed(c)'
    BY <1>6 DEF CallAgreed
  <2> QED
    BY <1>1, <1>5, <2>1, ServerStep
<1>8. ConfirmedWhatWasShown'
  <2>1. CASE order' = order
    BY <1>1, <2>1, OrdersKept DEF Consent
  <2>2. CASE order' = [order EXCEPT ![o] = Released(c)]
    <3>1. /\ order'[o] = Released(c)
          /\ \A o2 \in Orders : o2 # o => order'[o2] = order[o2]
      BY <1>2, <1>3, <2>2
    <3>2. order'[o].outOfTurn = (call[c].seen # "called")
      BY <1>3, <3>1, ReleasedRow
    <3> QED
      BY <1>1, <1>4, <3>1, <3>2 DEF Consent, ConfirmedWhatWasShown, TurnAgreed, PaymentAgreed
  <2> QED
    BY <2>1, <2>2 DEF Write
<1> QED
  BY <1>1, <1>7, <1>8, PanelsKept DEF Consent

(* An answer opens a panel about its own order, or the desk is noted as late. *)
LEMMA ArriveConsent == ASSUME DeskTypeOK, Consent, NEW c \in Calls, Arrive(c) PROVE Consent'
<1> USE DEF world, screens, history
<1> DEFINE d == call[c].desk
           o == call[c].order
           a == call[c].answer
<1>1. order' = order /\ agreed' = agreed /\ slipped' = slipped
  BY DEF Arrive
<1>2. call \in [Calls -> CallStates] /\ desk \in [Desks -> DeskStates]
  BY DEF DeskTypeOK
<1>3. call[c].step = "answer" /\ d \in Desks /\ o \in Orders /\ a \in Answers
  BY CallShapes DEF Arrive, Answering
<1>4. /\ \A c2 \in Calls : c2 # c => call'[c2] = call[c2]
      /\ call'[c].step = "none"
  BY <1>2 DEF Arrive, Refuse, NoCall
<1>5. CallsAgreed'
  <2>1. CallAgreed(c)'
    BY <1>4 DEF CallAgreed
  <2> QED
    BY <1>1, <1>4, <2>1, ServerStep
<1>6. a.about \in {"printer", "payment"} /\ a.override => TurnAgreed(o)
  BY <1>3 DEF Consent, CallsAgreed, CallAgreed
<1>7. \A d2 \in Desks : d2 # d => desk'[d2] = desk[d2]
  BY <1>2 DEF Arrive
<1>8. desk[d] \in DeskStates
  BY <1>2, <1>3
<1>9. /\ ~desk'[d].late =>
           /\ desk'[d].turn # Nil => desk'[d].turn = desk'[d].input
           /\ desk'[d].printer # Nil => desk'[d].printer.order = desk'[d].input
           /\ desk'[d].payment # Nil => desk'[d].payment.order = desk'[d].input
      /\ desk'[d].printer # Nil /\ desk'[d].printer.override => TurnAgreed(desk'[d].printer.order)
      /\ desk'[d].payment # Nil /\ desk'[d].payment.override => TurnAgreed(desk'[d].payment.order)
  <2>0. /\ ~desk[d].late =>
             /\ desk[d].turn # Nil => desk[d].turn = desk[d].input
             /\ desk[d].printer # Nil => desk[d].printer.order = desk[d].input
             /\ desk[d].payment # Nil => desk[d].payment.order = desk[d].input
        /\ desk[d].printer # Nil /\ desk[d].printer.override => TurnAgreed(desk[d].printer.order)
        /\ desk[d].payment # Nil /\ desk[d].payment.override => TurnAgreed(desk[d].payment.order)
    BY <1>3 DEF Consent, PanelsShowInput, PanelsAgreed
  <2> DEFINE late == desk[d].late \/ desk[d].input # o
  <2>1. CASE a.about = "turn"
    <3>1. desk'[d] = [desk[d] EXCEPT !.turn = o, !.payment = Nil, !.late = late]
      BY <1>2, <1>3, <2>1 DEF Arrive
    <3>2. /\ desk'[d].input = desk[d].input /\ desk'[d].printer = desk[d].printer
          /\ desk'[d].turn = o /\ desk'[d].payment = Nil /\ desk'[d].late = late
      BY <1>8, <3>1 DEF DeskStates
    <3> QED
      BY <2>0, <3>2
  <2>2. CASE a.about = "printer"
    <3>1. desk'[d] = [desk[d] EXCEPT !.printer = [order |-> o, override |-> a.override],
                                     !.payment = Nil, !.late = late]
      BY <1>2, <1>3, <2>2 DEF Arrive
    <3>2. /\ desk'[d].input = desk[d].input /\ desk'[d].turn = desk[d].turn
          /\ desk'[d].printer.order = o /\ desk'[d].printer.override = a.override
          /\ desk'[d].payment = Nil /\ desk'[d].late = late
      BY <1>8, <3>1 DEF DeskStates
    <3> QED
      BY <1>6, <2>0, <2>2, <3>2
  <2>3. CASE a.about = "payment"
    <3>1. desk'[d] = [desk[d] EXCEPT
                       !.payment = [order |-> o, printer |-> a.printer, override |-> a.override],
                       !.turn = Nil, !.printer = Nil, !.late = late]
      BY <1>2, <1>3, <2>3 DEF Arrive
    <3>2. /\ desk'[d].input = desk[d].input /\ desk'[d].turn = Nil /\ desk'[d].printer = Nil
          /\ desk'[d].payment.order = o /\ desk'[d].payment.override = a.override
          /\ desk'[d].late = late
      BY <1>8, <3>1 DEF DeskStates
    <3> QED
      BY <1>6, <2>0, <2>3, <3>2
  <2>4. CASE a.about = "ok"
    <3>1. desk'[d] = Blank
      BY <1>2, <1>3, <2>4 DEF Arrive
    <3> QED
      BY <3>1 DEF Blank
  <2> QED
    BY <1>3, <2>1, <2>2, <2>3, <2>4 DEF Answers
<1>10. PanelsShowInput'
  BY <1>7, <1>9 DEF Consent, PanelsShowInput
<1>11. PanelsAgreed'
  BY <1>1, <1>7, <1>9 DEF Consent, PanelsAgreed, TurnAgreed
<1> QED
  BY <1>1, <1>5, <1>10, <1>11, OrdersKept DEF Consent

(* Every step keeps panels, answers and requests within what staff agreed to. *)
LEMMA ConsentInductive == ASSUME DeskTypeOK, Consent, [DeskNext]_deskVars PROVE Consent'
<1> USE DEF world, screens, history
<1>1. call \in [Calls -> CallStates] /\ order \in [Orders -> OrderRows]
  BY DEF DeskTypeOK
<1>2. ASSUME NEW c \in Calls, RecordPayment(c) \/ Die(c) \/ AssignRead(c) \/ AssignWrite(c)
      PROVE  Consent'
  <2>1. desk' = desk /\ agreed' = agreed /\ slipped' = slipped
    BY <1>2 DEF RecordPayment, Die, AssignRead, AssignWrite
  <2>2. \A c2 \in Calls : c2 # c => call'[c2] = call[c2]
    BY <1>1, <1>2 DEF RecordPayment, Die, AssignRead, AssignWrite, AnswerWith, Refuse
  <2>3. \/ call'[c].step \in {"none", "assign"}
        \/ call'[c].step = "answer" /\ call'[c].answer.about = "ok"
    <3>1. CASE RecordPayment(c) \/ Die(c) \/ AssignWrite(c)
      BY <1>1, <3>1 DEF RecordPayment, Die, AssignWrite, AnswerWith, Refuse, NoCall
    <3>2. CASE AssignRead(c)
      <4>1. call[c] \in Assignments
        BY <3>2, CallShapes DEF AssignRead
      <4> QED
        BY <1>1, <3>2, <4>1 DEF AssignRead, Refuse, NoCall, Assignments
    <3> QED
      BY <1>2, <3>1, <3>2
  <2>4. CallsAgreed'
    <3>1. CallAgreed(c)'
      BY <2>3 DEF CallAgreed
    <3> QED
      BY <2>1, <2>2, <3>1, ServerStep
  <2>5. \A o2 \in Orders : /\ order'[o2].status = "released" => order[o2].status = "released"
                           /\ order'[o2].outOfTurn => order[o2].outOfTurn
    BY <1>1, <1>2 DEF RecordPayment, Die, AssignRead, AssignWrite, OrderRows
  <2> QED
    BY <2>1, <2>4, <2>5, PanelsKept, OrdersKept DEF Consent
<1>3. CASE UNCHANGED deskVars
  <2>1. CallsAgreed'
    BY <1>3 DEF deskVars, Consent, CallsAgreed, CallAgreed, TurnAgreed, PaymentAgreed
  <2>2. desk' = desk /\ order' = order /\ agreed' = agreed /\ slipped' = slipped
    BY <1>3 DEF deskVars
  <2> QED
    BY <2>1, <2>2, PanelsKept, OrdersKept DEF Consent
<1> QED
  BY <1>2, <1>3, ScreenConsent, PanelConsent, LookUpConsent, WriteConsent, ArriveConsent DEF DeskNext

-----------------------------------------------------------------------------
(* The invariant holds. *)

(* At the start no panel is open and no request under way. *)
LEMMA DeskBegins == DeskInit => DeskInvariant
<1> SUFFICES ASSUME DeskInit PROVE DeskInvariant
  OBVIOUS
<1>1. \A o \in Orders : /\ order[o].status \in {"away", "waiting"}
                        /\ order[o].outOfTurn = FALSE
  BY DEF DeskInit
<1>2. \A c \in Calls : call[c].step = "none"
  BY DEF DeskInit, NoCall
<1>3. \A d \in Desks : desk[d].turn = Nil /\ desk[d].printer = Nil /\ desk[d].payment = Nil
  BY DEF DeskInit, Blank
<1>4. DeskTypeOK
  <2>1. order \in [Orders -> OrderRows]
    BY DEF DeskInit, OrderRows, Statuses
  <2>2. desk \in [Desks -> DeskStates]
    BY DeskWrites DEF DeskInit
  <2>3. call \in [Calls -> CallStates]
    BY DEF DeskInit, CallStates
  <2> QED
    BY <2>1, <2>2, <2>3 DEF DeskInit, DeskTypeOK
<1>5. PanelsShowInput /\ PanelsAgreed
  BY <1>3 DEF PanelsShowInput, PanelsAgreed
<1>6. CallsAgreed /\ CallsFitOrders
  BY <1>2 DEF CallsAgreed, CallAgreed, CallsFitOrders
<1>7. ConfirmedWhatWasShown /\ CollectionsAreRecorded /\ PrinterOfReleaseStays
  BY <1>1 DEF DeskInit, ConfirmedWhatWasShown, CollectionsAreRecorded, PrinterOfReleaseStays
<1> QED
  BY <1>4, <1>5, <1>6, <1>7 DEF DeskInvariant

(* The consent of staff, the books and the printers, in every state.          *)
THEOREM DeskInvariantHolds == DeskSpec => []DeskInvariant
<1>1. ASSUME DeskInvariant, [DeskNext]_deskVars PROVE DeskInvariant'
  <2>1. DeskTypeOK /\ Consent /\ Books
    BY <1>1 DEF DeskInvariant, Consent, Books
  <2>2. DeskTypeOK' /\ Consent' /\ Books'
    BY <1>1, <2>1, TypeInductive, ConsentInductive, BooksInductive
  <2> QED
    BY <2>2 DEF DeskInvariant, Consent, Books
<1> QED
  BY <1>1, DeskBegins, PTL DEF DeskSpec

(* An order is collected, or printed out of turn, only after staff confirmed  *)
(* a panel about this very order, unless an answer came late: whatever the    *)
(* other desks, the line and the printers do meanwhile.                       *)
THEOREM ConfirmedWhatWasShownHolds == DeskSpec => []ConfirmedWhatWasShown
<1>1. DeskInvariant => ConfirmedWhatWasShown
  BY DEF DeskInvariant
<1> QED
  BY <1>1, DeskInvariantHolds, PTL

(* Payment events and collected orders agree, but for a request between its   *)
(* two statements or one whose process died there.                            *)
THEOREM CollectionsAreRecordedHolds == DeskSpec => []CollectionsAreRecorded
<1>1. DeskInvariant => CollectionsAreRecorded
  BY DEF DeskInvariant
<1> QED
  BY <1>1, DeskInvariantHolds, PTL

(* A released order stays with the printer it was dispatched to, unless an    *)
(* assignment had read it in the line before.                                 *)
THEOREM PrinterOfReleaseStaysHolds == DeskSpec => []PrinterOfReleaseStays
<1>1. DeskInvariant => PrinterOfReleaseStays
  BY DEF DeskInvariant
<1> QED
  BY <1>1, DeskInvariantHolds, PTL

(* What a release decided stays: its payment in the books, its printer on the *)
(* order (shops/routes.ts:916-932, 964-975).                                  *)
THEOREM ReleaseIsKeptHolds == DeskSpec => []ReleaseIsKept
BY CollectionsAreRecordedHolds, PrinterOfReleaseStaysHolds, PTL DEF ReleaseIsKept
================================================================================
