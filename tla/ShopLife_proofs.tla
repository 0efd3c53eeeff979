---------------------------- MODULE ShopLife_proofs ----------------------------
(***************************************************************************)
(* For every set of facts and students and all bounds: the decision of an  *)
(* administrator stands, and students see the facts that were reviewed.    *)
(***************************************************************************)
EXTENDS ShopLife, TLAPS

USE ShopAssumption

-----------------------------------------------------------------------------
(* The inductive invariant. *)

(* A submission is parked by what its handler read: of an auto-live shop it   *)
(* never read "rejected", the handler had refused it.                         *)
SubmissionsMayCount == \A h \in flight : autoLive => h.saw # "rejected"

(* Only an administrator brings a shop he took away back; an auto-live one    *)
(* also waits where publishIfReady does not look.                             *)
DecisionKept ==
  lastAction \in {"rejected", "unpublished"} /\ "submission" \notin overtaken =>
    ~shop.published /\ (autoLive => shop.status \in {"verified", "rejected"})

(* Whether shown or not, a verified shop has the facts that were reviewed.    *)
ReviewKept ==
  ~autoLive /\ shop.status = "verified" => shop.facts = reviewed \/ "save" \in overtaken

ShopInvariant ==
  TypeOK /\ SubmissionsMayCount /\ DecisionKept /\ ReviewKept

-----------------------------------------------------------------------------
(* Handlers. *)

(* What a handler becomes after a step is a handler that remembers what it    *)
(* read, or nothing.                                                          *)
LEMMA AfterStep ==
  ASSUME NEW h \in Handlers, NEW todo \in Seq(Steps)
  PROVE  /\ After(h, todo) \subseteq Handlers
         /\ \A g \in After(h, todo) : g.todo = todo /\ (g.saw = h.saw \/ g.saw = "-")
<1> DEFINE next == [h EXCEPT !.todo = todo, !.was = 0, !.to = 0]
           saw == IF todo[Len(todo)] = "submit" THEN next.saw ELSE "-"
           who == IF Head(todo) = "forget" THEN next.who ELSE {}
<1>1. CASE todo = <<>>
  BY <1>1 DEF After
<1>2. CASE todo # <<>>
  <2>1. next \in Handlers /\ next.saw = h.saw /\ next.who = h.who /\ next.todo = todo
    BY <1>2 DEF Handlers
  <2>2. /\ saw \in {"draft", "submitted", "verified", "rejected", "-"} /\ who \in SUBSET Students
        /\ saw = h.saw \/ saw = "-"
    BY <2>1 DEF Handlers
  <2>3. After(h, todo) = {[next EXCEPT !.saw = saw, !.who = who]}
    BY <1>2 DEF After
  <2> HIDE DEF next, saw, who
  <2>4. /\ [next EXCEPT !.saw = saw, !.who = who] \in Handlers
        /\ [next EXCEPT !.saw = saw, !.who = who].saw = saw
        /\ [next EXCEPT !.saw = saw, !.who = who].todo = todo
    BY <2>1, <2>2 DEF Handlers
  <2> QED
    BY <2>2, <2>3, <2>4
<1> QED
  BY <1>1, <1>2

(* A handler that goes on has read nothing new. *)
LEMMA FinishStep ==
  ASSUME NEW h \in Handlers, flight \subseteq Handlers, Finish(h)
  PROVE  /\ flight' \subseteq Handlers
         /\ \A g \in flight' : g \in flight \/ g.saw = h.saw \/ g.saw = "-"
         /\ \A g \in flight' : g \in flight \/ g.todo = Tail(h.todo)
<1>1. Tail(h.todo) \in Seq(Steps)
  BY DEF Handlers
<1> QED
  BY <1>1, AfterStep DEF Finish, Rest

(* A handler that starts has its type and has read nothing. *)
LEMMA NewHandler ==
  ASSUME NEW by \in {"people", "heartbeat", "report"}, NEW todo \in Seq(Steps), todo # <<>>
  PROVE  Handler(by, todo) \in Handlers /\ Handler(by, todo).saw = "-"
  BY DEF Handler, Handlers

(* Every new handler is one of these.                                         *)
LEMMA Spending ==
  ASSUME TypeOK, NEW kind \in {"edits", "decisions", "outages"}, May(kind), Spend(kind)
  PROVE  spent' \in [edits: 0 .. MaxEdits, decisions: 0 .. MaxDecisions, outages: 0 .. MaxOutages]
<1>1. spent \in [edits: 0 .. MaxEdits, decisions: 0 .. MaxDecisions, outages: 0 .. MaxOutages]
  BY DEF TypeOK
<1>2. CASE kind = "edits"
  BY <1>1, <1>2 DEF May, Spend
<1>3. CASE kind = "decisions"
  BY <1>1, <1>3 DEF May, Spend
<1>4. CASE kind = "outages"
  BY <1>1, <1>4 DEF May, Spend
<1> QED
  BY <1>2, <1>3, <1>4

(* The handlers under way after a step of somebody who starts one.            *)
Begun ==
  /\ flight' \subseteq Handlers
  /\ \A h \in flight' : h \in flight \/ h.saw = "-"

(* To start a handler is to begin one that has read nothing. *)
LEMMA StartsBegun ==
  ASSUME TypeOK, NEW by \in {"people", "heartbeat", "report"}, NEW todo \in Seq(Steps), todo # <<>>,
         flight' = flight \cup {Handler(by, todo)}
  PROVE  Begun
  BY NewHandler DEF Begun, TypeOK

(* The lists of steps handlers start with.                                    *)
LEMMA StepLists ==
  /\ \A s \in Steps : <<s>> \in Seq(Steps) /\ <<s>> # <<>>
  /\ \A s, t \in Steps : <<s, t>> \in Seq(Steps) /\ <<s, t>> # <<>>
  /\ {"ring", "check", "verify", "reject", "publish", "unpublish", "register", "edit", "submit"}
       \subseteq Steps
  BY DEF Steps

(* A step that only starts or ends handlers without a status they read.       *)
LEMMA BegunMayCount ==
  ASSUME Begun, SubmissionsMayCount, autoLive' = autoLive
  PROVE  SubmissionsMayCount'
  BY DEF Begun, SubmissionsMayCount

(* Acts of the owner leave parked submissions as they may be. *)
LEMMA OwnerFlight == ASSUME TypeOK, SubmissionsMayCount, OwnerActs
                     PROVE  flight' \subseteq Handlers /\ SubmissionsMayCount'
<1>1. flight \subseteq Handlers /\ shop \in ShopRows
  BY DEF TypeOK
<1>2. ASSUME NEW to \in Facts, EditRead(to) PROVE Begun /\ autoLive' = autoLive
  <2>1. /\ Handler("people", <<"edit", "check">>) \in Handlers
        /\ Handler("people", <<"edit", "check">>).saw = "-"
    BY StepLists, NewHandler
  <2> DEFINE h == [Handler("people", <<"edit", "check">>) EXCEPT !.was = shop.facts, !.to = to]
  <2>2. h \in Handlers /\ h.saw = "-"
    BY <1>1, <2>1 DEF Handlers, ShopRows
  <2>3. flight' = flight \cup {h} /\ autoLive' = autoLive
    BY <1>2 DEF EditRead, Start
  <2> HIDE DEF h
  <2> QED
    BY <1>1, <2>2, <2>3 DEF Begun
<1>3. CASE SubmitRead
  <2>1. Handler("people", <<"check", "submit">>) \in Handlers
    BY StepLists, NewHandler
  <2> DEFINE h == [Handler("people", <<"check", "submit">>) EXCEPT !.saw = shop.status]
  <2>2. h \in Handlers /\ h.saw = shop.status
    BY <1>1, <2>1 DEF Handlers, ShopRows
  <2>3. flight' = flight \cup {h} /\ autoLive' = autoLive /\ ~(autoLive /\ shop.status = "rejected")
    BY <1>3 DEF SubmitRead, Start
  <2> HIDE DEF h
  <2> QED
    BY <1>1, <2>2, <2>3 DEF SubmissionsMayCount
<1>4. ASSUME NEW b \in BOOLEAN, SetAccepting(b) PROVE Begun /\ autoLive' = autoLive
  <2>1. autoLive' = autoLive
    BY <1>4 DEF SetAccepting
  <2>2. CASE Start(Handler("people", <<"ring">>))
    BY <2>1, <2>2, StepLists, StartsBegun DEF Start
  <2>3. CASE UNCHANGED flight
    BY <1>1, <2>1, <2>3 DEF Begun
  <2> QED
    BY <1>4, <2>2, <2>3, <2>1 DEF SetAccepting
<1>5. ASSUME NEW linked \in BOOLEAN, NEW online \in BOOLEAN, SetPrinter(linked, online)
      PROVE  Begun /\ autoLive' = autoLive
  <2> DEFINE back == IF online /\ ~printer.online THEN <<"ring">> ELSE <<>>
             path == IF linked THEN <<"check", "ring">> ELSE <<>>
  <2>1. back \o path \in Seq(Steps)
    <3>1. back \in Seq(Steps) /\ path \in Seq(Steps)
      BY StepLists
    <3> HIDE DEF back, path
    <3> QED
      BY <3>1
  <2>2. autoLive' = autoLive
    BY <1>5 DEF SetPrinter
  <2>3. CASE back \o path = <<>> /\ UNCHANGED flight
    BY <1>1, <2>2, <2>3 DEF Begun
  <2>4. CASE back \o path # <<>> /\ Start(Handler("people", back \o path))
    BY <2>1, <2>2, <2>4, StartsBegun DEF Start
  <2> QED
    BY <1>5, <2>3, <2>4 DEF SetPrinter
<1>6. CASE Disconnect
  BY <1>1, <1>6 DEF Disconnect, SubmissionsMayCount
<1>7. CASE AskSetupStatus
  <2>1. flight' = flight \cup {Handler("people", <<"check">>)} /\ autoLive' = autoLive
    BY <1>7 DEF AskSetupStatus, Start
  <2> QED
    BY <2>1, StepLists, StartsBegun, BegunMayCount DEF Begun
<1> QED
  BY <1>2, <1>3, <1>4, <1>5, <1>6, <1>7, BegunMayCount DEF OwnerActs, Begun

(* So do acts of administrators, computers, fees and students. *)
LEMMA OtherFlight ==
  ASSUME TypeOK, SubmissionsMayCount,
         AdminActs \/ ComputerActs \/ FeesAct \/ \E s \in Students : RegisterRead(s)
  PROVE  flight' \subseteq Handlers /\ SubmissionsMayCount'
<1>1. flight \subseteq Handlers
  BY DEF TypeOK
<1> SUFFICES Begun /\ autoLive' = autoLive
  BY BegunMayCount DEF Begun
<1>2. ASSUME flight' = flight PROVE Begun
  BY <1>1, <1>2 DEF Begun
<1>3. ASSUME NEW by \in {"people", "heartbeat", "report"}, NEW s \in Steps,
             flight' = flight \cup {Handler(by, <<s>>)}
      PROVE  Begun
  BY <1>3, StepLists, StartsBegun
<1>4. CASE AdminActs
  <2>1. autoLive' = autoLive
    BY <1>4 DEF AdminActs, VerifyRead, RejectRead, PublishRead, UnpublishRead, Decide
  <2>2. \E s \in {"verify", "reject", "publish", "unpublish"} :
          flight' = flight \cup {Handler("people", <<s>>)}
    BY <1>4 DEF AdminActs, VerifyRead, RejectRead, PublishRead, UnpublishRead, Decide, Start
  <2> QED
    BY <1>3, <2>1, <2>2, StepLists
<1>5. CASE Stop \/ MarkOffline \/ FeeBlock
  BY <1>2, <1>5 DEF Stop, MarkOffline, FeeBlock
<1>6. CASE Connect \/ FeeUnblock
  BY <1>3, <1>6, StepLists DEF Connect, FeeUnblock, Start
<1>7. CASE Heartbeat
  BY <1>3, <1>7, StepLists DEF Heartbeat
<1>8. CASE ReportPrinters
  BY <1>8, StepLists, StartsBegun DEF ReportPrinters
<1>9. ASSUME NEW s \in Students, RegisterRead(s) PROVE Begun /\ autoLive' = autoLive
  <2>1. /\ Handler("people", <<"register">>) \in Handlers
        /\ Handler("people", <<"register">>).saw = "-"
    BY StepLists, NewHandler
  <2> DEFINE h == [Handler("people", <<"register">>) EXCEPT !.who = {s}]
  <2>2. h \in Handlers /\ h.saw = "-"
    BY <2>1 DEF Handlers
  <2>3. flight' = flight \cup {h} /\ autoLive' = autoLive
    BY <1>9 DEF RegisterRead, Start
  <2> HIDE DEF h
  <2> QED
    BY <1>1, <2>2, <2>3 DEF Begun
<1> QED
  BY <1>4, <1>5, <1>6, <1>7, <1>8, <1>9 DEF ComputerActs, FeesAct

(* A handler that goes on remembers no other status than it read.             *)
LEMMA HandlerFlight ==
  ASSUME TypeOK, SubmissionsMayCount, NEW h \in flight, HandlerStep(h) \/ HandlerDies(h)
  PROVE  flight' \subseteq Handlers /\ SubmissionsMayCount'
<1>1. flight \subseteq Handlers /\ h \in Handlers
  BY DEF TypeOK
<1>2. autoLive' = autoLive
  BY DEF HandlerStep, EditWrite, SubmitWrite, VerifyWrite, RejectWrite, PublishWrite, UnpublishWrite,
         CheckReady, GoLive, Ring, Tell, Forget, RegisterWrite, HandlerDies
<1>3. ASSUME flight' \subseteq Handlers, \A g \in flight' : g \in flight \/ g.saw = h.saw \/ g.saw = "-"
      PROVE  flight' \subseteq Handlers /\ SubmissionsMayCount'
  BY <1>2, <1>3 DEF SubmissionsMayCount
<1>4. CASE Finish(h)
  BY <1>1, <1>3, <1>4, FinishStep
<1>5. CASE Drop(h)
  BY <1>1, <1>3, <1>5 DEF Drop
<1>6. Tail(h.todo) \in Seq(Steps)
  BY <1>1 DEF Handlers
<1>7. CASE CheckReady(h)
  <2>1. CASE flight' = (flight \ {h}) \cup After(h, <<"golive">> \o Tail(h.todo))
    <3>1. <<"golive">> \o Tail(h.todo) \in Seq(Steps)
      BY <1>6 DEF Steps
    <3> QED
      BY <1>1, <1>3, <2>1, <3>1, AfterStep
  <2> QED
    BY <1>4, <1>7, <2>1 DEF CheckReady
<1>8. CASE Ring(h)
  <2> DEFINE todo == <<"tell", "forget">> \o Tail(h.todo)
             g == [h EXCEPT !.todo = todo, !.who = interest]
  <2>1. CASE flight' = (flight \ {h}) \cup {g}
    <3>1. todo \in Seq(Steps) /\ todo # <<>>
      BY <1>6 DEF Steps
    <3> HIDE DEF todo
    <3>2. g \in Handlers /\ g.saw = h.saw
      BY <1>1, <3>1 DEF Handlers, TypeOK
    <3> HIDE DEF g
    <3> QED
      BY <1>1, <1>3, <2>1, <3>2
  <2> QED
    BY <1>4, <1>8, <2>1 DEF Ring
<1>9. CASE Tell(h)
  <2>1. PICK who \in SUBSET h.who :
          flight' = (flight \ {h}) \cup Rest([h EXCEPT !.who = who])
    BY <1>9 DEF Tell
  <2> DEFINE g == [h EXCEPT !.who = who]
  <2>2. g \in Handlers /\ g.todo = h.todo /\ g.saw = h.saw
    BY <1>1 DEF Handlers
  <2> HIDE DEF g
  <2>3. flight' = (flight \ {h}) \cup After(g, Tail(h.todo))
    BY <2>1, <2>2 DEF Rest, g
  <2>4. /\ After(g, Tail(h.todo)) \subseteq Handlers
        /\ \A k \in After(g, Tail(h.todo)) : k.saw = g.saw \/ k.saw = "-"
    BY <1>6, <2>2, AfterStep
  <2> QED
    BY <1>1, <1>3, <2>2, <2>3, <2>4
<1> QED
  BY <1>4, <1>5, <1>7, <1>8, <1>9
     DEF HandlerStep, EditWrite, SubmitWrite, VerifyWrite, RejectWrite, PublishWrite, UnpublishWrite,
         GoLive, Forget, RegisterWrite, HandlerDies

(* Every step leaves parked submissions as they may be. *)
LEMMA FlightInductive ==
  ASSUME TypeOK, SubmissionsMayCount, [Next]_vars
  PROVE  flight' \subseteq Handlers /\ SubmissionsMayCount'
<1>1. CASE UNCHANGED vars
  BY <1>1 DEF vars, TypeOK, SubmissionsMayCount
<1> QED
  BY <1>1, OwnerFlight, OtherFlight, HandlerFlight DEF Next, StepOf

-----------------------------------------------------------------------------
(* The row of the shop, and the other types. *)

(* What a step of a handler may do to the shop and its review.                *)
LEMMA RowTypes ==
  ASSUME TypeOK, [Next]_vars
  PROVE  /\ shop' \in ShopRows /\ reviewed' \in Facts
         /\ lastAction' \in {"none", "verified", "rejected", "published", "unpublished"}
         /\ overtaken' \subseteq {"submission", "save"}
<1>1. shop \in ShopRows /\ reviewed \in Facts /\ overtaken \subseteq {"submission", "save"}
      /\ lastAction \in {"none", "verified", "rejected", "published", "unpublished"}
  BY DEF TypeOK
<1>2. ASSUME shop' = shop, UNCHANGED review
      PROVE  /\ shop' \in ShopRows /\ reviewed' \in Facts
             /\ lastAction' \in {"none", "verified", "rejected", "published", "unpublished"}
             /\ overtaken' \subseteq {"submission", "save"}
  BY <1>1, <1>2 DEF review
<1>3. CASE OwnerActs
  <2>1. ASSUME NEW b \in BOOLEAN, SetAccepting(b)
        PROVE  shop' \in ShopRows /\ UNCHANGED review
    BY <1>1, <2>1 DEF SetAccepting, ShopRows
  <2> QED
    BY <1>1, <1>2, <1>3, <2>1
       DEF OwnerActs, EditRead, SubmitRead, Disconnect, AskSetupStatus, SetPrinter, review
<1>4. CASE AdminActs
  BY <1>2, <1>4 DEF AdminActs, VerifyRead, RejectRead, PublishRead, UnpublishRead, Decide
<1>5. CASE ComputerActs
  BY <1>2, <1>5 DEF ComputerActs, Heartbeat, ReportPrinters, Connect, Stop, MarkOffline
<1>6. CASE FeesAct
  BY <1>1, <1>6 DEF FeesAct, FeeBlock, FeeUnblock, ShopRows, review
<1>7. ASSUME NEW s \in Students, RegisterRead(s) PROVE shop' = shop /\ UNCHANGED review
  BY <1>7 DEF RegisterRead
<1>8. ASSUME NEW h \in flight, HandlerDies(h) PROVE shop' = shop /\ UNCHANGED review
  BY <1>8 DEF HandlerDies
<1>9. ASSUME NEW h \in flight, HandlerStep(h)
      PROVE  /\ shop' \in ShopRows /\ reviewed' \in Facts
             /\ lastAction' \in {"none", "verified", "rejected", "published", "unpublished"}
             /\ overtaken' \subseteq {"submission", "save"}
  <2>1. h.to \in Facts
    BY DEF TypeOK, Handlers
  <2>2. CASE EditWrite(h)
    <3>1. Saved(h) \in ShopRows
      BY <1>1, <2>1 DEF Saved, ShopRows
    <3> QED
      BY <1>1, <2>2, <3>1 DEF EditWrite
  <2>3. CASE SubmitWrite(h)
    BY <1>1, <2>3 DEF SubmitWrite, ShopRows
  <2>4. CASE VerifyWrite(h)
    BY <1>1, <2>4 DEF VerifyWrite, ShopRows
  <2>5. CASE RejectWrite(h)
    BY <1>1, <2>5 DEF RejectWrite, ShopRows
  <2>6. CASE PublishWrite(h) \/ UnpublishWrite(h)
    BY <1>1, <2>6 DEF PublishWrite, UnpublishWrite, ShopRows
  <2>7. CASE GoLive(h)
    BY <1>1, <2>7 DEF GoLive, ShopRows, review
  <2>8. CASE CheckReady(h) \/ Ring(h) \/ Tell(h) \/ Forget(h) \/ RegisterWrite(h)
    BY <1>2, <2>8 DEF CheckReady, Ring, Tell, Forget, RegisterWrite
  <2> QED
    BY <1>9, <2>2, <2>3, <2>4, <2>5, <2>6, <2>7, <2>8 DEF HandlerStep
<1>10. CASE UNCHANGED vars
  BY <1>2, <1>10 DEF vars
<1> QED
  BY <1>2, <1>3, <1>4, <1>5, <1>6, <1>7, <1>8, <1>9, <1>10 DEF Next, StepOf

(* Every step keeps the types of the computer, the printer and the students. *)
LEMMA PeopleTypes ==
  ASSUME TypeOK, [Next]_vars
  PROVE  /\ autoLive' \in BOOLEAN /\ printer' \in PrinterRows /\ agent' \in AgentRows
         /\ interest' \subseteq Students /\ waiting' \subseteq Students
         /\ noticed' \subseteq Students
<1>1. /\ autoLive \in BOOLEAN /\ printer \in PrinterRows /\ agent \in AgentRows
      /\ interest \subseteq Students /\ waiting \subseteq Students /\ noticed \subseteq Students
  BY DEF TypeOK
<1>2. ASSUME autoLive' = autoLive, UNCHANGED people, printer' \in PrinterRows, agent' \in AgentRows
      PROVE  /\ autoLive' \in BOOLEAN /\ printer' \in PrinterRows /\ agent' \in AgentRows
             /\ interest' \subseteq Students /\ waiting' \subseteq Students
             /\ noticed' \subseteq Students
  BY <1>1, <1>2 DEF people
<1>3. CASE OwnerActs
  <2>1. autoLive' = autoLive /\ UNCHANGED people
    BY <1>3 DEF OwnerActs, EditRead, SubmitRead, Disconnect, AskSetupStatus, SetPrinter, SetAccepting
  <2>2. ASSUME NEW linked \in BOOLEAN, NEW online \in BOOLEAN, SetPrinter(linked, online)
        PROVE  printer' \in PrinterRows /\ agent' \in AgentRows
    BY <1>1, <2>2 DEF SetPrinter, PrinterRows, AgentRows
  <2>3. CASE Disconnect
    BY <1>1, <1>2, <2>1, <2>3 DEF Disconnect, AgentRows
  <2>4. ASSUME printer' = printer, agent' = agent
        PROVE  printer' \in PrinterRows /\ agent' \in AgentRows
    BY <1>1, <2>4
  <2> QED
    BY <1>2, <1>3, <2>1, <2>2, <2>3, <2>4
       DEF OwnerActs, EditRead, SubmitRead, AskSetupStatus, SetAccepting
<1>4. CASE AdminActs
  BY <1>1, <1>2, <1>4 DEF AdminActs, VerifyRead, RejectRead, PublishRead, UnpublishRead, Decide
<1>5. CASE ComputerActs
  <2>1. printer' = printer /\ agent' \in AgentRows
    BY <1>1, <1>5 DEF ComputerActs, Heartbeat, ReportPrinters, Connect, Stop, MarkOffline,
                      AgentRows, PrinterRows, Linked
  <2> QED
    BY <1>1, <1>2, <1>5, <2>1
       DEF ComputerActs, Heartbeat, ReportPrinters, Connect, Stop, MarkOffline
<1>6. CASE FeesAct
  BY <1>1, <1>2, <1>6 DEF FeesAct, FeeBlock, FeeUnblock
<1>7. CASE \E s \in Students : RegisterRead(s)
  BY <1>1, <1>2, <1>7 DEF RegisterRead
<1>8. ASSUME NEW h \in flight, HandlerStep(h) \/ HandlerDies(h)
      PROVE  /\ autoLive' \in BOOLEAN /\ printer' \in PrinterRows /\ agent' \in AgentRows
             /\ interest' \subseteq Students /\ waiting' \subseteq Students
             /\ noticed' \subseteq Students
  <2>1. h.who \subseteq Students
    BY DEF TypeOK, Handlers
  <2>2. CASE RegisterWrite(h)
    BY <1>1, <2>1, <2>2 DEF RegisterWrite
  <2>3. CASE Tell(h)
    BY <1>1, <2>1, <2>3 DEF Tell
  <2>4. CASE Forget(h)
    BY <1>1, <2>4 DEF Forget
  <2> QED
    BY <1>1, <1>2, <1>8, <2>2, <2>3, <2>4
       DEF HandlerStep, EditWrite, SubmitWrite, VerifyWrite, RejectWrite, PublishWrite,
           UnpublishWrite, CheckReady, GoLive, Ring, HandlerDies
<1>9. CASE UNCHANGED vars
  BY <1>1, <1>2, <1>9 DEF vars
<1> QED
  BY <1>3, <1>4, <1>5, <1>6, <1>7, <1>8, <1>9 DEF Next, StepOf

(* Every step keeps the counted acts within their bounds. *)
LEMMA SpentTypes ==
  ASSUME TypeOK, [Next]_vars
  PROVE  spent' \in [edits: 0 .. MaxEdits, decisions: 0 .. MaxDecisions, outages: 0 .. MaxOutages]
<1>1. CASE \E kind \in {"edits", "decisions", "outages"} : May(kind) /\ Spend(kind)
  BY <1>1, Spending
<1>2. CASE UNCHANGED spent
  BY <1>2 DEF TypeOK
<1>3. CASE OwnerActs \/ AdminActs
  <2>1. \/ May("edits") /\ Spend("edits")
        \/ May("decisions") /\ Spend("decisions")
    BY <1>3 DEF OwnerActs, EditRead, SubmitRead, Disconnect, AskSetupStatus, SetPrinter, SetAccepting,
                AdminActs, VerifyRead, RejectRead, PublishRead, UnpublishRead, Decide
  <2> QED
    BY <1>1, <2>1
<1>4. CASE ComputerActs \/ FeesAct
  BY <1>1, <1>2, <1>4 DEF ComputerActs, Heartbeat, ReportPrinters, Connect, Stop, MarkOffline,
                          FeesAct, FeeBlock, FeeUnblock
<1>5. CASE \E s \in Students : RegisterRead(s)
  BY <1>2, <1>5 DEF RegisterRead
<1>6. ASSUME NEW h \in flight, HandlerStep(h)
      PROVE  UNCHANGED spent \/ (May("outages") /\ Spend("outages"))
  BY <1>6 DEF HandlerStep, EditWrite, SubmitWrite, VerifyWrite, RejectWrite, PublishWrite,
              UnpublishWrite, CheckReady, GoLive, Ring, Tell, Forget, RegisterWrite
<1>7. CASE \E h \in flight : HandlerDies(h)
  BY <1>1, <1>7 DEF HandlerDies
<1>8. CASE UNCHANGED vars
  BY <1>2, <1>8 DEF vars
<1> QED
  BY <1>1, <1>2, <1>3, <1>4, <1>5, <1>6, <1>7, <1>8 DEF Next, StepOf

-----------------------------------------------------------------------------
(* The decisions of administrators. *)

(* A step that does not touch what students are shown, nor its review.        *)
Aside ==
  /\ shop'.status = shop.status /\ shop'.published = shop.published /\ shop'.facts = shop.facts
  /\ UNCHANGED review

(* All the others that write the row.                                         *)
LEMMA RowWriters ==
  ASSUME TypeOK, [Next]_vars
  PROVE  /\ autoLive' = autoLive
         /\ \/ Aside
            \/ \E h \in flight : EditWrite(h) \/ SubmitWrite(h) \/ VerifyWrite(h) \/ RejectWrite(h)
                                 \/ PublishWrite(h) \/ UnpublishWrite(h) \/ GoLive(h)
<1>1. shop \in ShopRows
  BY DEF TypeOK
<1>2. ASSUME shop' = shop, UNCHANGED review PROVE Aside
  BY <1>2 DEF Aside
<1>3. CASE OwnerActs
  <2>1. ASSUME NEW b \in BOOLEAN, SetAccepting(b) PROVE Aside
    BY <1>1, <2>1 DEF SetAccepting, ShopRows, Aside
  <2>2. autoLive' = autoLive
    BY <1>3 DEF OwnerActs, EditRead, SubmitRead, Disconnect, AskSetupStatus, SetPrinter, SetAccepting
  <2> QED
    BY <1>2, <1>3, <2>1, <2>2
       DEF OwnerActs, EditRead, SubmitRead, Disconnect, AskSetupStatus, SetPrinter
<1>4. CASE AdminActs
  BY <1>2, <1>4 DEF AdminActs, VerifyRead, RejectRead, PublishRead, UnpublishRead, Decide
<1>5. CASE ComputerActs
  BY <1>2, <1>5 DEF ComputerActs, Heartbeat, ReportPrinters, Connect, Stop, MarkOffline
<1>6. CASE FeesAct
  BY <1>1, <1>6 DEF FeesAct, FeeBlock, FeeUnblock, ShopRows, Aside
<1>7. CASE \E s \in Students : RegisterRead(s)
  BY <1>2, <1>7 DEF RegisterRead
<1>8. ASSUME NEW h \in flight, HandlerDies(h) PROVE autoLive' = autoLive /\ Aside
  BY <1>2, <1>8 DEF HandlerDies
<1>9. ASSUME NEW h \in flight, HandlerStep(h)
      PROVE  /\ autoLive' = autoLive
             /\ \/ Aside
                \/ EditWrite(h) \/ SubmitWrite(h) \/ VerifyWrite(h) \/ RejectWrite(h)
                   \/ PublishWrite(h) \/ UnpublishWrite(h) \/ GoLive(h)
  <2>1. autoLive' = autoLive
    BY <1>9 DEF HandlerStep, EditWrite, SubmitWrite, VerifyWrite, RejectWrite, PublishWrite,
                UnpublishWrite, CheckReady, GoLive, Ring, Tell, Forget, RegisterWrite
  <2> QED
    BY <1>2, <1>9, <2>1 DEF HandlerStep, CheckReady, Ring, Tell, Forget, RegisterWrite
<1>10. CASE UNCHANGED vars
  BY <1>2, <1>10 DEF vars
<1> QED
  BY <1>3, <1>4, <1>5, <1>6, <1>7, <1>8, <1>9, <1>10 DEF Next, StepOf

(* Each handler either notes an administrator's new decision, is noted as     *)
(* overtaken, or leaves a shop that was taken away where it is.               *)
LEMMA DecisionInductive ==
  ASSUME TypeOK, SubmissionsMayCount, DecisionKept, [Next]_vars
  PROVE  DecisionKept'
<1>1. shop \in ShopRows /\ autoLive' = autoLive
  BY RowWriters DEF TypeOK
<1>2. CASE Aside
  BY <1>1, <1>2 DEF Aside, review, DecisionKept
<1>3. ASSUME NEW h \in flight, UnpublishWrite(h) PROVE DecisionKept'
  <2>1. /\ shop'.published = FALSE /\ shop'.status = shop.status /\ overtaken' = overtaken
        /\ shop.status = "verified" \/ lastAction' = lastAction
    BY <1>1, <1>3 DEF UnpublishWrite, Listed, ShopRows
  <2> QED
    BY <1>1, <2>1 DEF DecisionKept
<1>4. ASSUME NEW h \in flight, EditWrite(h) PROVE DecisionKept'
  <2>1. \/ shop' = [shop EXCEPT !.facts = h.to]
        \/ ~autoLive /\ shop' = [shop EXCEPT !.facts = h.to, !.status = "draft", !.published = FALSE]
    BY <1>4 DEF EditWrite, Saved
  <2>2. \/ shop'.published = shop.published /\ shop'.status = shop.status
        \/ ~autoLive /\ shop'.published = FALSE
    BY <1>1, <2>1 DEF ShopRows
  <2> QED
    BY <1>1, <1>4, <2>2 DEF EditWrite, DecisionKept
<1>5. ASSUME NEW h \in flight, SubmitWrite(h) PROVE DecisionKept'
  <2>1. CASE StaysAsItIs(h)
    BY <1>1, <1>5, <2>1 DEF SubmitWrite, DecisionKept
  <2>2. CASE ~StaysAsItIs(h)
    <3>1. /\ shop'.published = FALSE /\ lastAction' = lastAction
          /\ h.saw # shop.status => "submission" \in overtaken'
          /\ overtaken \subseteq overtaken'
      BY <1>1, <1>5, <2>2 DEF SubmitWrite, ShopRows
    <3>2. autoLive /\ h.saw = shop.status => shop.status \in {"submitted"}
      BY <1>1, <1>5, <2>2 DEF SubmissionsMayCount, StaysAsItIs, ShopRows
    <3> QED
      BY <1>1, <3>1, <3>2 DEF DecisionKept
  <2> QED
    BY <2>1, <2>2
<1>6. ASSUME NEW h \in flight, VerifyWrite(h) \/ PublishWrite(h) PROVE DecisionKept'
  BY <1>6 DEF VerifyWrite, PublishWrite, DecisionKept
<1>7. ASSUME NEW h \in flight, RejectWrite(h) PROVE DecisionKept'
  BY <1>1, <1>7 DEF RejectWrite, DecisionKept, ShopRows
<1>8. ASSUME NEW h \in flight, GoLive(h) PROVE DecisionKept'
  <2>1. UNCHANGED review /\ (Publishable \/ shop' = shop)
    BY <1>8 DEF GoLive
  <2> QED
    BY <1>1, <2>1 DEF review, DecisionKept, Publishable, NeverReviewed
<1> QED
  BY <1>2, <1>3, <1>4, <1>5, <1>6, <1>7, <1>8, RowWriters

(* Of a shop reviewed by hand only an administrator says it is verified, of   *)
(* the facts on its row, and a save of other facts takes that back.           *)
LEMMA ReviewInductive == ASSUME TypeOK, ReviewKept, [Next]_vars PROVE ReviewKept'
<1>1. shop \in ShopRows /\ autoLive' = autoLive
  BY RowWriters DEF TypeOK
<1>2. CASE Aside
  BY <1>1, <1>2 DEF Aside, review, ReviewKept
<1>3. ASSUME NEW h \in flight, UnpublishWrite(h) PROVE ReviewKept'
  BY <1>1, <1>3 DEF UnpublishWrite, ReviewKept, ShopRows
<1>4. ASSUME NEW h \in flight, EditWrite(h) PROVE ReviewKept'
  <2>1. /\ reviewed' = reviewed /\ overtaken \subseteq overtaken'
        /\ h.was # shop.facts => "save" \in overtaken'
    BY <1>4 DEF EditWrite
  <2>2. CASE ~autoLive /\ h.to # h.was
    BY <1>1, <1>4, <2>2 DEF EditWrite, Saved, ShopRows, ReviewKept
  <2>3. CASE ~autoLive /\ h.to = h.was
    <3>1. shop'.facts = h.was /\ shop'.status = shop.status
      BY <1>1, <1>4, <2>3 DEF EditWrite, Saved, ShopRows
    <3> QED
      BY <1>1, <2>1, <3>1 DEF ReviewKept
  <2>4. CASE autoLive
    BY <1>1, <2>4 DEF ReviewKept
  <2> QED
    BY <2>2, <2>3, <2>4
<1>5. ASSUME NEW h \in flight, SubmitWrite(h) PROVE ReviewKept'
  <2>1. CASE StaysAsItIs(h)
    BY <1>1, <1>5, <2>1 DEF SubmitWrite, ReviewKept
  <2>2. CASE ~StaysAsItIs(h)
    <3>1. shop'.status = "submitted"
      BY <1>1, <1>5, <2>2 DEF SubmitWrite, ShopRows
    <3> QED
      BY <3>1 DEF ReviewKept
  <2> QED
    BY <2>1, <2>2
<1>6. ASSUME NEW h \in flight, VerifyWrite(h) \/ RejectWrite(h) \/ PublishWrite(h) PROVE ReviewKept'
  BY <1>1, <1>6 DEF VerifyWrite, RejectWrite, PublishWrite, ShopRows, ReviewKept
<1>7. ASSUME NEW h \in flight, GoLive(h) PROVE ReviewKept'
  <2>1. UNCHANGED review /\ (Publishable \/ shop' = shop)
    BY <1>7 DEF GoLive
  <2> QED
    BY <1>1, <2>1 DEF review, ReviewKept, Publishable
<1> QED
  BY <1>2, <1>3, <1>4, <1>5, <1>6, <1>7, RowWriters

-----------------------------------------------------------------------------
(* The theorems. *)

(* A new shop is hidden, and nothing is under way. *)
LEMMA ShopInit == Init => ShopInvariant
<1> SUFFICES ASSUME Init PROVE ShopInvariant
  OBVIOUS
<1>1. shop \in ShopRows /\ shop.status \in {"draft", "submitted"} /\ lastAction = "none"
  BY DEF Init, ShopRows
<1>2. TypeOK
  <2>1. printer \in PrinterRows /\ agent \in AgentRows
    BY DEF Init, PrinterRows, AgentRows
  <2> QED
    BY <1>1, <2>1 DEF Init, TypeOK
<1>3. SubmissionsMayCount
  BY DEF Init, SubmissionsMayCount
<1>4. DecisionKept /\ ReviewKept
  BY <1>1 DEF DecisionKept, ReviewKept
<1> QED
  BY <1>2, <1>3, <1>4 DEF ShopInvariant

(* The shop, its printer and computer, its handlers and its students keep     *)
(* their types, a shop taken away stays away, and a verified one is as it was *)
(* reviewed: for all facts, students and bounds.                              *)
THEOREM ShopInvariantHolds == Spec => []ShopInvariant
<1>1. ASSUME ShopInvariant, [Next]_vars PROVE ShopInvariant'
  <2>1. TypeOK'
    BY <1>1, FlightInductive, RowTypes, PeopleTypes, SpentTypes DEF ShopInvariant, TypeOK
  <2> QED
    BY <1>1, <2>1, FlightInductive, DecisionInductive, ReviewInductive
       DEF ShopInvariant
<1> QED
  BY <1>1, ShopInit, PTL DEF Spec

(* A shop an administrator rejected or unpublished is not shown until one     *)
(* acts again: no heartbeat, setup call or save brings it back.               *)
THEOREM AdminDecisionStandsHolds == Spec => []AdminDecisionStands
<1>1. ShopInvariant => AdminDecisionStands
  BY DEF ShopInvariant, DecisionKept, AdminDecisionStands, Listed
<1> QED
  BY <1>1, ShopInvariantHolds, PTL

(* Students of a shop that is reviewed by hand see the name and the place     *)
(* that were reviewed, but for a save that had read an older row.             *)
THEOREM ReviewedFactsShownHolds == Spec => []ReviewedFactsShown
<1>1. ShopInvariant => ReviewedFactsShown
  BY DEF ShopInvariant, ReviewKept, ReviewedFactsShown, Listed
<1> QED
  BY <1>1, ShopInvariantHolds, PTL
================================================================================
